\* A disbursement request fails after Stripe was called.
SPECIFICATION SystemSpec
CONSTANTS
  e1 = e1
  Worker = {w1}
  Envelope = {e1}
  Email = {}
  NoEmail = NoEmail
  NoMail = NoMail
  Intakes <- BareIntake
  Mail <- ShortMail
  ManualTargets = {"served", "terminated"}
  Retries = FALSE
  MaxFailures = 0
  MaxDuplicates = 0
  Request = {r1, r2}
  Payment = {p1}
  NoPayment = NoPayment
  LiveStripe = TRUE
  MaxBillingFailures = 1
INVARIANTS EveryMeterEventLedgered
CHECK_DEADLOCK FALSE
