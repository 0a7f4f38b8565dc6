\* The assignment is terminated while a disbursement request is in progress.
SPECIFICATION SystemSpec
CONSTANTS
  e1 = e1
  Worker = {w1}
  Envelope = {e1}
  Email = {}
  NoEmail = NoEmail
  NoMail = NoMail
  Intakes <- BareIntake
  Mail <- ShortMail
  ManualTargets = {"served", "terminated"}
  Retries = FALSE
  MaxFailures = 0
  MaxDuplicates = 0
  Request = {r1, r2}
  Payment = {p1}
  NoPayment = NoPayment
  LiveStripe = FALSE
  MaxBillingFailures = 0
PROPERTIES DisbursedWhilePerfected
CHECK_DEADLOCK FALSE
