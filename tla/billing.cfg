\* Three disbursement requests beside a webhook request, or a page's reader beside two.
SPECIFICATION PartSpec
CONSTANTS
  e1 = e1
  Worker = {w1, w2}
  Envelope = {e1}
  Email = {}
  NoEmail = NoEmail
  NoMail = NoMail
  Intakes <- BareIntake
  Mail <- ShortMail
  ManualTargets = {"served", "terminated"}
  Retries = FALSE
  MaxFailures = 0
  MaxDuplicates = 0
  Request = {r1, r2, r3}
  Payment = {p1}
  NoPayment = NoPayment
  LiveStripe = TRUE
  MaxBillingFailures = 1
SYMMETRY Interchangeable
INVARIANTS BillingTypeOK LedgerComplete OrphansAreFailures BilledOnce
  BilledOnEvidence DisbursementIsTraceable ShownStatusIsBacked
PROPERTIES KeepsTheBooks
CHECK_DEADLOCK FALSE
