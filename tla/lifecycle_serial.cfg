\* One webhook request at a time, with failures and redeliveries.
SPECIFICATION FairSpec
CONSTANTS
  e1 = e1  e2 = e2  w1 = w1  w2 = w2
  ann = ann  bob = bob  carol = carol  dave = dave
  Worker = {w1}
  Envelope = {e1, e2}
  Email <- ThreeAddresses
  NoEmail = NoEmail
  NoMail = NoMail
  Intakes <- SerialIntakes
  Mail <- SerialMail
  ManualTargets = {"served"}
  Retries = TRUE
  MaxFailures = 1
  MaxDuplicates = 1
INVARIANTS LogIsSound LogIsHistory
PROPERTIES FollowsLegalSequence RetryPerfects
CHECK_DEADLOCK FALSE
