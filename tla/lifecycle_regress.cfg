\* Two webhook requests at once, nothing fails: the status regresses.
SPECIFICATION Spec
CONSTANTS
  e1 = e1  e2 = e2  w1 = w1  w2 = w2
  ann = ann  bob = bob  carol = carol  dave = dave
  Worker = {w1, w2}
  Envelope = {e1}
  Email <- ThreeAddresses
  NoEmail = NoEmail
  NoMail = NoMail
  Intakes <- PlainIntake
  Mail <- ConcurrentMail
  ManualTargets = {"served"}
  Retries = FALSE
  MaxFailures = 0
  MaxDuplicates = 0
PROPERTIES PerfectedStays
CHECK_DEADLOCK FALSE
