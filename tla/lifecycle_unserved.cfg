\* No operator: what the routes do by themselves.
SPECIFICATION FairSpec
CONSTANTS
  e1 = e1  e2 = e2  w1 = w1  w2 = w2
  ann = ann  bob = bob  carol = carol  dave = dave
  Worker = {w1}
  Envelope = {e1}
  Email <- ThreeAddresses
  NoEmail = NoEmail
  NoMail = NoMail
  Intakes <- SerialIntakes
  Mail <- SerialMail
  ManualTargets = {}
  Retries = TRUE
  MaxFailures = 0
  MaxDuplicates = 0
PROPERTIES ExecutedIsServed
CHECK_DEADLOCK FALSE
