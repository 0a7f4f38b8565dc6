\* The signers open the document and sign nothing.
SPECIFICATION Spec
CONSTANTS
  e1 = e1  e2 = e2  w1 = w1  w2 = w2
  ann = ann  bob = bob  carol = carol  dave = dave
  Worker = {w1}
  Envelope = {e1}
  Email <- ThreeAddresses
  NoEmail = NoEmail
  NoMail = NoMail
  Intakes <- SerialIntakes
  Mail <- OpenedMail
  ManualTargets = {}
  Retries = TRUE
  MaxFailures = 0
  MaxDuplicates = 0
INVARIANTS ExecutedJustified
CHECK_DEADLOCK FALSE
