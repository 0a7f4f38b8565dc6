\* Two webhook requests at once, one failure.
SPECIFICATION Spec
CONSTANTS
  e1 = e1  e2 = e2  w1 = w1  w2 = w2
  ann = ann  bob = bob  carol = carol  dave = dave
  Worker = {w1, w2}
  Envelope = {e1}
  Email <- ThreeAddresses
  NoEmail = NoEmail
  NoMail = NoMail
  Intakes <- PlainIntake
  Mail <- ConcurrentMail
  ManualTargets = {"served"}
  Retries = FALSE
  MaxFailures = 1
  MaxDuplicates = 0
SYMMETRY Workers
INVARIANTS TypeOK PerfectedJustified StatusIsLogged
PROPERTIES StatusHasEvidence AcknowledgementsStick
CHECK_DEADLOCK FALSE
