\* Two webhook requests at once record the two signatures; one may crash.
SPECIFICATION FairSpec
CONSTANTS
  e1 = e1  e2 = e2  w1 = w1  w2 = w2
  ann = ann  bob = bob  carol = carol  dave = dave
  Worker = {w1, w2}
  Envelope = {e1}
  Email <- ThreeAddresses
  NoEmail = NoEmail
  NoMail = NoMail
  Intakes <- PlainIntake
  Mail <- SigningMail
  ManualTargets = {"terminated"}
  Retries = TRUE
  MaxFailures = 1
  MaxDuplicates = 0
PROPERTIES SignedIsExecuted
CHECK_DEADLOCK FALSE
