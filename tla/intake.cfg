\* Three onboardings and three intakes at once, one failure.
SPECIFICATION Spec
CONSTANTS
  Onboarding = {f1, f2, f3}
  Taking = {i1, i2, i3}
  Slug = {s1, s2}
  Uei = {u1, u2}
  Contract = {c1}
  Nothing = Nothing
  MaxFailures = 1
SYMMETRY Symmetric
INVARIANTS TypeOK DuplicateNeverCreates SameContractor StubsAreFailures
PROPERTIES KeepsRegistry
CHECK_DEADLOCK FALSE
