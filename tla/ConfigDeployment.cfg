SPECIFICATION Spec
CONSTANTS
  c1 = c1
  c2 = c2
  c3 = c3
  c4 = c4
  a = a
  b = b
  None = None
  Configs = {c1, c2, c3, c4}
  Instances = {a, b}
  Deployable = {c1, c2, c3}
  Fit <- MixedFit
  Readable = {TRUE, FALSE}
  Plans <- TwoRows
  MaxEvents = 1
INVARIANTS TypeOK ActiveIsBackedByAcks RunsOnlyRecordedConfigs RememberedWasRecorded
PROPERTY MovesBackOnlyByOverlap
CHECK_DEADLOCK FALSE
