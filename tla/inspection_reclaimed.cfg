\* Two submissions and one inspection pass; nothing fails.
SPECIFICATION InspectionSpec
CONSTANTS
  i1 = i1
  i2 = i2
  s1 = s1
  s2 = s2
  Inspections = {i1, i2}
  Submissions = {s1, s2}
  NoSubmission = NoSubmission
  QueueLimit = 2
  MaxInspectionFaults = 0
INVARIANT AcceptedKeepsSource
CHECK_DEADLOCK FALSE
