SPECIFICATION SchedulesSpec
CONSTANTS
  \* the order of the queue
  Jobs = {1, 2, 3}
  PriorityMax = 1
  Aging = 2
  MaxRollback = 1
  \* the walk round the printers
  Count = 3
  Concurrency = 2
  Slow = {1}
  \* inspections
  i1 = i1
  i2 = i2
  s1 = s1
  s2 = s2
  Inspections = {i1, i2}
  Submissions = {s1, s2}
  NoSubmission = NoSubmission
  QueueLimit = 2
  MaxInspectionFaults = 1
  \* color attempts
  j1 = j1
  a1 = a1
  a2 = a2
  SourceJobs = {j1}
  Attempts = {a1, a2}
  NoAttempt = NoAttempt
  Total = 1
  MaxDay = 1
  MaxFaults = 1
INVARIANT FinishedIsClean
PROPERTIES
  NoOvertakingOfAged
  QueuedIsServed
  PrintersObserved
  InspectionSettles
  ColorEnds
CHECK_DEADLOCK FALSE
