CONSTANTS
  j1 = j1
  r1 = r1
  m1 = m1
  c1 = c1
  Jobs = {j1}
  OnePage = {j1}
  Runs = {r1, m1}
  ManualRuns = {m1}
  Clients = {c1}
  Dispatcher = Dispatcher
  NoRun = NoRun
  NoJob = NoJob
  NoReceipt = NoReceipt
  Pages <- PageCounts
  MaxRevision = 1
  MaxCrashes = 2
SPECIFICATION FairSpec
PROPERTIES
  QueuedJobIsServed
  LeaseGoesAway
  ImplementsLifecycle
