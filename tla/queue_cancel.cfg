\* One job, one worker, one client: a cancel after the worker's re-read.
SPECIFICATION Spec
CONSTANTS
  j1 = j1
  r1 = r1
  c1 = c1
  Jobs = {j1}
  OnePage = {j1}
  Runs = {r1}
  ManualRuns = {}
  Clients = {c1}
  Dispatcher = Dispatcher
  NoRun = NoRun
  NoJob = NoJob
  NoReceipt = NoReceipt
  Pages <- PageCounts
  MaxRevision = 0
  MaxCrashes = 0
INVARIANT CancelledOutputDiscarded
