CONSTANTS
  j1 = j1
  r1 = r1
  r2 = r2
  m1 = m1
  c1 = c1
  c2 = c2
  Jobs = {j1}
  OnePage = {j1}
  Runs = {r1,r2,m1}
  ManualRuns = {m1}
  Clients = {c1,c2}
  Dispatcher = Dispatcher
  NoRun = NoRun
  NoJob = NoJob
  NoReceipt = NoReceipt
  Pages <- PageCounts
  MaxRevision = 1
  MaxCrashes = 1
  \* audit log, archives and vaults
  x1 = x1
  o1 = o1
  o2 = o2
  k1 = k1
  Archives = {x1}
  Operators = {o1, o2}
  NoOne = NoOne
  Keys = {k1}
  MaxRecords = 2
  MaxForeign = 2
  \* snapshots and their budgets
  w1 = w1
  w2 = w2
  i1 = i1
  i2 = i2
  Readers = {w1, w2}
  NoReader = NoReader
  Reservations = {i1, i2}
  NoReservation = NoReservation
  Slots = 2
  SlotUnits = 2
  Permits = 4
  Capacity = 2
  MaxUnits = 3
SPECIFICATION PartsSpec
INVARIANTS
  OneWorkerPerJob
  CompletedIsPublished
  NoStrandedJob
  WorkerExitIsTrue
  ArchiveIsClosed
  PruneKeepsACopy
  DiskIsPaidFor
PROPERTY RevokedNeverSigns
SYMMETRY RunSymmetry
