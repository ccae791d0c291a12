\* One colored pipeline that needs approval, two workers, two cancel requests, a failing
\* read and a crash.
SPECIFICATION Spec
CONSTANTS
  w1 = w1
  w2 = w2
  c1 = c1
  c2 = c2
  a1 = a1
  a2 = a2
  Pipelines = {1}
  Colored = {1}
  Workers = {w1, w2}
  Cancels = {c1, c2}
  Approvals = {a1, a2}
  RequireApproval = TRUE
  NoApproval = NoApproval
  NoValue = NoValue
  NoHolder = NoHolder
  PassLimit = 100
  MaxRevision = 3
  MaxMisreads = 1
  MaxCrashes = 1
INVARIANTS
  CancelledIsQuiet
  SourceKept
PROPERTIES
  PrintedWithApproval
  KeepsPromise
SYMMETRY Symmetry
