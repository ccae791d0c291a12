\* One pipeline whose approval lapses while its delivery is prepared.
SPECIFICATION Spec
CONSTANTS
  w1 = w1
  a1 = a1
  Pipelines = {1}
  Colored = {}
  Workers = {w1}
  Cancels = {}
  Approvals = {a1}
  RequireApproval = TRUE
  NoApproval = NoApproval
  NoValue = NoValue
  NoHolder = NoHolder
  PassLimit = 1
  MaxRevision = 4
  MaxMisreads = 0
  MaxCrashes = 0
INVARIANTS
  LapsedApprovalWaits
