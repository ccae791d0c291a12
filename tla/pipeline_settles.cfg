\* Two pipelines, one of them colored, a worker and a cancel request that contend for
\* the lock, under fairness.
SPECIFICATION FairSpec
CONSTANTS
  w1 = w1
  c1 = c1
  Pipelines = {1, 2}
  Colored = {1}
  Workers = {w1}
  Cancels = {c1}
  Approvals = {}
  RequireApproval = FALSE
  NoApproval = NoApproval
  NoValue = NoValue
  NoHolder = NoHolder
  PassLimit = 2
  MaxRevision = 1
  MaxMisreads = 0
  MaxCrashes = 0
PROPERTIES
  OutcomeFollows
  ReadyIsDelivered
