\* Two accepted deliveries and a list of one: the second waits behind a job
\* that never settles.
SPECIFICATION FairSpec
CONSTANTS
  w1 = w1
  Deliveries = {1, 2}
  ForeignJobs = {}
  Workers = {w1}
  Admins = {}
  NoWorker = NoWorker
  NoJob = NoJob
  NoReceipt = NoReceipt
  NoInquiry = NoInquiry
  PollLimit = 1
  MaxFailures = 0
  MaxCrashes = 0
PROPERTY CancelIsTried
