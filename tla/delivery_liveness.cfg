\* One delivery, one worker that is restarted, failing queries, and an
\* administrator, under fairness.
SPECIFICATION FairSpec
CONSTANTS
  w1 = w1
  a1 = a1
  Deliveries = {1}
  ForeignJobs = {}
  Workers = {w1}
  Admins = {a1}
  NoWorker = NoWorker
  NoJob = NoJob
  NoReceipt = NoReceipt
  NoInquiry = NoInquiry
  PollLimit = 1
  MaxFailures = 2
  MaxCrashes = 2
PROPERTIES
  SendEnds
  CancelIsTried
  AcceptedSettles
