\* One delivery, two workers, two administrators, and a stranger's job.
SPECIFICATION Spec
CONSTANTS
  w1 = w1
  w2 = w2
  a1 = a1
  a2 = a2
  Deliveries = {1}
  ForeignJobs = {99}
  Workers = {w1, w2}
  Admins = {a1, a2}
  NoWorker = NoWorker
  NoJob = NoJob
  NoReceipt = NoReceipt
  NoInquiry = NoInquiry
  PollLimit = 1
  MaxFailures = 0
  MaxCrashes = 1
INVARIANTS
  CancelledOnceAndAsked
  OutcomeIsTrue
  ReceiptMatchesDelivery
PROPERTIES
  KeepsPromise
SYMMETRY Symmetry
