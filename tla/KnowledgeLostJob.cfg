\* The queue does not take the job after the file and its task were stored.
SPECIFICATION Spec
CONSTANTS
  Files = {f1}
  Rebuilds = {}
  Workers = {w1}
  Chunks = 1
  Attempts = 1
  NoJob = NoJob
  NoWorker = NoWorker
  MaxErrors = 1
  MaxCrashes = 0
  MaxLost = 0
INVARIANT
  PendingHasJob
CHECK_DEADLOCK FALSE
