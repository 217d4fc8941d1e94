\* One file and a rebuild, two workers, retries, a failing call, a crash, a lost lock.
SPECIFICATION FairSpec
CONSTANTS
  Files = {f1}
  Rebuilds = {r1}
  Workers = {w1, w2}
  Chunks = 2
  Attempts = 2
  NoJob = NoJob
  NoWorker = NoWorker
  MaxErrors = 1
  MaxCrashes = 1
  MaxLost = 1
INVARIANTS
  TypeOK
  StatusesAreTrue
  RunsBounded
PROPERTIES
  QueuedIsDecided
  JobsEnd
CHECK_DEADLOCK FALSE
