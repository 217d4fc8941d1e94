\* A file, a rebuild and a query; a route changes, a call fails, an embedding fails.
SPECIFICATION RagSpec
CONSTANTS
  w1 = w1
  w2 = w2
  Files = {f1}
  Rebuilds = {r1}
  Workers = {w1, w2}
  Chunks = 2
  Attempts = 2
  NoJob = NoJob
  NoWorker = NoWorker
  MaxErrors = 1
  MaxCrashes = 0
  MaxLost = 0
  Queries = {q1}
  Models = {m1}
  Local = Local
  NoRoute = NoRoute
  NoEmbedding = NoEmbedding
  MaxChanges = 1
  MaxFallbacks = 1
SYMMETRY AlikeWorkers
INVARIANTS
  RagTypeOK
  RebuiltIsComparable
  AnswersAreWhole
CHECK_DEADLOCK FALSE
