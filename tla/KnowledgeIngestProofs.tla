------------------------ MODULE KnowledgeIngestProofs ------------------------
(***************************************************************************)
(* Safety of the ingestion for every number of files, workers, chunks and  *)
(* attempts, and of failures and crashes; and of the queries that search   *)
(* what it stores, for any models and routes.                              *)
(***************************************************************************)
EXTENDS RagQuery, FiniteSetTheorems, TLAPS

-----------------------------------------------------------------------------
(* The inductive invariant.  As long as no lock was lost, a job has one    *)
(* worker at most, the one that holds its lock ...                         *)
LocksOK ==
  /\ \A w \in Workers :
       /\ pc[w] = "idle" => at[w] = NoJob
       /\ pc[w] # "idle" => at[w] \in Jobs /\ holder[at[w]] = w /\ job[at[w]] = "active"
  /\ \A j \in Jobs :
       holder[j] # NoWorker => pc[holder[j]] # "idle" /\ at[holder[j]] = j

(* ... a request comes after its task, and the chunks after their file ... *)
OrderOK ==
  /\ \A j \in Jobs : request[j] # "none" => task[j] # "absent"
  /\ \A f \in Files :
       /\ parse[f] = "absent" => RowsOf(f) = {}
       /\ task[f] # "absent" => request[f] # "none"

RunUpTo(f, n, k) == {Row(f, n, i) : i \in 1..k}

(* ... a worker that touches the chunks of a file has its task running,    *)
(* and has stored and indexed the chunks before the next ...               *)
Written(f, n, k, v) ==
  /\ RowsOf(f) = RunUpTo(f, n, k)
  /\ RunUpTo(f, n, v) \subseteq vectors

WorkerOK(w) ==
  /\ pc[w] \in {"load", "delete", "create", "vector", "markFile", "catchFile"} => at[w] \in Files
  /\ pc[w] \in {"read", "update"} => at[w] \in Rebuilds
  /\ pc[w] \in Tried \cup {"catchFile", "catchTask"} => task[at[w]] = "running"
  /\ pc[w] = "create" => next[w] \in 1..Chunks /\ Written(at[w], run[w], next[w] - 1, next[w] - 1)
  /\ pc[w] = "vector" => next[w] \in 1..Chunks /\ Written(at[w], run[w], next[w], next[w] - 1)
  /\ pc[w] = "markFile" => Written(at[w], run[w], Chunks, Chunks)
  /\ pc[w] = "markTask" /\ at[w] \in Files =>
       Written(at[w], run[w], Chunks, Chunks) /\ parse[at[w]] = "succeeded"
  /\ pc[w] = "return" => task[at[w]] = "succeeded"
  /\ pc[w] = "catchTask" /\ at[w] \in Files => parse[at[w]] = "failed"

(* ... and the statuses tell the truth.                                    *)
FileOK(f) ==
  /\ task[f] = "absent" /\ parse[f] # "absent" => parse[f] = "succeeded" /\ Complete(f)
  /\ task[f] = "succeeded" => parse[f] = "succeeded" /\ Complete(f)
  /\ task[f] = "failed" => parse[f] = "failed"

DoneOK(j) == job[j] = "done" => task[j] = "succeeded"

Core ==
  /\ LocksOK
  /\ OrderOK
  /\ \A w \in Workers : WorkerOK(w)
  /\ \A f \in Files : FileOK(f)
  /\ \A j \in Jobs : DoneOK(j)

-----------------------------------------------------------------------------
(* What makes TypeOK inductive, whatever locks were lost: a worker that is *)
(* not idle has a job, of the kind it works on, and the index of a chunk;  *)
(* a job comes after its request, and a request after its file; a job with *)
(* a held lock is active; and a job has an attempt left till it ends.      *)
StandOK ==
  /\ \A w \in Workers :
       /\ pc[w] # "idle" => at[w] \in Jobs
       /\ pc[w] \in {"load", "delete", "create", "vector", "markFile", "catchFile"} => at[w] \in Files
       /\ pc[w] \in {"read", "update"} => at[w] \in Rebuilds
       /\ pc[w] \in {"create", "vector"} => next[w] \in 1..Chunks
  /\ \A j \in Jobs :
       /\ job[j] # "none" => request[j] = "done"
       /\ holder[j] # NoWorker => job[j] = "active"
       /\ job[j] \in {"waiting", "active"} => left[j] > 0
  /\ \A f \in Files : request[f] # "none" => parse[f] # "absent"

Typed == TypeOK /\ StandOK

Inv == Typed /\ (lost = 0 => Core)

-----------------------------------------------------------------------------
(* Types.                                                                  *)
LEMMA InitTyped == Init => Typed
  BY IngestAssumption DEF Init, Typed, TypeOK, StandOK, Steps, Tried, Jobs

USE DEF Goto

LEMMA TypedAsk ==
  ASSUME Typed,
         \/ \E f \in Files : AddInline(f) \/ AddQueued(f)
         \/ \E r \in Rebuilds : RequestRebuild(r)
         \/ \E j \in Jobs : EnqueueFails(j)
  PROVE  Typed'
<1> USE IngestAssumption DEF Typed, TypeOK, StandOK, Jobs, Steps, Tried
<1>1. ASSUME NEW f \in Files, AddInline(f) PROVE Typed'
  <2>1. FullRun(f, 0) \subseteq [file : Files, run : Nat, index : 1..Chunks]
    BY DEF FullRun, Row
  <2> QED BY <1>1, <2>1 DEF AddInline, queue, local, faults
<1>2. ASSUME NEW f \in Files, AddQueued(f) PROVE Typed'
  BY <1>2 DEF AddQueued, queue, local, faults
<1>3. ASSUME NEW r \in Rebuilds, RequestRebuild(r) PROVE Typed'
  BY <1>3 DEF RequestRebuild, queue, local, faults
<1>4. ASSUME NEW j \in Jobs, EnqueueFails(j) PROVE Typed'
  BY <1>4 DEF EnqueueFails, tables, queue, local
<1> QED BY <1>1, <1>2, <1>3, <1>4

LEMMA TypedQueue ==
  ASSUME Typed, NEW j \in Jobs,
         Enqueue(j) \/ Recover(j) \/ \E w \in Workers : Take(w, j)
  PROVE  Typed'
<1> USE IngestAssumption DEF Typed, TypeOK, StandOK, Steps, Tried
<1>1. CASE Enqueue(j)
  BY <1>1 DEF Enqueue, tables, local, faults
<1>2. CASE Recover(j)
  BY <1>2 DEF Recover, tables, local, faults
<1>3. ASSUME NEW w \in Workers, Take(w, j) PROVE Typed'
  BY <1>3 DEF Take, tables, faults
<1> QED BY <1>1, <1>2, <1>3

LEMMA TypedParse ==
  ASSUME Typed, NEW w \in Workers, Parse(w)
  PROVE  Typed'
<1> USE IngestAssumption DEF Typed, TypeOK, StandOK, Steps, Tried, queue, faults
<1>1. CASE Load(w)
  BY <1>1 DEF Load, tables
<1>2. CASE DeleteChunks(w)
  BY <1>2 DEF DeleteChunks, RowsOf
<1>3. CASE CreateChunk(w)
  <2>1. Row(at[w], run[w], next[w]) \in [file : Files, run : Nat, index : 1..Chunks]
    BY <1>3 DEF CreateChunk, Row
  <2> QED BY <1>3, <2>1 DEF CreateChunk
<1>4. CASE SetVector(w)
  <2>1. vectors' \subseteq rows'
    BY <1>4 DEF SetVector, Present
  <2> QED BY <1>4, <2>1 DEF SetVector
<1>5. CASE MarkFileSucceeded(w)
  BY <1>5 DEF MarkFileSucceeded
<1>6. CASE MarkFileFailed(w)
  BY <1>6 DEF MarkFileFailed
<1> QED BY <1>1, <1>2, <1>3, <1>4, <1>5, <1>6 DEF Parse

LEMMA TypedWork ==
  ASSUME Typed, NEW w \in Workers,
         \/ MarkRunning(w) \/ Rebuild(w) \/ MarkTaskSucceeded(w) \/ MarkTaskFailed(w)
         \/ Fail(w) \/ FailUncaught(w)
  PROVE  Typed'
<1> USE IngestAssumption DEF Typed, TypeOK, StandOK, Steps, Tried, queue
<1>1. CASE MarkRunning(w)
  BY <1>1 DEF MarkRunning, faults, Jobs
<1>2. CASE ReadChunks(w)
  BY <1>2 DEF ReadChunks, tables, faults
<1>3. CASE UpdateChunk(w)
  BY <1>3 DEF UpdateChunk, faults
<1>4. CASE MarkTaskSucceeded(w)
  BY <1>4 DEF MarkTaskSucceeded, faults
<1>5. CASE MarkTaskFailed(w)
  BY <1>5 DEF MarkTaskFailed, faults
<1>6. CASE Fail(w)
  BY <1>6 DEF Fail, tables, Jobs
<1>7. CASE FailUncaught(w)
  BY <1>7 DEF FailUncaught, tables
<1> QED BY <1>1, <1>2, <1>3, <1>4, <1>5, <1>6, <1>7 DEF Rebuild

LEMMA TypedEnd ==
  ASSUME Typed, NEW w \in Workers,
         Return(w) \/ Throw(w) \/ Die(w) \/ LoseLock(w)
  PROVE  Typed'
<1> USE IngestAssumption DEF Typed, TypeOK, StandOK, Steps, Tried, Free, Holds, LetGo
<1>1. CASE Return(w)
  BY <1>1 DEF Return, tables, faults
<1>2. CASE Throw(w)
  BY <1>2 DEF Throw, tables, faults
<1>3. CASE Die(w)
  BY <1>3 DEF Die, tables
<1>4. CASE LoseLock(w)
  BY <1>4 DEF LoseLock, tables, local
<1> QED BY <1>1, <1>2, <1>3, <1>4

LEMMA NextTyped == Typed /\ [Next]_vars => Typed'
<1> SUFFICES ASSUME Typed, [Next]_vars PROVE Typed'
  OBVIOUS
<1>1. CASE UNCHANGED vars
  BY <1>1 DEF Typed, TypeOK, StandOK, vars, tables, queue, local, faults
<1>2. CASE Next
  BY <1>2, TypedAsk, TypedQueue, TypedParse, TypedWork, TypedEnd DEF Next, Ask, Work
<1> QED BY <1>1, <1>2

(* Every variable has its type in every reachable state.                   *)
THEOREM TypeCorrect == Spec => []TypeOK
<1>1. Init => Typed
  BY InitTyped
<1>2. Typed /\ [Next]_vars => Typed'
  BY NextTyped
<1>3. Typed => TypeOK
  BY DEF Typed
<1> QED BY <1>1, <1>2, <1>3, PTL DEF Spec

-----------------------------------------------------------------------------
(* What a step leaves alone of a file.                                     *)
Kept(f) ==
  /\ task'[f] = task[f] /\ parse'[f] = parse[f]
  /\ RowsOf(f)' = RowsOf(f)
  /\ \A r \in vectors : r.file = f => r \in vectors'

LEMMA RunHasFirst ==
  ASSUME NEW f, NEW n
  PROVE  Row(f, n, 1) \in FullRun(f, n)
BY IngestAssumption DEF FullRun

(* A file is complete once its chunks are those of a run, with vectors.    *)
LEMMA CompleteNext ==
  ASSUME NEW f, NEW n, RowsOf(f)' = FullRun(f, n), FullRun(f, n) \subseteq vectors'
  PROVE  Complete(f)'
<1>1. Row(f, n, 1) \in rows'
  BY RunHasFirst DEF RowsOf
<1>2. n \in {r.run : r \in rows'}
  BY <1>1 DEF Row
<1>3. RowsOf(f)' = FullRun(f, n) /\ FullRun(f, n) \subseteq vectors'
  OBVIOUS
<1> QED BY <1>2, <1>3 DEF Complete, RowsOf, FullRun

(* A file no step touches keeps its truth ...                              *)
LEMMA FileKept ==
  ASSUME NEW f, FileOK(f), Kept(f)
  PROVE  FileOK(f)'
<1>1. ASSUME Complete(f) PROVE Complete(f)'
  <2>1. PICK n \in {r.run : r \in rows} : RowsOf(f) = FullRun(f, n) /\ FullRun(f, n) \subseteq vectors
    BY <1>1 DEF Complete
  <2>2. FullRun(f, n) \subseteq vectors'
    BY <2>1 DEF Kept, FullRun, Row
  <2>3. RowsOf(f)' = FullRun(f, n)
    BY <2>1 DEF Kept
  <2> QED BY <2>2, <2>3, CompleteNext
<1> QED BY <1>1 DEF FileOK, Kept

(* ... as do the chunks written of it ...                                  *)
LEMMA WrittenKept ==
  ASSUME NEW f, Kept(f)
  PROVE  \A n, k, v : Written(f, n, k, v) =>
           /\ {r \in rows' : r.file = f} = RunUpTo(f, n, k)
           /\ RunUpTo(f, n, v) \subseteq vectors'
<1> SUFFICES ASSUME NEW n, NEW k, NEW v, Written(f, n, k, v)
             PROVE  /\ {r \in rows' : r.file = f} = RunUpTo(f, n, k)
                    /\ RunUpTo(f, n, v) \subseteq vectors'
  OBVIOUS
<1>1. \A r \in RunUpTo(f, n, v) : r.file = f
  BY DEF RunUpTo, Row
<1> QED BY <1>1 DEF Written, Kept, RowsOf

(* ... and what is said of a worker that does not move.                    *)
LEMMA WorkerKept ==
  ASSUME NEW w, WorkerOK(w),
         pc'[w] = pc[w], at'[w] = at[w], run'[w] = run[w], next'[w] = next[w],
         pc[w] # "idle" => task'[at[w]] = task[at[w]],
         pc[w] # "idle" /\ at[w] \in Files => Kept(at[w])
  PROVE  WorkerOK(w)'
<1>1. CASE pc[w] # "idle" /\ at[w] \in Files
  <2>1. parse'[at[w]] = parse[at[w]]
    BY <1>1 DEF Kept
  <2>2. \A n, k, v : Written(at[w], n, k, v) =>
           /\ {r \in rows' : r.file = at[w]} = RunUpTo(at[w], n, k)
           /\ RunUpTo(at[w], n, v) \subseteq vectors'
    BY <1>1, WrittenKept
  <2> QED BY <1>1, <2>1, <2>2 DEF WorkerOK, Written, RowsOf, Tried
<1>2. CASE ~ (pc[w] # "idle" /\ at[w] \in Files)
  BY <1>2 DEF WorkerOK, Tried
<1> QED BY <1>1, <1>2

(* A worker has its job for itself.                                        *)
LEMMA OwnJob ==
  ASSUME LocksOK, NEW w \in Workers, NEW v \in Workers, v # w, pc[w] # "idle", pc[v] # "idle"
  PROVE  at[v] # at[w]
BY DEF LocksOK

(* A step of a worker inside its job: it is enough to look at the worker,  *)
(* and at its file.                                                        *)
LEMMA StepKeepsCore ==
  ASSUME Typed, Core,
         NEW w \in Workers, NEW l, pc[w] # "idle", l # "idle", Goto(w, l),
         UNCHANGED <<request, queue, at>>,
         \A v \in Workers : v # w => run'[v] = run[v] /\ next'[v] = next[v],
         \A j \in Jobs : j # at[w] => task'[j] = task[j],
         \A f \in Files : f # at[w] => Kept(f),
         task'[at[w]] # "absent",
         at[w] \in Files => parse'[at[w]] # "absent" /\ FileOK(at[w])',
         WorkerOK(w)'
  PROVE  Core'
<1> USE DEF Core, Typed
<1>0. pc \in [Workers -> Steps]
  BY DEF TypeOK
<1>1. LocksOK'
  BY <1>0 DEF LocksOK, queue
<1>2. OrderOK'
  <2>1. at[w] \in Jobs
    BY DEF LocksOK
  <2>2. request' = request
    OBVIOUS
  <2>3. ASSUME NEW f \in Files
        PROVE  /\ parse'[f] = "absent" => RowsOf(f)' = {}
               /\ task'[f] # "absent" => request[f] # "none"
    <3>1. CASE f = at[w]
      BY <3>1, <2>1 DEF OrderOK, LocksOK, StandOK
    <3>2. CASE f # at[w]
      BY <3>2 DEF OrderOK, Kept
    <3> QED BY <3>1, <3>2
  <2>4. ASSUME NEW j \in Jobs PROVE request[j] # "none" => task'[j] # "absent"
    BY DEF OrderOK
  <2> QED BY <2>2, <2>3, <2>4 DEF OrderOK
<1>3. ASSUME NEW v \in Workers PROVE WorkerOK(v)'
  <2>1. CASE v # w
    <3>1. pc'[v] = pc[v] /\ at'[v] = at[v] /\ run'[v] = run[v] /\ next'[v] = next[v] /\ WorkerOK(v)
      BY <2>1, <1>0
    <3>2. pc[v] # "idle" => at[v] \in Jobs /\ at[v] # at[w]
      BY <2>1, OwnJob DEF LocksOK
    <3> HIDE DEF Core, Typed, Goto
    <3> QED BY <3>1, <3>2, WorkerKept
  <2> QED BY <2>1
<1>4. ASSUME NEW f \in Files PROVE FileOK(f)'
  <2>1. CASE f # at[w]
    BY <2>1, FileKept
  <2> QED BY <2>1
<1>5. ASSUME NEW j \in Jobs PROVE DoneOK(j)'
  BY DEF DoneOK, LocksOK, queue
<1> QED BY <1>1, <1>2, <1>3, <1>4, <1>5

(* A step that only moves a job, or takes a worker off it.                 *)
LEMMA FreeKeepsCore ==
  ASSUME Typed, Core, NEW w \in Workers, pc[w] # "idle", Free(w),
         UNCHANGED <<tables, request>>,
         holder' = [holder EXCEPT ![at[w]] = NoWorker],
         \A j \in Jobs : j # at[w] => job'[j] = job[j],
         job'[at[w]] = "done" => task[at[w]] = "succeeded"
  PROVE  Core'
<1> USE DEF Core, Typed
<1>0. /\ pc \in [Workers -> Steps] /\ at \in [Workers -> Jobs \cup {NoJob}]
      /\ run \in [Workers -> Nat] /\ next \in [Workers -> 0..Chunks]
      /\ holder \in [Jobs -> Workers \cup {NoWorker}]
  BY DEF TypeOK
<1>1. LocksOK'
  <2>1. ASSUME NEW v \in Workers
        PROVE  /\ pc'[v] = "idle" => at'[v] = NoJob
               /\ pc'[v] # "idle" => at'[v] \in Jobs /\ holder'[at'[v]] = v /\ job'[at'[v]] = "active"
    BY <1>0, OwnJob DEF Free, LocksOK
  <2>2. ASSUME NEW j \in Jobs, holder'[j] # NoWorker
        PROVE  pc'[holder'[j]] # "idle" /\ at'[holder'[j]] = j
    BY <1>0, <2>2 DEF Free, LocksOK
  <2> QED BY <2>1, <2>2 DEF LocksOK
<1>2. OrderOK'
  BY DEF OrderOK, RowsOf, tables
<1>k. ASSUME NEW f PROVE Kept(f)
  BY DEF Kept, RowsOf, tables
<1>3. ASSUME NEW v \in Workers PROVE WorkerOK(v)'
  <2>1. CASE v # w
    <3>1. /\ pc'[v] = pc[v] /\ at'[v] = at[v] /\ run'[v] = run[v] /\ next'[v] = next[v]
          /\ WorkerOK(v) /\ task' = task
      BY <2>1, <1>0 DEF Free, tables
    <3> HIDE DEF Core, Typed, Goto
    <3> QED BY <3>1, <1>k, WorkerKept
  <2>2. CASE v = w
    <3>1. pc'[v] = "idle"
      BY <2>2, <1>0 DEF Free
    <3> QED BY <3>1 DEF WorkerOK, Tried
  <2> QED BY <2>1, <2>2
<1>4. ASSUME NEW f \in Files PROVE FileOK(f)'
  BY <1>k, FileKept
<1>5. ASSUME NEW j \in Jobs PROVE DoneOK(j)'
  BY DEF DoneOK, tables
<1> QED BY <1>1, <1>2, <1>3, <1>4, <1>5

-----------------------------------------------------------------------------
(* The steps of a worker, one by one.  A worker that is not idle has its   *)
(* job, which has its task, and its file.                                  *)
LEMMA Standing ==
  ASSUME Typed, Core, NEW w \in Workers, pc[w] # "idle"
  PROVE  /\ at[w] \in Jobs
         /\ at[w] \in Files => at[w] \notin Rebuilds
         /\ job[at[w]] = "active" /\ holder[at[w]] = w
         /\ task[at[w]] # "absent"
         /\ at[w] \in Files => parse[at[w]] # "absent"
         /\ WorkerOK(w)
BY IngestAssumption DEF Typed, StandOK, Core, LocksOK, OrderOK, Jobs

(* What only moves the worker keeps every file.                            *)
LEMMA TablesKept ==
  ASSUME rows' = rows, vectors' = vectors, NEW f, task'[f] = task[f], parse'[f] = parse[f]
  PROVE  Kept(f)
BY DEF Kept, RowsOf

LEMMA CoreMarkRunning ==
  ASSUME Typed, Core, NEW w \in Workers, MarkRunning(w)
  PROVE  Core'
<1>1. PICK l \in {"load", "read"} :
        /\ Goto(w, l)
        /\ l = "load" => at[w] \in Files
        /\ l = "read" => at[w] \notin Files
  BY DEF MarkRunning
<1>2. pc[w] = "start" /\ pc \in [Workers -> Steps] /\ task \in [Jobs -> {"absent", "pending", "running", "succeeded", "failed"}]
  BY DEF MarkRunning, Typed, TypeOK
<1>3. task' = [task EXCEPT ![at[w]] = "running"] /\ parse' = parse /\ at' = at
  BY DEF MarkRunning
<1>4. task'[at[w]] = "running" /\ pc'[w] = l
  BY <1>1, <1>2, <1>3, Standing
<1>5. \A f \in Files : f # at[w] => Kept(f)
  BY <1>3, <1>2, TablesKept DEF MarkRunning, Jobs
<1>6. WorkerOK(w)'
  BY <1>1, <1>2, <1>3, <1>4, Standing DEF WorkerOK, Tried, Jobs
<1>7. FileOK(at[w])'
  BY <1>3, <1>4 DEF FileOK
<1>8. /\ UNCHANGED <<request, queue, at, run, next>>
      /\ \A j \in Jobs : j # at[w] => task'[j] = task[j]
      /\ at[w] \in Files => parse'[at[w]] # "absent"
  BY <1>2, <1>3, Standing DEF MarkRunning
<1> QED BY <1>1, <1>2, <1>4, <1>5, <1>6, <1>7, <1>8, StepKeepsCore

LEMMA CoreLoad ==
  ASSUME Typed, Core, NEW w \in Workers, Load(w)
  PROVE  Core'
<1>1. pc[w] = "load" /\ pc \in [Workers -> Steps] /\ Goto(w, "delete") /\ UNCHANGED <<tables, request, queue, at, run, next>>
  BY DEF Load, Typed, TypeOK
<1>2. WorkerOK(w)'
  BY <1>1, Standing DEF WorkerOK, Tried, tables
<1>3. \A f : Kept(f)
  BY <1>1, TablesKept DEF tables
<1>4. at[w] \in Files => FileOK(at[w])'
  BY <1>1, Standing DEF FileOK, WorkerOK, Tried, tables
<1> QED BY <1>1, <1>2, <1>3, <1>4, Standing, StepKeepsCore DEF tables

LEMMA CoreDeleteChunks ==
  ASSUME Typed, Core, NEW w \in Workers, DeleteChunks(w)
  PROVE  Core'
<1>1. /\ pc[w] = "delete" /\ pc \in [Workers -> Steps] /\ Goto(w, "create")
      /\ UNCHANGED <<parse, task, request, queue, at>>
      /\ run \in [Workers -> Nat] /\ next \in [Workers -> 0..Chunks]
  BY DEF DeleteChunks, Typed, TypeOK
<1>2. /\ at[w] \in Files /\ task[at[w]] = "running"
  BY <1>1, Standing DEF WorkerOK, Tried
<1>3. WorkerOK(w)'
  <2>1. next'[w] = 1
    BY <1>1 DEF DeleteChunks
  <2>2. {r \in rows' : r.file = at[w]} = {}
    BY DEF DeleteChunks, RowsOf
  <2>3. \A n : RunUpTo(at[w], n, 0) = {}
    BY DEF RunUpTo
  <2>4. next'[w] \in 1..Chunks /\ next'[w] - 1 = 0
    BY <2>1, IngestAssumption
  <2>5. pc'[w] = "create"
    BY <1>1
  <2>6. Written(at[w], run[w], next[w] - 1, next[w] - 1)'
    BY <1>1, <2>2, <2>3, <2>4 DEF Written, RowsOf
  <2> QED BY <1>1, <1>2, <2>4, <2>5, <2>6 DEF WorkerOK, Tried
<1>4. \A f \in Files : f # at[w] => Kept(f)
  BY <1>1 DEF DeleteChunks, Kept, RowsOf
<1>5. at[w] \in Files => FileOK(at[w])'
  BY <1>1, <1>2 DEF FileOK
<1>6. \A v \in Workers : v # w => run'[v] = run[v] /\ next'[v] = next[v]
  BY <1>1 DEF DeleteChunks
<1> QED BY <1>1, <1>2, <1>3, <1>4, <1>5, <1>6, Standing, StepKeepsCore

(* A run and one more chunk.                                               *)
LEMMA RunGrows ==
  ASSUME NEW f, NEW n, NEW k \in Nat \ {0}
  PROVE  RunUpTo(f, n, k) = RunUpTo(f, n, k - 1) \cup {Row(f, n, k)}
<1>1. 1..k = (1..(k - 1)) \cup {k}
  OBVIOUS
<1> QED BY <1>1 DEF RunUpTo

LEMMA CoreCreateChunk ==
  ASSUME Typed, Core, NEW w \in Workers, CreateChunk(w)
  PROVE  Core'
<1>1. /\ pc[w] = "create" /\ pc \in [Workers -> Steps] /\ Goto(w, "vector")
      /\ UNCHANGED <<parse, task, vectors, request, queue, at, run, next>>
      /\ rows' = rows \cup {Row(at[w], run[w], next[w])}
  BY DEF CreateChunk, Typed, TypeOK
<1>2. /\ at[w] \in Files /\ task[at[w]] = "running" /\ next[w] \in 1..Chunks
      /\ Written(at[w], run[w], next[w] - 1, next[w] - 1)
  BY <1>1, Standing DEF WorkerOK, Tried
<1>3. WorkerOK(w)'
  <2>1. next[w] \in Nat \ {0}
    BY <1>2, IngestAssumption
  <2>2. {r \in rows' : r.file = at[w]} = RowsOf(at[w]) \cup {Row(at[w], run[w], next[w])}
    BY <1>1 DEF RowsOf, Row
  <2>3. {r \in rows' : r.file = at[w]} = RunUpTo(at[w], run[w], next[w])
    BY <1>2, <2>1, <2>2, RunGrows DEF Written
  <2>4. Written(at[w], run[w], next[w], next[w] - 1)'
    BY <1>1, <1>2, <2>3 DEF Written, RowsOf
  <2>5. pc'[w] = "vector"
    BY <1>1
  <2> QED BY <1>1, <1>2, <2>4, <2>5 DEF WorkerOK, Tried
<1>4. \A f \in Files : f # at[w] => Kept(f)
  BY <1>1 DEF Kept, RowsOf, Row
<1>5. at[w] \in Files => FileOK(at[w])'
  BY <1>1, <1>2 DEF FileOK
<1> QED BY <1>1, <1>2, <1>3, <1>4, <1>5, Standing, StepKeepsCore

LEMMA CoreSetVector ==
  ASSUME Typed, Core, NEW w \in Workers, SetVector(w)
  PROVE  Core'
<1>1. /\ pc[w] = "vector" /\ pc \in [Workers -> Steps] /\ next \in [Workers -> 0..Chunks]
      /\ UNCHANGED <<parse, task, rows, request, queue, at, run>>
      /\ vectors' = vectors \cup Present(Row(at[w], run[w], next[w]))
  BY DEF SetVector, Typed, TypeOK
<1>2. /\ at[w] \in Files /\ task[at[w]] = "running" /\ next[w] \in 1..Chunks
      /\ Written(at[w], run[w], next[w], next[w] - 1)
  BY <1>1, Standing DEF WorkerOK, Tried
<1>3. next[w] \in Nat \ {0} /\ next[w] <= Chunks /\ Chunks \in Nat
  BY <1>2, IngestAssumption
<1>5. /\ {r \in rows' : r.file = at[w]} = RunUpTo(at[w], run[w], next[w])
      /\ RunUpTo(at[w], run[w], next[w]) \subseteq vectors'
  <2>1. Row(at[w], run[w], next[w]) \in RunUpTo(at[w], run[w], next[w])
    BY <1>3, RunGrows
  <2>2. Row(at[w], run[w], next[w]) \in rows
    BY <1>2, <2>1 DEF Written, RowsOf
  <2>3. RunUpTo(at[w], run[w], next[w]) = RunUpTo(at[w], run[w], next[w] - 1) \cup {Row(at[w], run[w], next[w])}
    BY <1>3, RunGrows
  <2> QED BY <1>1, <1>2, <2>2, <2>3 DEF Written, RowsOf, Present
<1>6. PICK l \in {"create", "markFile"} :
        /\ Goto(w, l)
        /\ l = "create" => next' = [next EXCEPT ![w] = @ + 1] /\ next[w] < Chunks
        /\ l = "markFile" => next' = next /\ ~ (next[w] < Chunks)
  BY DEF SetVector
<1>7. WorkerOK(w)'
  <2>1. pc'[w] = l
    BY <1>1, <1>6
  <2>2. CASE l = "create"
    <3>1. next'[w] \in 1..Chunks /\ next'[w] - 1 = next[w]
      BY <1>1, <1>3, <1>6, <2>2
    <3>2. Written(at[w], run[w], next[w] - 1, next[w] - 1)'
      BY <1>1, <1>5, <3>1 DEF Written, RowsOf
    <3> QED BY <1>1, <1>2, <2>1, <2>2, <3>1, <3>2 DEF WorkerOK, Tried
  <2>3. CASE l = "markFile"
    <3>1. next[w] = Chunks
      BY <1>3, <1>6, <2>3
    <3>2. Written(at[w], run[w], Chunks, Chunks)'
      BY <1>1, <1>5, <3>1 DEF Written, RowsOf
    <3> QED BY <1>1, <1>2, <2>1, <2>3, <3>2 DEF WorkerOK, Tried
  <2> QED BY <2>2, <2>3
<1>8. \A f \in Files : Kept(f)
  BY <1>1 DEF Kept, RowsOf
<1>9. at[w] \in Files => FileOK(at[w])'
  BY <1>1, <1>2 DEF FileOK
<1>10. \A v \in Workers : v # w => run'[v] = run[v] /\ next'[v] = next[v]
  BY <1>1, <1>6
<1> QED BY <1>1, <1>2, <1>6, <1>7, <1>8, <1>9, <1>10, Standing, StepKeepsCore

LEMMA CoreMarkFileSucceeded ==
  ASSUME Typed, Core, NEW w \in Workers, MarkFileSucceeded(w)
  PROVE  Core'
<1>1. /\ pc[w] = "markFile" /\ pc \in [Workers -> Steps] /\ Goto(w, "markTask")
      /\ UNCHANGED <<task, rows, vectors, request, queue, at, run, next>>
      /\ parse \in [Files -> {"absent", "pending", "succeeded", "failed"}]
      /\ parse' = [parse EXCEPT ![at[w]] = "succeeded"]
  BY DEF MarkFileSucceeded, Typed, TypeOK
<1>2. /\ at[w] \in Files /\ task[at[w]] = "running" /\ Written(at[w], run[w], Chunks, Chunks)
  BY <1>1, Standing DEF WorkerOK, Tried
<1>3. Written(at[w], run[w], Chunks, Chunks)'
  BY <1>1, <1>2 DEF Written, RowsOf
<1>4. WorkerOK(w)'
  BY <1>1, <1>2, <1>3 DEF WorkerOK, Tried
<1>5. \A f \in Files : f # at[w] => Kept(f)
  BY <1>1 DEF Kept, RowsOf
<1>6. FileOK(at[w])' /\ parse'[at[w]] # "absent"
  BY <1>1, <1>2 DEF FileOK
<1> QED BY <1>1, <1>2, <1>4, <1>5, <1>6, Standing, StepKeepsCore

LEMMA CoreMarkTaskSucceeded ==
  ASSUME Typed, Core, NEW w \in Workers, MarkTaskSucceeded(w)
  PROVE  Core'
<1>1. /\ pc[w] = "markTask" /\ pc \in [Workers -> Steps] /\ Goto(w, "return")
      /\ UNCHANGED <<parse, rows, vectors, request, queue, at, run, next>>
      /\ task \in [Jobs -> {"absent", "pending", "running", "succeeded", "failed"}]
      /\ task' = [task EXCEPT ![at[w]] = "succeeded"]
  BY DEF MarkTaskSucceeded, Typed, TypeOK
<1>2. at[w] \in Jobs /\ task'[at[w]] = "succeeded"
  BY <1>1, Standing
<1>3. WorkerOK(w)'
  BY <1>1, <1>2 DEF WorkerOK, Tried
<1>4. \A f \in Files : f # at[w] => Kept(f)
  BY <1>1 DEF Kept, RowsOf, Jobs
<1>5. ASSUME at[w] \in Files PROVE FileOK(at[w])'
  <2>1. parse[at[w]] = "succeeded" /\ Written(at[w], run[w], Chunks, Chunks)
    BY <1>1, <1>5, Standing DEF WorkerOK
  <2>2. RunUpTo(at[w], run[w], Chunks) = FullRun(at[w], run[w])
    BY DEF RunUpTo, FullRun
  <2>3. RowsOf(at[w]) = FullRun(at[w], run[w]) /\ FullRun(at[w], run[w]) \subseteq vectors
    BY <2>1, <2>2 DEF Written
  <2>4. \E n \in {r.run : r \in rows} : RowsOf(at[w]) = FullRun(at[w], n) /\ FullRun(at[w], n) \subseteq vectors
    <3>1. Row(at[w], run[w], 1) \in rows
      BY <2>3, RunHasFirst DEF RowsOf
    <3>2. run[w] \in {r.run : r \in rows}
      BY <3>1 DEF Row
    <3> QED BY <2>3, <3>2
  <2>5. Complete(at[w])'
    BY <1>1, <2>4 DEF Complete, RowsOf, FullRun
  <2> QED BY <1>1, <1>2, <2>1, <2>5 DEF FileOK
<1> QED BY <1>1, <1>2, <1>3, <1>4, <1>5, Standing, StepKeepsCore

LEMMA CoreReadChunks ==
  ASSUME Typed, Core, NEW w \in Workers, ReadChunks(w)
  PROVE  Core'
<1>1. /\ pc[w] = "read" /\ pc \in [Workers -> Steps]
      /\ UNCHANGED <<tables, request, queue, at, run, next>>
  BY DEF ReadChunks, Typed, TypeOK
<1>2. PICK l \in {"markTask", "update"} : Goto(w, l)
  BY DEF ReadChunks
<1>3. at[w] \in Rebuilds /\ at[w] \notin Files /\ task[at[w]] = "running"
  BY <1>1, Standing, IngestAssumption DEF WorkerOK, Tried
<1>4. WorkerOK(w)'
  BY <1>1, <1>2, <1>3 DEF WorkerOK, Tried, tables
<1>5. \A f \in Files : Kept(f)
  BY <1>1 DEF Kept, RowsOf, tables
<1> QED BY <1>1, <1>2, <1>3, <1>4, <1>5, Standing, StepKeepsCore DEF tables

LEMMA CoreUpdateChunk ==
  ASSUME Typed, Core, NEW w \in Workers, UpdateChunk(w)
  PROVE  Core'
<1>1. /\ pc[w] = "update" /\ pc \in [Workers -> Steps]
      /\ UNCHANGED <<parse, task, rows, request, queue, at, run, next>>
      /\ vectors \subseteq vectors'
  BY DEF UpdateChunk, Typed, TypeOK
<1>2. PICK l \in {"markTask", "update", "catchTask"} : Goto(w, l)
  BY DEF UpdateChunk
<1>3. at[w] \in Rebuilds /\ at[w] \notin Files /\ task[at[w]] = "running"
  BY <1>1, Standing, IngestAssumption DEF WorkerOK, Tried
<1>4. WorkerOK(w)'
  BY <1>1, <1>2, <1>3 DEF WorkerOK, Tried
<1>5. \A f \in Files : Kept(f)
  BY <1>1 DEF Kept, RowsOf
<1> QED BY <1>1, <1>2, <1>3, <1>4, <1>5, Standing, StepKeepsCore

LEMMA CoreFail ==
  ASSUME Typed, Core, NEW w \in Workers, Fail(w)
  PROVE  Core'
<1>1. /\ pc[w] \in Tried /\ pc \in [Workers -> Steps]
      /\ UNCHANGED <<tables, request, queue, at, run, next>>
  BY DEF Fail, Typed, TypeOK
<1>2. PICK l \in {"catchFile", "catchTask"} :
        Goto(w, l) /\ (l = "catchFile" <=> at[w] \in Files)
  BY DEF Fail
<1>3. task[at[w]] = "running" /\ pc[w] # "idle"
  BY <1>1, Standing DEF WorkerOK, Tried
<1>4. WorkerOK(w)'
  BY <1>1, <1>2, <1>3 DEF WorkerOK, Tried, tables
<1>5. \A f \in Files : Kept(f)
  BY <1>1 DEF Kept, RowsOf, tables
<1>6. at[w] \in Files => FileOK(at[w])'
  BY <1>1, <1>3 DEF FileOK, tables
<1> QED BY <1>1, <1>2, <1>3, <1>4, <1>5, <1>6, Standing, StepKeepsCore DEF tables

LEMMA CoreMarkFileFailed ==
  ASSUME Typed, Core, NEW w \in Workers, MarkFileFailed(w)
  PROVE  Core'
<1>1. /\ pc[w] = "catchFile" /\ pc \in [Workers -> Steps] /\ Goto(w, "catchTask")
      /\ UNCHANGED <<task, rows, vectors, request, queue, at, run, next>>
      /\ parse \in [Files -> {"absent", "pending", "succeeded", "failed"}]
      /\ parse' = [parse EXCEPT ![at[w]] = "failed"]
  BY DEF MarkFileFailed, Typed, TypeOK
<1>2. at[w] \in Files /\ task[at[w]] = "running"
  BY <1>1, Standing DEF WorkerOK
<1>3. WorkerOK(w)'
  BY <1>1, <1>2 DEF WorkerOK, Tried
<1>4. \A f \in Files : f # at[w] => Kept(f)
  BY <1>1 DEF Kept, RowsOf
<1>5. FileOK(at[w])' /\ parse'[at[w]] # "absent"
  BY <1>1, <1>2 DEF FileOK
<1> QED BY <1>1, <1>2, <1>3, <1>4, <1>5, Standing, StepKeepsCore

LEMMA CoreMarkTaskFailed ==
  ASSUME Typed, Core, NEW w \in Workers, MarkTaskFailed(w)
  PROVE  Core'
<1>1. /\ pc[w] = "catchTask" /\ pc \in [Workers -> Steps] /\ Goto(w, "throw")
      /\ UNCHANGED <<parse, rows, vectors, request, queue, at, run, next>>
      /\ task \in [Jobs -> {"absent", "pending", "running", "succeeded", "failed"}]
      /\ task' = [task EXCEPT ![at[w]] = "failed"]
  BY DEF MarkTaskFailed, Typed, TypeOK
<1>2. at[w] \in Jobs /\ task'[at[w]] = "failed" /\ (at[w] \in Files => parse[at[w]] = "failed")
  BY <1>1, Standing DEF WorkerOK
<1>3. WorkerOK(w)'
  BY <1>1 DEF WorkerOK, Tried
<1>4. \A f \in Files : f # at[w] => Kept(f)
  BY <1>1 DEF Kept, RowsOf, Jobs
<1>5. at[w] \in Files => FileOK(at[w])'
  BY <1>1, <1>2 DEF FileOK
<1> QED BY <1>1, <1>2, <1>3, <1>4, <1>5, Standing, StepKeepsCore

LEMMA CoreFailUncaught ==
  ASSUME Typed, Core, NEW w \in Workers, FailUncaught(w)
  PROVE  Core'
<1>1. /\ pc[w] \in {"start", "catchFile", "catchTask"} /\ pc \in [Workers -> Steps]
      /\ Goto(w, "throw") /\ UNCHANGED <<tables, request, queue, at, run, next>>
  BY DEF FailUncaught, Typed, TypeOK
<1>2. WorkerOK(w)'
  BY <1>1 DEF WorkerOK, Tried
<1>3. \A f : Kept(f)
  BY <1>1 DEF Kept, RowsOf, tables
<1>4. at[w] \in Files => FileOK(at[w])'
  <2>1. ASSUME at[w] \in Files PROVE FileOK(at[w])
    BY <2>1 DEF Core
  <2> QED BY <1>1, <1>3, <2>1, FileKept
<1> QED BY <1>1, <1>2, <1>3, <1>4, Standing, StepKeepsCore DEF tables

(* A worker whose job ends, or who dies at it, held its lock.              *)
LEMMA CoreEnd ==
  ASSUME Typed, Core, NEW w \in Workers, Return(w) \/ Throw(w) \/ Die(w)
  PROVE  Core'
<1>1. pc[w] # "idle" /\ Free(w) /\ UNCHANGED <<tables, request>>
  BY DEF Return, Throw, Die
<1>2. /\ at[w] \in Jobs /\ holder[at[w]] = w
      /\ holder \in [Jobs -> Workers \cup {NoWorker}]
      /\ job \in [Jobs -> {"none", "waiting", "active", "done", "dead"}]
  BY <1>1, Standing DEF Typed, TypeOK
<1>3. LetGo(w) => holder' = [holder EXCEPT ![at[w]] = NoWorker]
  <2>1. \A j \in Jobs : holder[j] = w <=> j = at[w]
    BY <1>2, IngestAssumption DEF Core, LocksOK
  <2> QED BY <1>2, <2>1 DEF LetGo
<1>4. holder' = [holder EXCEPT ![at[w]] = NoWorker]
  BY <1>2, <1>3 DEF Return, Throw, Die, Holds
<1>5. \A j \in Jobs : j # at[w] => job'[j] = job[j]
  BY <1>2 DEF Return, Throw, Die, Holds
<1>6. job'[at[w]] = "done" => task[at[w]] = "succeeded"
  <2>1. CASE Return(w)
    BY <2>1, <1>1, Standing DEF Return, WorkerOK
  <2>2. CASE Throw(w) \/ Die(w)
    BY <2>2, <1>1, <1>2, Standing DEF Throw, Die, Holds
  <2> QED BY <2>1, <2>2
<1> QED BY <1>1, <1>4, <1>5, <1>6, FreeKeepsCore

-----------------------------------------------------------------------------
(* The steps of requests and of the queue move no worker's file.           *)
LEMMA OthersKeepCore ==
  ASSUME Core, LocksOK', OrderOK', UNCHANGED <<pc, at, run, next>>,
         \A w \in Workers : pc[w] # "idle" => task'[at[w]] = task[at[w]],
         \A w \in Workers : pc[w] # "idle" /\ at[w] \in Files => Kept(at[w]),
         \A f \in Files : FileOK(f)',
         \A j \in Jobs : DoneOK(j)'
  PROVE  Core'
<1>1. ASSUME NEW w \in Workers PROVE WorkerOK(w)'
  <2>1. WorkerOK(w) /\ pc'[w] = pc[w] /\ at'[w] = at[w] /\ run'[w] = run[w] /\ next'[w] = next[w]
    BY DEF Core
  <2> QED BY <2>1, WorkerKept
<1> QED BY <1>1 DEF Core

(* No worker is at a job that was not made.                                *)
LEMMA NobodyAt ==
  ASSUME Typed, Core, NEW j \in Jobs, request[j] # "done"
  PROVE  /\ \A w \in Workers : pc[w] # "idle" => at[w] # j
         /\ job[j] = "none"
BY DEF Typed, StandOK, Core, LocksOK

LEMMA CoreAddInline ==
  ASSUME Typed, Core, NEW f \in Files, AddInline(f)
  PROVE  Core'
<1>1. /\ parse[f] = "absent" /\ UNCHANGED <<task, request, queue, pc, at, run, next>>
      /\ parse \in [Files -> {"absent", "pending", "succeeded", "failed"}]
      /\ parse' = [parse EXCEPT ![f] = "succeeded"]
      /\ rows' = rows \cup FullRun(f, 0) /\ vectors' = vectors \cup FullRun(f, 0)
  BY DEF AddInline, Typed, TypeOK, local
<1>2. request[f] = "none" /\ task[f] = "absent" /\ RowsOf(f) = {} /\ f \in Jobs
  BY <1>1 DEF Typed, StandOK, Core, OrderOK, Jobs
<1>3. \A w \in Workers : pc[w] # "idle" => at[w] # f
  BY <1>2, NobodyAt
<1>4. \A r \in FullRun(f, 0) : r.file = f
  BY DEF FullRun, Row
<1>5. \A g \in Files : g # f => Kept(g)
  BY <1>1, <1>4 DEF Kept, RowsOf
<1>6. RowsOf(f)' = FullRun(f, 0)
  BY <1>1, <1>2, <1>4 DEF RowsOf
<1>7. Complete(f)'
  <2>1. FullRun(f, 0) \subseteq vectors'
    BY <1>1
  <2> QED BY <1>6, <2>1, CompleteNext
<1>8. \A g \in Files : FileOK(g)'
  <2>1. FileOK(f)'
    BY <1>1, <1>2, <1>7 DEF FileOK
  <2>2. ASSUME NEW g \in Files, g # f PROVE FileOK(g)'
    BY <2>2, <1>5, FileKept DEF Core
  <2> QED BY <2>1, <2>2
<1>9. LocksOK'
  BY <1>1 DEF Core, LocksOK, queue
<1>10. OrderOK'
  <2>1. \A g \in Files : parse'[g] = "absent" => RowsOf(g)' = {}
    BY <1>1, <1>5 DEF Core, OrderOK, Kept
  <2> QED BY <1>1, <2>1 DEF Core, OrderOK
<1>11. \A j \in Jobs : DoneOK(j)'
  BY <1>1 DEF Core, DoneOK, queue
<1> QED BY <1>1, <1>3, <1>5, <1>8, <1>9, <1>10, <1>11, OthersKeepCore

(* A task made for a job nobody heard of before.                           *)
LEMMA CoreRequest ==
  ASSUME Typed, Core,
         \/ \E f \in Files : AddQueued(f)
         \/ \E r \in Rebuilds : RequestRebuild(r)
  PROVE  Core'
<1>1. PICK j \in Jobs :
        /\ request[j] = "none"
        /\ request' = [request EXCEPT ![j] = "enqueue"]
        /\ task' = [task EXCEPT ![j] = "pending"]
        /\ UNCHANGED <<rows, vectors, queue, pc, at, run, next>>
        /\ \/ j \in Files /\ parse' = [parse EXCEPT ![j] = "pending"]
           \/ j \notin Files /\ parse' = parse
  BY IngestAssumption DEF AddQueued, RequestRebuild, Typed, StandOK, Jobs, local
<1>2. /\ parse \in [Files -> {"absent", "pending", "succeeded", "failed"}]
      /\ request \in [Jobs -> {"none", "enqueue", "done", "failed"}]
      /\ task \in [Jobs -> {"absent", "pending", "running", "succeeded", "failed"}]
      /\ \A f \in Files : f \in Jobs
  BY DEF Typed, TypeOK, Jobs
<1>3. (\A w \in Workers : pc[w] # "idle" => at[w] # j) /\ job[j] = "none"
  BY <1>1, NobodyAt
<1>4. \A f \in Files : f # j => Kept(f)
  BY <1>1, <1>2 DEF Kept, RowsOf
<1>5. \A f \in Files : FileOK(f)'
  <2>1. ASSUME j \in Files PROVE FileOK(j)'
    BY <1>1, <1>2, <2>1 DEF FileOK
  <2>2. ASSUME NEW f \in Files, f # j PROVE FileOK(f)'
    BY <2>2, <1>4, FileKept DEF Core
  <2> QED BY <2>1, <2>2
<1>6. LocksOK'
  BY <1>1 DEF Core, LocksOK, queue
<1>7. OrderOK'
  <2>1. \A f \in Files : parse'[f] = "absent" => RowsOf(f)' = {}
    BY <1>1, <1>2 DEF Core, OrderOK, RowsOf
  <2> QED BY <1>1, <1>2, <2>1 DEF Core, OrderOK
<1>8. \A k \in Jobs : DoneOK(k)'
  BY <1>1, <1>2, <1>3 DEF Core, DoneOK, queue
<1>9. \A w \in Workers : pc[w] # "idle" => task'[at[w]] = task[at[w]]
  BY <1>1, <1>2, <1>3 DEF Core, LocksOK
<1> QED BY <1>1, <1>3, <1>4, <1>5, <1>6, <1>7, <1>8, <1>9, OthersKeepCore

LEMMA CoreQueue ==
  ASSUME Typed, Core, NEW j \in Jobs, Enqueue(j) \/ EnqueueFails(j) \/ Recover(j)
  PROVE  Core'
<1>1. /\ UNCHANGED <<tables, holder, pc, at, run, next>>
      /\ request \in [Jobs -> {"none", "enqueue", "done", "failed"}]
      /\ job \in [Jobs -> {"none", "waiting", "active", "done", "dead"}]
  BY DEF Enqueue, EnqueueFails, Recover, queue, local, Typed, TypeOK
<1>2. holder[j] = NoWorker \/ job' = job
  BY DEF Enqueue, EnqueueFails, Recover, Typed, StandOK, queue
<1>3. \A k \in Jobs : job'[k] = job[k] \/ (k = j /\ job'[k] # "done")
  BY <1>1 DEF Enqueue, EnqueueFails, Recover, queue
<1>4. \A k \in Jobs : request'[k] = "none" <=> request[k] = "none"
  BY <1>1 DEF Enqueue, EnqueueFails, Recover
<1>5. LocksOK'
  BY <1>1, <1>2, <1>3, IngestAssumption DEF Core, LocksOK
<1>6. OrderOK'
  BY <1>1, <1>4 DEF Core, OrderOK, RowsOf, tables, Jobs
<1>7. \A f : Kept(f)
  BY <1>1 DEF Kept, RowsOf, tables
<1>8. \A f \in Files : FileOK(f)'
  BY <1>7, FileKept DEF Core
<1>9. \A k \in Jobs : DoneOK(k)'
  BY <1>1, <1>3 DEF Core, DoneOK, tables
<1> QED BY <1>1, <1>5, <1>6, <1>7, <1>8, <1>9, OthersKeepCore DEF tables

LEMMA CoreTake ==
  ASSUME Typed, Core, NEW w \in Workers, NEW j \in Jobs, Take(w, j)
  PROVE  Core'
<1>1. /\ pc[w] = "idle" /\ pc' = [pc EXCEPT ![w] = "start"]
      /\ job[j] = "waiting" /\ job' = [job EXCEPT ![j] = "active"]
      /\ holder' = [holder EXCEPT ![j] = w] /\ at' = [at EXCEPT ![w] = j]
      /\ UNCHANGED <<tables, request, run, next>>
  BY DEF Take
<1>2. /\ pc \in [Workers -> Steps] /\ at \in [Workers -> Jobs \cup {NoJob}]
      /\ job \in [Jobs -> {"none", "waiting", "active", "done", "dead"}]
      /\ holder \in [Jobs -> Workers \cup {NoWorker}]
  BY DEF Typed, TypeOK
<1>3. LocksOK'
  <2>1. ASSUME NEW v \in Workers
        PROVE  /\ pc'[v] = "idle" => at'[v] = NoJob
               /\ pc'[v] # "idle" => at'[v] \in Jobs /\ holder'[at'[v]] = v /\ job'[at'[v]] = "active"
    BY <1>1, <1>2 DEF Core, LocksOK
  <2>2. ASSUME NEW k \in Jobs, holder'[k] # NoWorker
        PROVE  pc'[holder'[k]] # "idle" /\ at'[holder'[k]] = k
    BY <1>1, <1>2, <2>2 DEF Core, LocksOK
  <2> QED BY <2>1, <2>2 DEF LocksOK
<1>4. OrderOK'
  BY <1>1 DEF Core, OrderOK, RowsOf, tables
<1>5. \A f : Kept(f)
  BY <1>1 DEF Kept, RowsOf, tables
<1>6. ASSUME NEW v \in Workers PROVE WorkerOK(v)'
  <2>1. CASE v = w
    <3>1. pc'[v] = "start"
      BY <2>1, <1>1, <1>2
    <3> QED BY <3>1 DEF WorkerOK, Tried
  <2>2. CASE v # w
    <3>1. /\ pc'[v] = pc[v] /\ at'[v] = at[v] /\ run'[v] = run[v] /\ next'[v] = next[v]
          /\ WorkerOK(v) /\ task' = task
      BY <2>2, <1>1, <1>2 DEF Core, tables
    <3> QED BY <3>1, <1>5, WorkerKept
  <2> QED BY <2>1, <2>2
<1>7. \A f \in Files : FileOK(f)'
  BY <1>5, FileKept DEF Core
<1>8. \A k \in Jobs : DoneOK(k)'
  BY <1>1, <1>2 DEF Core, DoneOK, tables
<1> QED BY <1>3, <1>4, <1>6, <1>7, <1>8 DEF Core

-----------------------------------------------------------------------------
LEMMA InitInv == Init => Inv
<1> SUFFICES ASSUME Init PROVE Inv
  OBVIOUS
<1>1. LocksOK /\ OrderOK
  BY DEF Init, LocksOK, OrderOK, RowsOf, Jobs
<1>2. (\A w \in Workers : WorkerOK(w)) /\ (\A f \in Files : FileOK(f)) /\ (\A j \in Jobs : DoneOK(j))
  BY DEF Init, WorkerOK, FileOK, DoneOK, Tried, Jobs
<1> QED BY <1>1, <1>2, InitTyped DEF Inv, Core

LEMMA NextInv == Inv /\ [Next]_vars => Inv'
<1> SUFFICES ASSUME Inv, [Next]_vars PROVE Inv'
  OBVIOUS
<1>1. Typed /\ Typed'
  BY NextTyped DEF Inv
<1>2. ASSUME lost' = 0 PROVE Core'
  <2>1. CASE UNCHANGED vars
    <3>1. lost = 0 /\ Core
      BY <1>2, <2>1 DEF Inv, vars, faults
    <3>2. UNCHANGED <<parse, task, rows, vectors, request, job, left, stalled, holder, pc, at, run, next>>
      BY <2>1 DEF vars, tables, queue, local
    <3>3. \A f : Kept(f)
      BY <3>2 DEF Kept, RowsOf
    <3>4. LocksOK' /\ OrderOK' /\ \A j \in Jobs : DoneOK(j)'
      BY <3>1, <3>2 DEF Core, LocksOK, OrderOK, DoneOK, RowsOf
    <3>5. \A f \in Files : FileOK(f)'
      BY <3>1, <3>3, FileKept DEF Core
    <3> QED BY <3>1, <3>2, <3>3, <3>4, <3>5, OthersKeepCore
  <2>2. ASSUME NEW w \in Workers, LoseLock(w) PROVE FALSE
    BY <1>1, <1>2, <2>2 DEF LoseLock, Typed, TypeOK
  <2>3. CASE Next /\ ~ \E w \in Workers : LoseLock(w)
    <3>1. lost' = lost
      <4>1. ASSUME NEW w \in Workers, Work(w) PROVE lost' = lost
        BY <4>1 DEF Work, Parse, Rebuild, MarkRunning, Load, DeleteChunks, CreateChunk, SetVector,
                    MarkFileSucceeded, MarkFileFailed, ReadChunks, UpdateChunk, MarkTaskSucceeded,
                    MarkTaskFailed, Return, Throw, faults
      <4>2. ASSUME NEW w \in Workers, Fail(w) \/ FailUncaught(w) \/ Die(w) \/ \E j \in Jobs : Take(w, j)
            PROVE  lost' = lost
        BY <4>2 DEF Fail, FailUncaught, Die, Take, faults
      <4>3. CASE Ask \/ \E j \in Jobs : Enqueue(j) \/ Recover(j)
        BY <4>3 DEF Ask, AddInline, AddQueued, RequestRebuild, EnqueueFails, Enqueue, Recover, faults
      <4> QED BY <2>3, <4>1, <4>2, <4>3 DEF Next
    <3>2. Typed /\ Core
      BY <1>1, <1>2, <3>1 DEF Inv
    <3>3. CASE Ask
      BY <3>2, <3>3, CoreAddInline, CoreRequest, CoreQueue DEF Ask
    <3>4. ASSUME NEW j \in Jobs, Enqueue(j) \/ Recover(j) PROVE Core'
      BY <3>2, <3>4, CoreQueue
    <3>5. ASSUME NEW w \in Workers, Work(w) PROVE Core'
      BY <3>2, <3>5, CoreMarkRunning, CoreLoad, CoreDeleteChunks, CoreCreateChunk, CoreSetVector,
         CoreMarkFileSucceeded, CoreMarkFileFailed, CoreReadChunks, CoreUpdateChunk,
         CoreMarkTaskSucceeded, CoreMarkTaskFailed, CoreEnd DEF Work, Parse, Rebuild
    <3>6. ASSUME NEW w \in Workers, Fail(w) \/ FailUncaught(w) \/ Die(w) PROVE Core'
      BY <3>2, <3>6, CoreFail, CoreFailUncaught, CoreEnd
    <3>7. ASSUME NEW w \in Workers, NEW j \in Jobs, Take(w, j) PROVE Core'
      BY <3>2, <3>7, CoreTake
    <3> QED BY <2>3, <3>3, <3>4, <3>5, <3>6, <3>7 DEF Next
  <2> QED BY <2>1, <2>2, <2>3
<1> QED BY <1>1, <1>2 DEF Inv

LEMMA InvImplies == Inv => TaskTellsFile /\ DoneIsSucceeded
BY DEF Inv, Core, FileOK, DoneOK, TaskTellsFile, DoneIsSucceeded

(* Unless a lock was lost, the statuses of a file and its task tell the    *)
(* truth about its chunks.                                                 *)
THEOREM StatusesTellTheTruth == Spec => []TaskTellsFile
<1>1. Inv => TaskTellsFile
  BY InvImplies
<1> QED BY InitInv, NextInv, <1>1, PTL DEF Spec

(* Unless a lock was lost, a job the queue counts as done has its task     *)
(* succeeded.                                                              *)
THEOREM DoneMeansSucceeded == Spec => []DoneIsSucceeded
<1>1. Inv => DoneIsSucceeded
  BY InvImplies
<1> QED BY InitInv, NextInv, <1>1, PTL DEF Spec

(* Unless a lock was lost, all statuses are true.                          *)
THEOREM StatusesCount == Spec => []StatusesAreTrue
  BY StatusesTellTheTruth, DoneMeansSucceeded, PTL DEF StatusesAreTrue

-----------------------------------------------------------------------------
(* How often a file is parsed.  A worker that has the file's job and has   *)
(* not yet replaced the chunks is going to, once.                          *)
Ahead(f) == {w \in Workers : at[w] = f /\ pc[w] \in {"start", "load", "delete"}}

Used(f) == runs[f] + Cardinality(Ahead(f))

(* Each turn the queue gave the job is paid for by an attempt it used up,  *)
(* by the one time it stalled, or is the turn it has now.                  *)
TurnsOK(f) ==
  LET stall == IF stalled[f] THEN 1 ELSE 0 IN
  /\ job[f] = "none" => Used(f) = 0
  /\ job[f] = "waiting" => Used(f) <= Attempts - left[f] + stall
  /\ job[f] = "active" => Used(f) <= Attempts - left[f] + stall + 1
  /\ job[f] \in {"done", "dead"} => Used(f) <= Attempts + 1

TurnsCount == \A f \in Files : TurnsOK(f)

LEMMA AheadFinite ==
  ASSUME TypeOK, NEW f \in Files
  PROVE  /\ IsFiniteSet(Ahead(f)) /\ Cardinality(Ahead(f)) \in Nat
         /\ Used(f) \in Nat /\ runs[f] \in Nat /\ runs[f] <= Used(f)
         /\ left[f] \in 0..Attempts /\ f \in Jobs
<1>1. IsFiniteSet(Ahead(f))
  <2>1. Ahead(f) \subseteq Workers
    BY DEF Ahead
  <2> QED BY <2>1, IngestAssumption, FS_Subset
<1>2. Cardinality(Ahead(f)) \in Nat
  BY <1>1, FS_CardinalityType
<1>3. runs[f] \in Nat /\ left[f] \in 0..Attempts /\ f \in Jobs
  BY DEF TypeOK, Jobs
<1> QED BY <1>1, <1>2, <1>3 DEF Used

(* A step that sends no worker ahead uses no turn.                         *)
LEMMA UsedStays ==
  ASSUME TypeOK, NEW f \in Files, runs'[f] = runs[f], Ahead(f)' \subseteq Ahead(f)
  PROVE  Used(f)' \in Nat /\ Used(f)' <= Used(f)
<1>1. IsFiniteSet(Ahead(f)) /\ Cardinality(Ahead(f)) \in Nat /\ runs[f] \in Nat
  BY AheadFinite
<1>2. Cardinality(Ahead(f)') \in Nat /\ Cardinality(Ahead(f)') <= Cardinality(Ahead(f))
  BY <1>1, FS_Subset, FS_CardinalityType
<1>3. Used(f)' = runs'[f] + Cardinality(Ahead(f)')
  BY DEF Used
<1> QED BY <1>1, <1>2, <1>3 DEF Used

LEMMA TurnsStay ==
  ASSUME TypeOK, NEW f \in Files, TurnsOK(f), Used(f)' \in Nat, Used(f)' <= Used(f),
         job'[f] = job[f], left'[f] = left[f], stalled'[f] = stalled[f]
  PROVE  TurnsOK(f)'
<1>1. Used(f) \in Nat /\ left[f] \in 0..Attempts
  BY AheadFinite
<1> QED BY <1>1, IngestAssumption DEF TurnsOK

(* A worker in the middle of its job either goes on towards the chunks, or *)
(* replaces them, or is past that.                                         *)
LEMMA TurnsWork ==
  ASSUME Typed, TurnsCount, NEW w \in Workers,
         \/ MarkRunning(w) \/ Parse(w) \/ Rebuild(w) \/ MarkTaskSucceeded(w)
         \/ MarkTaskFailed(w) \/ Fail(w) \/ FailUncaught(w)
  PROVE  TurnsCount'
<1> USE DEF Typed
<1>1. UNCHANGED <<at, job, left, stalled>>
  BY DEF MarkRunning, Parse, Load, DeleteChunks, CreateChunk, SetVector, MarkFileSucceeded,
     MarkFileFailed, Rebuild, ReadChunks, UpdateChunk, MarkTaskSucceeded, MarkTaskFailed, Fail,
     FailUncaught, queue
<1>2. SUFFICES ASSUME NEW f \in Files PROVE Used(f)' \in Nat /\ Used(f)' <= Used(f)
  BY <1>1, TurnsStay DEF TurnsCount
<1>3. CASE DeleteChunks(w) /\ at[w] = f
  <2>1. w \in Ahead(f) /\ Ahead(f)' = Ahead(f) \ {w}
    BY <1>1, <1>3 DEF DeleteChunks, Ahead, TypeOK
  <2>2. Cardinality(Ahead(f)') = Cardinality(Ahead(f)) - 1
    BY <2>1, AheadFinite, FS_RemoveElement
  <2>3. runs'[f] = runs[f] + 1
    BY <1>3 DEF DeleteChunks, TypeOK
  <2>4. Used(f)' = runs'[f] + Cardinality(Ahead(f)')
    BY DEF Used
  <2> QED BY <2>2, <2>3, <2>4, AheadFinite DEF Used
<1>4. CASE ~(DeleteChunks(w) /\ at[w] = f)
  <2>1. runs'[f] = runs[f]
    BY <1>4 DEF MarkRunning, Parse, Load, DeleteChunks, CreateChunk, SetVector,
       MarkFileSucceeded, MarkFileFailed, Rebuild, ReadChunks, UpdateChunk, MarkTaskSucceeded,
       MarkTaskFailed, Fail, FailUncaught, tables, TypeOK
  <2>2. \A v \in Workers \ {w} : pc'[v] = pc[v]
    BY DEF MarkRunning, Parse, Load, DeleteChunks, CreateChunk, SetVector, MarkFileSucceeded,
       MarkFileFailed, Rebuild, ReadChunks, UpdateChunk, MarkTaskSucceeded, MarkTaskFailed, Fail,
       FailUncaught, TypeOK
  <2>3. pc'[w] \in {"start", "load", "delete"} => pc[w] \in {"start", "load", "delete"}
    BY DEF MarkRunning, Parse, Load, DeleteChunks, CreateChunk, SetVector, MarkFileSucceeded,
       MarkFileFailed, Rebuild, ReadChunks, UpdateChunk, MarkTaskSucceeded, MarkTaskFailed, Fail,
       FailUncaught, TypeOK
  <2>4. Ahead(f)' \subseteq Ahead(f)
    BY <1>1, <2>2, <2>3 DEF Ahead
  <2> QED BY <2>1, <2>4, UsedStays
<1> QED BY <1>3, <1>4

(* A worker leaves its job, and only the one that holds the lock is heard. *)
LEMMA TurnsEnd ==
  ASSUME Typed, TurnsCount, NEW w \in Workers,
         Return(w) \/ Throw(w) \/ Die(w) \/ LoseLock(w)
  PROVE  TurnsCount'
<1> USE DEF Typed
<1>1. runs' = runs /\ stalled' = stalled
  BY DEF Return, Throw, Die, LoseLock, tables
<1>2. SUFFICES ASSUME NEW f \in Files PROVE TurnsOK(f)'
  BY DEF TurnsCount
<1>3. Ahead(f)' \subseteq Ahead(f)
  <2>1. \A v \in Workers : \/ pc'[v] = pc[v] /\ at'[v] = at[v]
                           \/ pc'[v] = "idle"
    BY DEF Return, Throw, Die, LoseLock, Free, local, TypeOK
  <2> QED BY <2>1 DEF Ahead
<1>4. Used(f)' \in Nat /\ Used(f)' <= Used(f)
  BY <1>1, <1>3, UsedStays
<1>5. TurnsOK(f) /\ Used(f) \in Nat /\ left[f] \in 0..Attempts /\ f \in Jobs
      /\ (job[f] \in {"waiting", "active"} => left[f] > 0)
  BY AheadFinite DEF TurnsCount, StandOK
<1>6. CASE (Return(w) \/ Throw(w)) /\ at[w] = f /\ Holds(w)
  <2>1. job[f] = "active"
    BY <1>5, <1>6, IngestAssumption DEF Holds, StandOK
  <2>2. Used(f) <= Attempts - left[f] + (IF stalled[f] THEN 1 ELSE 0) + 1 /\ left[f] > 0
    BY <1>5, <2>1 DEF TurnsOK
  <2>3. CASE Return(w)
    <3>1. job'[f] = "done"
      BY <1>5, <1>6, <2>3 DEF Return, TypeOK
    <3> QED BY <1>4, <1>5, <2>2, <3>1, IngestAssumption DEF TurnsOK
  <2>4. CASE Throw(w)
    <3>1. left'[f] = left[f] - 1 /\ job'[f] = IF left[f] > 1 THEN "waiting" ELSE "dead"
      BY <1>5, <1>6, <2>4 DEF Throw, TypeOK
    <3> QED BY <1>1, <1>4, <1>5, <2>2, <3>1, IngestAssumption DEF TurnsOK
  <2> QED BY <1>6, <2>3, <2>4
<1>7. CASE ~((Return(w) \/ Throw(w)) /\ at[w] = f /\ Holds(w))
  <2>1. job'[f] = job[f] /\ left'[f] = left[f]
    BY <1>5, <1>7 DEF Return, Throw, Die, LoseLock, TypeOK
  <2> QED BY <1>1, <1>4, <1>5, <2>1, TurnsStay
<1> QED BY <1>6, <1>7

(* The queue gives a job its turns.                                        *)
LEMMA TurnsQueue ==
  ASSUME Typed, TurnsCount, NEW j \in Jobs,
         Enqueue(j) \/ Recover(j) \/ \E w \in Workers : Take(w, j)
  PROVE  TurnsCount'
<1> USE DEF Typed
<1>1. SUFFICES ASSUME NEW f \in Files PROVE TurnsOK(f)'
  BY DEF TurnsCount
<1>2. TurnsOK(f) /\ Used(f) \in Nat /\ left[f] \in 0..Attempts /\ f \in Jobs
      /\ (job[f] \in {"waiting", "active"} => left[f] > 0)
  BY AheadFinite DEF TurnsCount, StandOK
<1>3. CASE Enqueue(j)
  <2>1. runs' = runs /\ stalled' = stalled /\ Ahead(f)' = Ahead(f)
    BY <1>3 DEF Enqueue, tables, local, Ahead
  <2>2. Used(f)' \in Nat /\ Used(f)' <= Used(f)
    BY <2>1, UsedStays
  <2>3. CASE j = f
    <3>1. job[f] = "none"
      BY <1>3, <2>3 DEF Enqueue, StandOK
    <3>2. job'[f] = "waiting" /\ left'[f] = Attempts
      BY <1>2, <1>3, <2>3 DEF Enqueue, TypeOK
    <3> QED BY <1>2, <2>1, <2>2, <3>1, <3>2, IngestAssumption DEF TurnsOK
  <2>4. CASE j # f
    <3>1. job'[f] = job[f] /\ left'[f] = left[f]
      BY <1>2, <1>3, <2>4 DEF Enqueue, TypeOK
    <3> QED BY <1>2, <2>1, <2>2, <3>1, TurnsStay
  <2> QED BY <2>3, <2>4
<1>4. CASE Recover(j)
  <2>1. runs' = runs /\ left' = left /\ Ahead(f)' = Ahead(f)
    BY <1>4 DEF Recover, tables, local, Ahead
  <2>2. Used(f)' \in Nat /\ Used(f)' <= Used(f)
    BY <2>1, UsedStays
  <2>3. CASE j = f
    <3>1. job[f] = "active" /\ stalled'[f] = TRUE
          /\ job'[f] = IF stalled[f] THEN "dead" ELSE "waiting"
      BY <1>2, <1>4, <2>3 DEF Recover, TypeOK
    <3> QED BY <1>2, <2>1, <2>2, <3>1, IngestAssumption DEF TurnsOK
  <2>4. CASE j # f
    <3>1. job'[f] = job[f] /\ stalled'[f] = stalled[f]
      BY <1>2, <1>4, <2>4 DEF Recover, TypeOK
    <3> QED BY <1>2, <2>1, <2>2, <3>1, TurnsStay
  <2> QED BY <2>3, <2>4
<1>5. ASSUME NEW w \in Workers, Take(w, j) PROVE TurnsOK(f)'
  <2>1. runs' = runs /\ left' = left /\ stalled' = stalled /\ pc[w] = "idle"
    BY <1>5 DEF Take, tables
  <2>2. CASE j = f
    <3>1. job[f] = "waiting" /\ job'[f] = "active"
      BY <1>2, <1>5, <2>2 DEF Take, TypeOK
    <3>2. w \notin Ahead(f) /\ Ahead(f)' = Ahead(f) \cup {w}
      BY <1>5, <2>2 DEF Take, Ahead, TypeOK
    <3>3. Cardinality(Ahead(f)') = Cardinality(Ahead(f)) + 1
      BY <3>2, AheadFinite, FS_AddElement
    <3>4. Used(f)' = runs[f] + Cardinality(Ahead(f)') /\ Used(f) = runs[f] + Cardinality(Ahead(f))
      BY <2>1 DEF Used
    <3>5. Used(f)' = Used(f) + 1
      <4>1. runs[f] \in Nat /\ Cardinality(Ahead(f)) \in Nat
        BY AheadFinite
      <4> QED BY <3>3, <3>4, <4>1
    <3> QED BY <1>2, <2>1, <3>1, <3>5, IngestAssumption DEF TurnsOK
  <2>3. CASE j # f
    <3>1. job'[f] = job[f]
      BY <1>2, <1>5, <2>3 DEF Take, TypeOK
    <3>2. Ahead(f)' \subseteq Ahead(f)
      BY <1>5, <2>3 DEF Take, Ahead, TypeOK
    <3> QED BY <1>2, <2>1, <3>1, <3>2, UsedStays, TurnsStay
  <2> QED BY <2>2, <2>3
<1> QED BY <1>3, <1>4, <1>5

LEMMA TurnsStep == Typed /\ TurnsCount /\ [Next]_vars => TurnsCount'
<1> SUFFICES ASSUME Typed, TurnsCount, [Next]_vars PROVE TurnsCount'
  OBVIOUS
<1>1. CASE Ask \/ UNCHANGED vars
  <2>1. UNCHANGED <<runs, at, pc, job, left, stalled>>
    BY <1>1 DEF Ask, AddInline, AddQueued, RequestRebuild, EnqueueFails, vars, tables, queue, local
  <2> QED BY <2>1 DEF TurnsCount, TurnsOK, Used, Ahead
<1> QED BY <1>1, TurnsQueue, TurnsWork, TurnsEnd DEF Next, Work

LEMMA TurnsInit == Init => TurnsCount
<1> SUFFICES ASSUME Init, NEW f \in Files PROVE TurnsOK(f)
  BY DEF TurnsCount
<1>1. Ahead(f) = {} /\ runs[f] = 0 /\ job[f] = "none"
  BY DEF Init, Ahead, Jobs
<1> QED BY <1>1, FS_EmptySet DEF TurnsOK, Used

(* A file's chunks are replaced at most once more than the queue has       *)
(* attempts, whatever fails, dies or loses its lock.                       *)
THEOREM RunsAreBounded == Spec => []RunsBounded
<1>1. Typed /\ TurnsCount => RunsBounded
  <2> SUFFICES ASSUME Typed, TurnsCount, NEW f \in Files PROVE runs[f] <= Attempts + 1
    BY DEF RunsBounded
  <2>1. TypeOK /\ TurnsOK(f)
    BY DEF Typed, TurnsCount
  <2>2. /\ Used(f) \in Nat /\ runs[f] \in Nat /\ runs[f] <= Used(f)
        /\ left[f] \in 0..Attempts /\ f \in Jobs
    BY <2>1, AheadFinite
  <2>3. job[f] \in {"none", "waiting", "active", "done", "dead"}
        /\ (job[f] \in {"waiting", "active"} => left[f] > 0)
    BY <2>2 DEF Typed, TypeOK, StandOK
  <2> QED BY <2>1, <2>2, <2>3, IngestAssumption DEF TurnsOK
<1> QED BY <1>1, InitTyped, NextTyped, TurnsInit, TurnsStep, PTL DEF Spec

-----------------------------------------------------------------------------
(* Files marked as succeeded, while nobody died or lost a lock and no two  *)
(* calls failed.  A parse of such a file does not begin again: a job is    *)
(* handed out, or about to be, for a file that is not marked so ...        *)
Calm == crashes + lost = 0 /\ errors <= 1

Before == {"start", "load", "delete", "create", "vector", "markFile", "catchTask", "throw"}

NotAgain ==
  /\ \A f \in Files :
       /\ request[f] = "enqueue" \/ job[f] = "waiting" => parse[f] # "succeeded"
       /\ \A w \in Workers : at[w] = f /\ pc[w] \in Before => parse[f] # "succeeded"
  /\ \A w \in Workers : pc[w] = "catchFile" => errors >= 1
  /\ \A j \in Jobs : job[j] = "active" => holder[j] # NoWorker

(* ... and its chunks stay.                                                *)
Whole(f) == parse[f] = "succeeded" => \E n \in 0..runs[f] : FullRun(f, n) \subseteq vectors

RunsOK == \A w \in Workers :
  pc[w] \in {"create", "vector", "markFile"} => run[w] \in 0..runs[at[w]]

CalmInv == RunsOK /\ (Calm => NotAgain /\ \A f \in Files : Whole(f))

LEMMA RunsStep ==
  ASSUME Typed, RunsOK, [Next]_vars
  PROVE  RunsOK'
<1>0. /\ pc \in [Workers -> Steps] /\ at \in [Workers -> Jobs \cup {NoJob}]
      /\ run \in [Workers -> Nat] /\ runs \in [Files -> Nat]
      /\ \A w \in Workers :
           pc[w] \in {"delete", "create", "vector", "markFile"} => at[w] \in Files
  BY DEF Typed, TypeOK, StandOK
<1>1. ASSUME UNCHANGED <<runs, run, at>>,
             \A w \in Workers : pc'[w] \in {"create", "vector", "markFile"} =>
                                pc[w] \in {"create", "vector", "markFile"}
      PROVE  RunsOK'
  BY <1>1 DEF RunsOK
<1>2. ASSUME NEW w \in Workers, DeleteChunks(w) PROVE RunsOK'
  BY <1>0, <1>2 DEF DeleteChunks, RunsOK
<1>3. ASSUME NEW w \in Workers, Free(w), runs' = runs PROVE RunsOK'
  BY <1>0, <1>3 DEF Free, RunsOK
<1>4. ASSUME NEW w \in Workers, CreateChunk(w) \/ SetVector(w) PROVE RunsOK'
  BY <1>0, <1>1, <1>4 DEF CreateChunk, SetVector
<1>5. ASSUME NEW w \in Workers,
             \/ MarkRunning(w) \/ Load(w) \/ MarkFileSucceeded(w) \/ MarkFileFailed(w)
             \/ Rebuild(w) \/ MarkTaskSucceeded(w) \/ MarkTaskFailed(w)
             \/ Fail(w) \/ FailUncaught(w)
      PROVE  RunsOK'
  BY <1>0, <1>1, <1>5 DEF MarkRunning, Load, MarkFileSucceeded, MarkFileFailed, Rebuild,
     ReadChunks, UpdateChunk, MarkTaskSucceeded, MarkTaskFailed, Fail, FailUncaught, tables
<1>6. ASSUME NEW w \in Workers, Return(w) \/ Throw(w) \/ Die(w) PROVE RunsOK'
  BY <1>3, <1>6 DEF Return, Throw, Die, tables
<1>7. ASSUME NEW w \in Workers, NEW j \in Jobs, Take(w, j) PROVE RunsOK'
  BY <1>0, <1>7 DEF Take, tables, RunsOK
<1>8. CASE UNCHANGED <<runs, run, at, pc>>
  BY <1>1, <1>8
<1>9. CASE Ask \/ (\E j \in Jobs : Enqueue(j) \/ Recover(j)) \/ (\E w \in Workers : LoseLock(w))
           \/ UNCHANGED vars
  BY <1>8, <1>9 DEF Ask, AddInline, AddQueued, RequestRebuild, EnqueueFails, Enqueue, Recover,
     LoseLock, local, tables, vars
<1> QED BY <1>2, <1>4, <1>5, <1>6, <1>7, <1>9 DEF Next, Work, Parse

LEMMA SumIsZero ==
  ASSUME NEW a \in Nat, NEW b \in Nat
  PROVE  /\ a + b = 0 <=> a = 0 /\ b = 0
         /\ a + b > 0 <=> ~(a = 0 /\ b = 0)
OBVIOUS

(* Faults are only counted up.                                             *)
LEMMA StaysCalm ==
  ASSUME Typed, [Next]_vars, Calm'
  PROVE  Calm /\ \A w \in Workers : ~Die(w) /\ ~LoseLock(w)
<1>0. errors \in Nat /\ crashes \in Nat /\ lost \in Nat
  BY DEF Typed, TypeOK
<1>1. errors' \in {errors, errors + 1} /\ crashes' \in {crashes, crashes + 1}
      /\ lost' \in {lost, lost + 1}
  <2>1. ASSUME NEW w \in Workers, Work(w) PROVE UNCHANGED faults
    BY <2>1 DEF Work, Parse, Rebuild, MarkRunning, Load, DeleteChunks, CreateChunk, SetVector,
                MarkFileSucceeded, MarkFileFailed, ReadChunks, UpdateChunk, MarkTaskSucceeded,
                MarkTaskFailed, Return, Throw
  <2>2. ASSUME NEW w \in Workers, NEW j \in Jobs, Take(w, j) PROVE UNCHANGED faults
    BY <2>2 DEF Take
  <2>3. ASSUME NEW w \in Workers, Fail(w) \/ FailUncaught(w)
        PROVE  errors' = errors + 1 /\ UNCHANGED <<crashes, lost>>
    BY <2>3 DEF Fail, FailUncaught
  <2>4. ASSUME NEW w \in Workers, Die(w) PROVE crashes' = crashes + 1 /\ UNCHANGED <<errors, lost>>
    BY <2>4 DEF Die
  <2>5. ASSUME NEW w \in Workers, LoseLock(w)
        PROVE  lost' = lost + 1 /\ UNCHANGED <<errors, crashes>>
    BY <2>5 DEF LoseLock
  <2>6. ASSUME NEW j \in Jobs, EnqueueFails(j)
        PROVE  errors' = errors + 1 /\ UNCHANGED <<crashes, lost>>
    BY <2>6 DEF EnqueueFails
  <2>7. CASE \/ \E f \in Files : AddInline(f) \/ AddQueued(f)
             \/ \E r \in Rebuilds : RequestRebuild(r)
             \/ \E j \in Jobs : Enqueue(j) \/ Recover(j)
             \/ UNCHANGED vars
    BY <2>7 DEF AddInline, AddQueued, RequestRebuild, Enqueue, Recover, faults, vars
  <2> QED BY <2>1, <2>2, <2>3, <2>4, <2>5, <2>6, <2>7 DEF Next, Ask, faults
<1>2. crashes' + lost' = 0 /\ errors' <= 1
  BY DEF Calm
<1>3. crashes' = 0 /\ lost' = 0 /\ crashes = 0 /\ lost = 0 /\ errors <= 1
  <2>1. crashes' \in Nat /\ lost' \in Nat /\ crashes' >= crashes /\ lost' >= lost
        /\ errors' >= errors
    BY <1>0, <1>1
  <2>2. crashes' = 0 /\ lost' = 0
    BY <1>2, <2>1, SumIsZero
  <2> QED BY <1>0, <1>1, <1>2, <2>1, <2>2
<1>4. ASSUME NEW w \in Workers, Die(w) PROVE FALSE
  BY <1>3, <1>4 DEF Die
<1>5. ASSUME NEW w \in Workers, LoseLock(w) PROVE FALSE
  BY <1>3, <1>5 DEF LoseLock
<1> QED BY <1>3, <1>4, <1>5 DEF Calm

CalmAll == NotAgain /\ \A f \in Files : Whole(f)

(* What a step does to no file but that of its worker.                     *)
Unharmed(f) ==
  /\ parse'[f] = parse[f] /\ runs'[f] = runs[f]
  /\ \A r \in vectors : r.file = f => r \in vectors'

LEMMA UnharmedWhole ==
  ASSUME NEW f \in Files, Whole(f), Unharmed(f)
  PROVE  Whole(f)'
<1> SUFFICES ASSUME parse'[f] = "succeeded"
             PROVE  \E n \in 0..runs'[f] : FullRun(f, n) \subseteq vectors'
  BY DEF Whole, FullRun
<1>1. PICK n \in 0..runs[f] : FullRun(f, n) \subseteq vectors
  BY DEF Whole, Unharmed
<1>2. FullRun(f, n) \subseteq vectors'
  BY <1>1 DEF Unharmed, FullRun, Row
<1> QED BY <1>1, <1>2 DEF Unharmed

(* A step of a worker inside its job, once more.                           *)
LEMMA StepKeepsCalm ==
  ASSUME Typed, Core, CalmAll,
         NEW w \in Workers, NEW l, pc[w] # "idle", Goto(w, l), l # "idle",
         UNCHANGED <<request, queue, at>>,
         \A f \in Files : f # at[w] => Unharmed(f),
         l \in Before /\ at[w] \in Files => parse'[at[w]] # "succeeded",
         l = "catchFile" => errors' >= 1,
         errors' = errors \/ errors' = errors + 1,
         at[w] \in Files => Whole(at[w])'
  PROVE  CalmAll'
<1>0. /\ pc \in [Workers -> Steps] /\ at[w] \in Jobs /\ job[at[w]] = "active"
      /\ \A f \in Files : f \in Jobs
      /\ at[w] \in Files => request[at[w]] = "done"
      /\ errors \in Nat
  BY Standing DEF Typed, TypeOK, StandOK, Jobs
<1>1. ASSUME NEW f \in Files PROVE Whole(f)'
  <2>1. CASE f # at[w]
    BY <2>1, UnharmedWhole DEF CalmAll
  <2> QED BY <2>1
<1>2. ASSUME NEW f \in Files
      PROVE  /\ request'[f] = "enqueue" \/ job'[f] = "waiting" => parse'[f] # "succeeded"
             /\ \A v \in Workers : at'[v] = f /\ pc'[v] \in Before => parse'[f] # "succeeded"
  <2>1. CASE f = at[w]
    <3>1. \A v \in Workers : v # w /\ pc[v] # "idle" => at[v] # f
      BY <2>1, OwnJob DEF Core
    <3>2. pc'[w] = l /\ \A v \in Workers : v # w => pc'[v] = pc[v]
      BY <1>0
    <3> QED BY <1>0, <2>1, <3>1, <3>2 DEF queue, Before
  <2>2. CASE f # at[w]
    BY <1>0, <2>2 DEF CalmAll, NotAgain, queue, Unharmed
  <2> QED BY <2>1, <2>2
<1>3. \A v \in Workers : pc'[v] = "catchFile" => errors' >= 1
  BY <1>0 DEF CalmAll, NotAgain
<1>4. \A j \in Jobs : job'[j] = "active" => holder'[j] # NoWorker
  BY DEF CalmAll, NotAgain, queue
<1> QED BY <1>1, <1>2, <1>3, <1>4 DEF CalmAll, NotAgain

(* One that leaves the files alone.                                        *)
LEMMA MoveKeepsCalm ==
  ASSUME Typed, Core, CalmAll,
         NEW w \in Workers, NEW l, pc[w] # "idle", Goto(w, l), l # "idle", l # "catchFile",
         UNCHANGED <<parse, runs, request, queue, at>>, vectors \subseteq vectors',
         errors' = errors \/ errors' = errors + 1,
         l \in Before => pc[w] \in Before \/ at[w] \notin Files
  PROVE  CalmAll'
<1>1. \A f \in Files : Unharmed(f)
  BY DEF Unharmed
<1>2. at[w] \in Files => Whole(at[w])'
  BY <1>1, UnharmedWhole DEF CalmAll
<1>3. l \in Before /\ at[w] \in Files => parse'[at[w]] # "succeeded"
  BY DEF CalmAll, NotAgain
<1> QED BY <1>1, <1>2, <1>3, StepKeepsCalm

LEMMA CalmWork ==
  ASSUME Typed, Core, CalmAll, RunsOK, NEW w \in Workers,
         \/ MarkRunning(w) \/ Parse(w) \/ Rebuild(w)
         \/ MarkTaskSucceeded(w) \/ MarkTaskFailed(w)
  PROVE  CalmAll'
<1>0. /\ parse \in [Files -> {"absent", "pending", "succeeded", "failed"}]
      /\ runs \in [Files -> Nat]
      /\ pc[w] \in {"load", "delete", "create", "vector", "markFile", "catchFile"} => at[w] \in Files
      /\ pc[w] \in {"read", "update"} => at[w] \notin Files
  BY IngestAssumption DEF Typed, TypeOK, StandOK
<1>3. CASE MarkRunning(w)
  <2>1. PICK l \in {"load", "read"} : Goto(w, l)
    BY <1>3 DEF MarkRunning
  <2>2. pc[w] = "start" /\ UNCHANGED <<parse, runs, vectors, request, queue, at, errors>>
    BY <1>3 DEF MarkRunning, faults
  <2> QED BY <2>1, <2>2, MoveKeepsCalm DEF Before
<1>4. CASE Load(w)
  <2>1. pc[w] = "load" /\ UNCHANGED <<parse, runs, vectors, request, queue, at, errors>>
        /\ Goto(w, "delete")
    BY <1>4 DEF Load, tables, faults
  <2> QED BY <2>1, MoveKeepsCalm DEF Before
<1>5. CASE DeleteChunks(w)
  <2>1. pc[w] = "delete" /\ UNCHANGED <<parse, request, queue, at, errors>> /\ Goto(w, "create")
        /\ runs' = [runs EXCEPT ![at[w]] = @ + 1] /\ vectors' = vectors \ RowsOf(at[w])
    BY <1>5 DEF DeleteChunks, faults
  <2>2. parse[at[w]] # "succeeded" /\ at[w] \in Files
    BY <1>0, <2>1 DEF Before, CalmAll, NotAgain
  <2>3. \A f \in Files : f # at[w] => Unharmed(f)
    BY <1>0, <2>1 DEF Unharmed, RowsOf
  <2>4. Whole(at[w])'
    BY <2>1, <2>2 DEF Whole
  <2> QED BY <2>1, <2>2, <2>3, <2>4, StepKeepsCalm
<1>6. CASE CreateChunk(w)
  <2>1. pc[w] = "create" /\ UNCHANGED <<parse, runs, vectors, request, queue, at, errors>>
        /\ Goto(w, "vector")
    BY <1>6 DEF CreateChunk, faults
  <2> QED BY <2>1, MoveKeepsCalm DEF Before
<1>7. CASE SetVector(w)
  <2>1. pc[w] = "vector" /\ UNCHANGED <<parse, runs, request, queue, at, errors>>
        /\ vectors \subseteq vectors' /\ (Goto(w, "create") \/ Goto(w, "markFile"))
    BY <1>7 DEF SetVector, faults
  <2>2. PICK l \in {"create", "markFile"} : Goto(w, l)
    BY <2>1
  <2> QED BY <2>1, <2>2, MoveKeepsCalm DEF Before
<1>8. CASE MarkFileSucceeded(w)
  <2>1. pc[w] = "markFile" /\ UNCHANGED <<runs, rows, vectors, request, queue, at, errors>>
        /\ Goto(w, "markTask") /\ parse' = [parse EXCEPT ![at[w]] = "succeeded"]
    BY <1>8 DEF MarkFileSucceeded, faults
  <2>2. Written(at[w], run[w], Chunks, Chunks) /\ run[w] \in 0..runs[at[w]] /\ at[w] \in Files
    BY <1>0, <2>1, Standing DEF WorkerOK, RunsOK
  <2>3. FullRun(at[w], run[w]) \subseteq vectors
    BY <2>2 DEF Written, FullRun, RunUpTo
  <2>4. Whole(at[w])'
    BY <2>1, <2>2, <2>3 DEF Whole, FullRun
  <2>5. \A f \in Files : f # at[w] => Unharmed(f)
    BY <1>0, <2>1 DEF Unharmed
  <2>6. "markTask" \notin Before
    BY DEF Before
  <2> QED BY <2>1, <2>4, <2>5, <2>6, StepKeepsCalm
<1>9. CASE MarkFileFailed(w)
  <2>1. pc[w] = "catchFile" /\ UNCHANGED <<runs, rows, vectors, request, queue, at, errors>>
        /\ Goto(w, "catchTask") /\ parse' = [parse EXCEPT ![at[w]] = "failed"]
    BY <1>9 DEF MarkFileFailed, faults
  <2>2. at[w] \in Files /\ parse'[at[w]] # "succeeded"
    BY <1>0, <2>1
  <2>3. Whole(at[w])'
    <3>1. at' = at
      BY <2>1
    <3> QED BY <2>2, <3>1 DEF Whole
  <2>4. \A f \in Files : f # at[w] => Unharmed(f)
    BY <1>0, <2>1 DEF Unharmed
  <2> QED BY <2>1, <2>2, <2>3, <2>4, StepKeepsCalm
<1>10. CASE ReadChunks(w) \/ UpdateChunk(w)
  <2>1. pc[w] \in {"read", "update"} /\ UNCHANGED <<parse, runs, request, queue, at, errors>>
        /\ vectors \subseteq vectors' /\ \E l \in {"markTask", "update", "catchTask"} : Goto(w, l)
    BY <1>10 DEF ReadChunks, UpdateChunk, tables, faults
  <2>2. PICK l \in {"markTask", "update", "catchTask"} : Goto(w, l)
    BY <2>1
  <2> QED BY <1>0, <2>1, <2>2, MoveKeepsCalm
<1>11. CASE MarkTaskSucceeded(w)
  <2>1. pc[w] = "markTask" /\ UNCHANGED <<parse, runs, vectors, request, queue, at, errors>>
        /\ Goto(w, "return")
    BY <1>11 DEF MarkTaskSucceeded, faults, tables
  <2> QED BY <2>1, MoveKeepsCalm DEF Before
<1>12. CASE MarkTaskFailed(w)
  <2>1. pc[w] = "catchTask" /\ UNCHANGED <<parse, runs, vectors, request, queue, at, errors>>
        /\ Goto(w, "throw")
    BY <1>12 DEF MarkTaskFailed, faults, tables
  <2> QED BY <2>1, MoveKeepsCalm DEF Before
<1> QED BY <1>3, <1>4, <1>5, <1>6, <1>7, <1>8, <1>9, <1>10, <1>11, <1>12 DEF Parse, Rebuild

LEMMA CalmFail ==
  ASSUME Typed, Core, CalmAll, Calm', NEW w \in Workers, Fail(w) \/ FailUncaught(w)
  PROVE  CalmAll'
<1>0. /\ errors \in Nat /\ errors' = errors + 1 /\ errors' <= 1
      /\ UNCHANGED <<parse, runs, vectors, request, queue, at>>
      /\ pc[w] = "catchFile" => errors >= 1
  BY DEF Typed, TypeOK, Fail, FailUncaught, tables, Calm, CalmAll, NotAgain
<1>1. CASE Fail(w)
  <2>1. PICK l \in {"catchFile", "catchTask"} :
          Goto(w, l) /\ (at[w] \in Files => l = "catchFile")
    BY <1>1 DEF Fail
  <2>2. pc[w] # "idle" /\ errors' >= 1
    BY <1>0, <1>1 DEF Fail, Tried
  <2>3. \A f \in Files : Unharmed(f)
    BY <1>0 DEF Unharmed
  <2>4. at[w] \in Files => Whole(at[w])'
    BY <1>0, <2>3, UnharmedWhole DEF CalmAll
  <2>5. l \in Before => at[w] \notin Files
    BY <2>1 DEF Before
  <2> QED BY <1>0, <2>1, <2>2, <2>3, <2>4, <2>5, StepKeepsCalm
<1>2. CASE FailUncaught(w)
  <2>1. pc[w] \in {"start", "catchTask"} /\ Goto(w, "throw")
    BY <1>0, <1>2 DEF FailUncaught
  <2> QED BY <1>0, <2>1, MoveKeepsCalm DEF Before
<1> QED BY <1>1, <1>2

LEMMA CalmEnd ==
  ASSUME Typed, Core, CalmAll, NEW w \in Workers, Return(w) \/ Throw(w)
  PROVE  CalmAll'
<1>0. /\ pc \in [Workers -> Steps] /\ at \in [Workers -> Jobs \cup {NoJob}]
      /\ job \in [Jobs -> {"none", "waiting", "active", "done", "dead"}]
      /\ holder \in [Jobs -> Workers \cup {NoWorker}]
      /\ \A f \in Files : f \in Jobs
  BY DEF Typed, TypeOK, Jobs
<1>1. pc[w] \in {"return", "throw"} /\ Free(w)
      /\ UNCHANGED <<parse, runs, vectors, request, errors>>
  BY DEF Return, Throw, tables, faults
<1>2. at[w] \in Jobs /\ holder[at[w]] = w
  BY <1>1, Standing
<1>3. /\ holder' = [holder EXCEPT ![at[w]] = NoWorker]
      /\ \A j \in Jobs : j # at[w] => job'[j] = job[j]
      /\ job'[at[w]] # "active"
      /\ job'[at[w]] = "waiting" => pc[w] = "throw"
  BY <1>0, <1>1, <1>2 DEF Return, Throw, Holds
<1>4. \A v \in Workers : pc'[v] # "idle" => v # w /\ pc'[v] = pc[v] /\ at'[v] = at[v]
  BY <1>0, <1>1 DEF Free
<1>5. ASSUME NEW f \in Files
      PROVE  /\ request'[f] = "enqueue" \/ job'[f] = "waiting" => parse'[f] # "succeeded"
             /\ \A v \in Workers : at'[v] = f /\ pc'[v] \in Before => parse'[f] # "succeeded"
  BY <1>0, <1>1, <1>3, <1>4 DEF CalmAll, NotAgain, Before
<1>6. \A v \in Workers : pc'[v] = "catchFile" => errors' >= 1
  BY <1>1, <1>4 DEF CalmAll, NotAgain
<1>7. \A j \in Jobs : job'[j] = "active" => holder'[j] # NoWorker
  BY <1>0, <1>3 DEF CalmAll, NotAgain
<1>8. \A f \in Files : Whole(f)'
  BY <1>1, UnharmedWhole DEF CalmAll, Unharmed
<1> QED BY <1>5, <1>6, <1>7, <1>8 DEF CalmAll, NotAgain

LEMMA CalmQueue ==
  ASSUME Typed, Core, CalmAll, NEW j \in Jobs,
         Enqueue(j) \/ EnqueueFails(j) \/ Recover(j) \/ \E w \in Workers : Take(w, j)
  PROVE  CalmAll'
<1>0. /\ pc \in [Workers -> Steps] /\ at \in [Workers -> Jobs \cup {NoJob}]
      /\ job \in [Jobs -> {"none", "waiting", "active", "done", "dead"}]
      /\ request \in [Jobs -> {"none", "enqueue", "done", "failed"}]
      /\ holder \in [Jobs -> Workers \cup {NoWorker}] /\ errors \in Nat
      /\ \A f \in Files : f \in Jobs
  BY DEF Typed, TypeOK, Jobs
<1>1. UNCHANGED <<parse, runs, vectors>>
  BY DEF Enqueue, EnqueueFails, Recover, Take, tables
<1>2. \A f \in Files : Whole(f)'
  BY <1>1, UnharmedWhole DEF CalmAll, Unharmed
<1>3. CASE Enqueue(j)
  <2>1. NotAgain'
    BY <1>0, <1>1, <1>3 DEF Enqueue, CalmAll, NotAgain, local, faults
  <2> QED BY <1>2, <2>1 DEF CalmAll
<1>4. CASE EnqueueFails(j)
  <2>1. NotAgain'
    BY <1>0, <1>1, <1>4 DEF EnqueueFails, CalmAll, NotAgain, local, queue
  <2> QED BY <1>2, <2>1 DEF CalmAll
<1>5. ~Recover(j)
  BY DEF Recover, CalmAll, NotAgain
<1>6. ASSUME NEW w \in Workers, Take(w, j) PROVE CalmAll'
  <2>1. NotAgain'
    BY <1>0, <1>1, <1>6, IngestAssumption DEF Take, CalmAll, NotAgain, faults
  <2> QED BY <1>2, <2>1 DEF CalmAll
<1> QED BY <1>3, <1>4, <1>5, <1>6

LEMMA CalmAsk ==
  ASSUME Typed, Core, CalmAll,
         \/ \E f \in Files : AddInline(f) \/ AddQueued(f)
         \/ \E r \in Rebuilds : RequestRebuild(r)
  PROVE  CalmAll'
<1>0. /\ parse \in [Files -> {"absent", "pending", "succeeded", "failed"}]
      /\ request \in [Jobs -> {"none", "enqueue", "done", "failed"}]
      /\ runs \in [Files -> Nat] /\ \A f \in Files : f \in Jobs
  BY DEF Typed, TypeOK, Jobs
<1>1. ASSUME NEW f \in Files, AddInline(f) PROVE CalmAll'
  <2>1. /\ parse[f] = "absent" /\ parse' = [parse EXCEPT ![f] = "succeeded"]
        /\ UNCHANGED <<request, job, holder, pc, at, errors, runs>>
        /\ vectors' = vectors \cup FullRun(f, 0)
    BY <1>1 DEF AddInline, queue, local, faults
  <2>2. request[f] = "none" /\ job[f] = "none" /\ \A w \in Workers : pc[w] # "idle" => at[w] # f
    BY <1>0, <2>1, NobodyAt DEF Typed, StandOK
  <2>3. NotAgain'
    BY <1>0, <2>1, <2>2 DEF CalmAll, NotAgain, Before
  <2>4. Whole(f)'
    BY <1>0, <2>1 DEF Whole, FullRun
  <2>5. ASSUME NEW g \in Files, g # f PROVE Whole(g)'
    <3>1. Unharmed(g)
      BY <1>0, <2>1, <2>5 DEF Unharmed
    <3> QED BY <3>1, UnharmedWhole DEF CalmAll
  <2> QED BY <2>3, <2>4, <2>5 DEF CalmAll
<1>2. ASSUME NEW f \in Files, AddQueued(f) PROVE CalmAll'
  <2>1. /\ parse[f] = "absent" /\ parse' = [parse EXCEPT ![f] = "pending"]
        /\ request' = [request EXCEPT ![f] = "enqueue"]
        /\ UNCHANGED <<job, holder, pc, at, errors, runs, vectors>>
    BY <1>2 DEF AddQueued, queue, local, faults
  <2>2. NotAgain'
    BY <1>0, <2>1 DEF CalmAll, NotAgain
  <2>3. ASSUME NEW g \in Files PROVE Whole(g)'
    <3>1. CASE g = f
      BY <1>0, <2>1, <3>1 DEF Whole
    <3>2. CASE g # f
      BY <1>0, <2>1, <3>2, UnharmedWhole DEF CalmAll, Unharmed
    <3> QED BY <3>1, <3>2
  <2> QED BY <2>2, <2>3 DEF CalmAll
<1>3. ASSUME NEW r \in Rebuilds, RequestRebuild(r) PROVE CalmAll'
  <2>1. /\ UNCHANGED <<parse, job, holder, pc, at, errors, runs, vectors>>
        /\ \A f \in Files : request'[f] = request[f]
    BY <1>0, <1>3, IngestAssumption DEF RequestRebuild, queue, local, faults
  <2>2. NotAgain'
    BY <2>1 DEF CalmAll, NotAgain
  <2>3. \A f \in Files : Whole(f)'
    BY <2>1, UnharmedWhole DEF CalmAll, Unharmed
  <2> QED BY <2>2, <2>3 DEF CalmAll
<1> QED BY <1>1, <1>2, <1>3

LEMMA CalmStep ==
  ASSUME Inv, CalmInv, [Next]_vars
  PROVE  CalmInv'
<1>1. RunsOK'
  BY RunsStep DEF Inv, CalmInv
<1>2. ASSUME Calm' PROVE CalmAll'
  <2>1. Typed /\ Calm /\ \A w \in Workers : ~Die(w) /\ ~LoseLock(w)
    BY <1>2, StaysCalm DEF Inv
  <2>2. lost = 0
    BY <2>1, SumIsZero DEF Calm, Typed, TypeOK
  <2>3. Core /\ CalmAll /\ RunsOK
    BY <2>1, <2>2 DEF Inv, CalmInv, CalmAll
  <2>4. CASE UNCHANGED vars
    <3>1. UNCHANGED <<parse, runs, vectors, request, job, holder, pc, at, errors>>
      BY <2>4 DEF vars, tables, queue, local, faults
    <3>2. NotAgain' /\ \A f \in Files : Unharmed(f)
      BY <2>3, <3>1 DEF CalmAll, NotAgain, Unharmed
    <3> QED BY <2>3, <3>2, UnharmedWhole DEF CalmAll
  <2> QED BY <1>2, <2>1, <2>3, <2>4, CalmWork, CalmFail, CalmEnd, CalmQueue, CalmAsk
             DEF Next, Ask, Work
<1> QED BY <1>1, <1>2 DEF CalmInv, CalmAll

LEMMA CalmInit == Init => CalmInv
<1> SUFFICES ASSUME Init PROVE CalmInv
  OBVIOUS
<1>1. RunsOK /\ NotAgain /\ \A f \in Files : Whole(f)
  BY DEF Init, RunsOK, NotAgain, Whole, Before, Jobs
<1> QED BY <1>1 DEF CalmInv

-----------------------------------------------------------------------------
(* Queries.  Everything RagQuery does with files and jobs is a step of     *)
(* KnowledgeIngest.                                                        *)
LEMMA RagStep ==
  ASSUME RagNext
  PROVE  Next \/ UNCHANGED vars
<1>1. CASE Queueing
  BY <1>1 DEF Queueing, Next, Ask
<1>2. ASSUME NEW f \in Files, StoreInline(f) PROVE Next
  BY <1>2 DEF StoreInline, Next, Ask
<1>3. ASSUME NEW w \in Workers, StoreChunk(w) \/ StoreVector(w) \/ BeginRebuild(w) PROVE Next
  BY <1>3 DEF StoreChunk, StoreVector, BeginRebuild, Next, Work, Parse, Rebuild
<1>4. ASSUME NEW w \in Workers, Others(w) PROVE Next
  BY <1>4 DEF Others, Next, Work, Parse
<1>5. ASSUME NEW q \in Queries, Search(q) PROVE UNCHANGED vars
  BY <1>5 DEF Search, ragQuery, VectorSearch, VectorSearchFails, TextSearch
<1>6. ASSUME NEW x, NEW e, EmbedInline(x, e) \/ EmbedChunk(x, e) \/ ChangeRoute(x, e)
      PROVE  UNCHANGED vars
  BY <1>6 DEF EmbedInline, EmbedChunk, ChangeRoute
<1>7. CASE CreateApiKey \/ DisableApiKey \/ ExpireApiKey
  BY <1>7 DEF CreateApiKey, DisableApiKey, ExpireApiKey
<1> QED BY <1>1, <1>2, <1>3, <1>4, <1>5, <1>6, <1>7 DEF RagNext, Index

(* What queries search is an ingestion, so what was said of one holds.     *)
THEOREM RagIsIngest == RagSpec => Spec
<1>1. RagInit => Init
  BY DEF RagInit
<1>2. [RagNext]_<<vars, ragVars>> => [Next]_vars
  BY RagStep
<1> QED BY <1>1, <1>2, PTL DEF RagSpec, Spec

(* A search finds every chunk of a file that is marked as succeeded,       *)
(* unless somebody died or lost a lock, or two calls failed.               *)
LEMMA CalmLacksNothing ==
  ASSUME Typed, CalmInv, Calm
  PROVE  Lacking(vectors) = {} /\ Lacking(rows) = {}
<1>1. ASSUME NEW f \in Files, parse[f] = "succeeded"
      PROVE  \E n \in 0..runs[f] : FullRun(f, n) \subseteq vectors /\ FullRun(f, n) \subseteq rows
  <2>1. vectors \subseteq rows
    BY DEF Typed, TypeOK
  <2>2. Whole(f)
    BY DEF CalmInv
  <2> QED BY <1>1, <2>1, <2>2 DEF Whole
<1> QED BY <1>1 DEF Lacking

QueryRecords == [stage : {"idle", "refused", "vector", "text", "answered"}, lacks : SUBSET Files]

LEMMA WholeStep ==
  ASSUME Inv, CalmInv, AnswersAreWhole, query \in [Queries -> QueryRecords],
         [RagNext]_<<vars, ragVars>>
  PROVE  AnswersAreWhole'
<1>0. errors \in Nat /\ crashes \in Nat /\ lost \in Nat
  BY DEF Inv, Typed, TypeOK
<1>1. ~Calm <=> crashes + lost > 0 \/ errors > 1
  BY <1>0, SumIsZero DEF Calm
<1>2. ASSUME Calm' PROVE Calm
  BY <1>2, RagStep, StaysCalm DEF Inv
<1>3. Calm' \/ crashes' + lost' > 0 \/ errors' > 1
  <2>1. Inv'
    BY RagStep, NextInv
  <2>2. errors' \in Nat /\ crashes' \in Nat /\ lost' \in Nat
    BY <2>1 DEF Inv, Typed, TypeOK
  <2>3. crashes' + lost' = 0 \/ crashes' + lost' > 0
    BY <2>2, SumIsZero
  <2>4. errors' <= 1 \/ errors' > 1
    BY <2>2
  <2> QED BY <2>3, <2>4 DEF Calm
<1>4. ASSUME Calm', NEW q \in Queries PROVE query'[q].lacks = {}
  <2>1. query[q].lacks = {} /\ Lacking(vectors) = {} /\ Lacking(rows) = {}
    BY <1>1, <1>2, <1>4, CalmLacksNothing DEF Inv, AnswersAreWhole
  <2>2. ASSUME NEW p \in Queries, Search(p) PROVE query'[q].lacks = {}
    BY <2>1, <2>2 DEF Search, ragQuery, VectorSearch, VectorSearchFails, TextSearch, QueryRecords
  <2>3. CASE UNCHANGED query
    BY <2>1, <2>3
  <2>4. ASSUME NEW w \in Workers, StoreChunk(w) \/ StoreVector(w) \/ BeginRebuild(w) \/ Others(w)
        PROVE  UNCHANGED query
    BY <2>4 DEF StoreChunk, StoreVector, BeginRebuild, Others, ragVars
  <2>5. ASSUME NEW x, NEW e, EmbedInline(x, e) \/ EmbedChunk(x, e) \/ ChangeRoute(x, e)
        PROVE  UNCHANGED query
    BY <2>5 DEF EmbedInline, EmbedChunk, ChangeRoute
  <2>6. CASE CreateApiKey \/ DisableApiKey \/ ExpireApiKey \/ Queueing \/ UNCHANGED ragVars
    BY <2>1, <2>6 DEF CreateApiKey, DisableApiKey, ExpireApiKey, Queueing, ragVars
  <2>7. ASSUME NEW f \in Files, StoreInline(f) PROVE UNCHANGED query
    BY <2>7 DEF StoreInline
  <2> QED BY <2>2, <2>3, <2>4, <2>5, <2>6, <2>7 DEF RagNext, Index
<1> QED BY <1>3, <1>4 DEF AnswersAreWhole

-----------------------------------------------------------------------------
(* Types of what queries need: an embedding is in the hands of a worker    *)
(* only where it will be stored, and a rebuild that is through has no rows *)
(* left.                                                                   *)
ChunkRows == [file : Files, run : Nat, index : 1..Chunks]

Readings == [changes : 0..changes, fallbacks : 0..fallbacks, inHand : SUBSET ChunkRows]

HeldOK == \A w \in Workers : held[w] # NoEmbedding => pc[w] \in {"create", "vector", "update"}

TodoOK == \A w \in Workers : pc[w] = "markTask" /\ at[w] \in Rebuilds => todo[w] = {}

RagTyped == RagTypeOK /\ HeldOK /\ TodoOK

LEMMA TodoStep ==
  ASSUME Typed, TodoOK, [Next]_vars
  PROVE  TodoOK'
<1>0. /\ pc \in [Workers -> Steps] /\ at \in [Workers -> Jobs \cup {NoJob}]
      /\ todo \in [Workers -> SUBSET ChunkRows]
      /\ \A w \in Workers : pc[w] = "markFile" => at[w] \notin Rebuilds
  BY IngestAssumption DEF Typed, TypeOK, StandOK, ChunkRows
<1>1. ASSUME UNCHANGED <<at, todo>>,
             \A w \in Workers : pc'[w] = "markTask" =>
                                pc[w] = "markTask" \/ at[w] \notin Rebuilds
      PROVE  TodoOK'
  BY <1>1 DEF TodoOK
<1>2. ASSUME NEW w \in Workers, ReadChunks(w) PROVE TodoOK'
  BY <1>0, <1>2 DEF ReadChunks, TodoOK
<1>3. ASSUME NEW w \in Workers, UpdateChunk(w) PROVE TodoOK'
  BY <1>0, <1>3 DEF UpdateChunk, TodoOK
<1>4. ASSUME NEW w \in Workers, Free(w) PROVE TodoOK'
  BY <1>0, <1>4 DEF Free, TodoOK
<1>5. ASSUME NEW w \in Workers,
             MarkRunning(w) \/ Parse(w) \/ MarkTaskSucceeded(w) \/ MarkTaskFailed(w)
               \/ Fail(w) \/ FailUncaught(w)
      PROVE  TodoOK'
  BY <1>0, <1>1, <1>5 DEF MarkRunning, Parse, Load, DeleteChunks, CreateChunk, SetVector,
     MarkFileSucceeded, MarkFileFailed, MarkTaskSucceeded, MarkTaskFailed, Fail, FailUncaught
<1>6. ASSUME NEW w \in Workers, Return(w) \/ Throw(w) \/ Die(w) PROVE TodoOK'
  BY <1>4, <1>6 DEF Return, Throw, Die
<1>7. ASSUME NEW w \in Workers, NEW j \in Jobs, Take(w, j) PROVE TodoOK'
  BY <1>0, <1>7 DEF Take, TodoOK
<1>8. CASE UNCHANGED <<todo, at, pc>>
  BY <1>1, <1>8
<1>9. CASE Ask \/ (\E j \in Jobs : Enqueue(j) \/ Recover(j)) \/ (\E w \in Workers : LoseLock(w))
           \/ UNCHANGED vars
  BY <1>8, <1>9 DEF Ask, AddInline, AddQueued, RequestRebuild, EnqueueFails, Enqueue, Recover,
     LoseLock, local, vars
<1> QED BY <1>2, <1>3, <1>5, <1>6, <1>7, <1>9 DEF Next, Work, Rebuild

(* A step that is not one of a worker.                                     *)
LEMMA HeldAlike ==
  ASSUME HeldOK, pc' = pc, \A w \in Workers : held'[w] = held[w]
  PROVE  HeldOK'
BY DEF HeldOK

(* What a step leaves of the vectors keeps its embedding.                  *)
LEMMA SpaceAlike ==
  ASSUME space \in [vectors -> Embeddings], vectors' \subseteq vectors, space' = KeptSpace
  PROVE  space' \in [vectors' -> Embeddings]
BY DEF KeptSpace

LEMMA TypedChunks ==
  ASSUME Typed, RagTyped, NEW w \in Workers
  PROVE  InHand(w) \subseteq ChunkRows
<1>1. \A f \in Files : FullRun(f, 0) \subseteq ChunkRows
  BY DEF FullRun, Row, ChunkRows
<1>2. ASSUME NEW v \in Workers, held[v] # NoEmbedding, at[v] \in Files
      PROVE  Row(at[v], run[v], next[v]) \in ChunkRows
  <2>1. pc[v] \in {"create", "vector", "update"} /\ at[v] \notin Rebuilds
    BY <1>2, IngestAssumption DEF RagTyped, HeldOK
  <2>2. next[v] \in 1..Chunks /\ run[v] \in Nat
    BY <2>1 DEF Typed, TypeOK, StandOK
  <2> QED BY <1>2, <2>2 DEF Row, ChunkRows
<1>3. \A v \in Workers : todo[v] \subseteq ChunkRows
  BY DEF Typed, TypeOK, ChunkRows
<1> DEFINE holders == {v \in Workers \ {w} : held[v] # NoEmbedding}
           A == UNION {FullRun(f, 0) : f \in {g \in Files : held[g] # NoEmbedding}}
           B == {Row(at[v], run[v], next[v]) : v \in {u \in holders : at[u] \in Files}}
           C == UNION {todo[v] : v \in {u \in holders : at[u] \in Rebuilds}}
<1>4. A \subseteq ChunkRows
  BY <1>1
<1>5. B \subseteq ChunkRows
  BY <1>2
<1>6. C \subseteq ChunkRows
  BY <1>3
<1>7. InHand(w) = A \cup B \cup C
  BY DEF InHand
<1> HIDE DEF A, B, C
<1> QED BY <1>4, <1>5, <1>6, <1>7

LEMMA RagTypedIndex ==
  ASSUME Typed, RagTyped, Index
  PROVE  RagTypeOK' /\ HeldOK'
<1> USE RagAssumption DEF RagTyped, RagTypeOK
<1>0. /\ pc \in [Workers -> Steps] /\ vectors \subseteq rows
      /\ rows \subseteq ChunkRows /\ todo \in [Workers -> SUBSET ChunkRows]
  BY DEF Typed, TypeOK, ChunkRows
<1>1. CASE Queueing
  <2>1. vectors' = vectors /\ pc' = pc /\ UNCHANGED ragVars
    BY <1>1 DEF Queueing, AddQueued, RequestRebuild, EnqueueFails, Enqueue, Recover, local, tables
  <2> QED BY <2>1, HeldAlike DEF ragVars
<1>2. ASSUME NEW f \in Files, StoreInline(f) PROVE RagTypeOK' /\ HeldOK'
  <2>1. vectors' = vectors \cup FullRun(f, 0) /\ pc' = pc
    BY <1>2 DEF StoreInline, AddInline, local
  <2>2. held[f] \in Embeddings
    BY <1>2 DEF StoreInline
  <2>3. \A r \in vectors' : r.file = f \/ r \in vectors
    BY <2>1 DEF FullRun, Row
  <2>4. space' \in [vectors' -> Embeddings]
    BY <1>2, <2>2, <2>3 DEF StoreInline
  <2>5. held' \in [Workers \cup Files -> Embeddings \cup {NoEmbedding}]
        /\ \A w \in Workers : held'[w] = held[w]
    BY <1>2 DEF StoreInline
  <2> QED BY <1>2, <2>1, <2>4, <2>5, HeldAlike DEF StoreInline
<1>3. ASSUME NEW f \in Files, NEW e \in Embeddings, EmbedInline(f, e) PROVE RagTypeOK' /\ HeldOK'
  <2>1. vectors' = vectors /\ pc' = pc
    BY <1>3 DEF EmbedInline, vars, tables, local
  <2>2. held' \in [Workers \cup Files -> Embeddings \cup {NoEmbedding}]
        /\ \A w \in Workers : held'[w] = held[w]
    BY <1>3 DEF EmbedInline
  <2>3. fallbacks' \in Nat /\ 0..fallbacks \subseteq 0..fallbacks'
    BY <1>3 DEF EmbedInline, Embed
  <2> QED BY <1>3, <2>1, <2>2, <2>3, HeldAlike DEF EmbedInline
<1>4. ASSUME NEW w \in Workers, NEW e \in Embeddings, EmbedChunk(w, e) PROVE RagTypeOK' /\ HeldOK'
  <2>1. vectors' = vectors /\ pc' = pc /\ pc[w] \in {"create", "update"}
    BY <1>4 DEF EmbedChunk, vars, tables, local
  <2>2. held' \in [Workers \cup Files -> Embeddings \cup {NoEmbedding}]
        /\ \A v \in Workers \ {w} : held'[v] = held[v]
    BY <1>4 DEF EmbedChunk
  <2>3. fallbacks' \in Nat /\ 0..fallbacks \subseteq 0..fallbacks'
    BY <1>4 DEF EmbedChunk, Embed
  <2>4. HeldOK'
    BY <2>1, <2>2 DEF HeldOK
  <2> QED BY <1>4, <2>1, <2>2, <2>3, <2>4 DEF EmbedChunk
<1>5. ASSUME NEW w \in Workers, StoreChunk(w) PROVE RagTypeOK' /\ HeldOK'
  <2>1. vectors' = vectors /\ UNCHANGED ragVars /\ pc' = [pc EXCEPT ![w] = "vector"]
    BY <1>5 DEF StoreChunk, CreateChunk
  <2>2. HeldOK'
    BY <1>0, <2>1 DEF HeldOK, ragVars
  <2> QED BY <2>1, <2>2 DEF ragVars
<1>6. ASSUME NEW w \in Workers, StoreVector(w) PROVE RagTypeOK' /\ HeldOK'
  <2>1. held[w] \in Embeddings /\ held' = [held EXCEPT ![w] = NoEmbedding]
        /\ UNCHANGED <<route, key, query, reading, changes, fallbacks>>
    BY <1>6 DEF StoreVector
  <2>2. \A v \in Workers : v # w => pc'[v] = pc[v]
    BY <1>0, <1>6 DEF StoreVector, SetVector, UpdateChunk
  <2>3. HeldOK'
    BY <2>1, <2>2 DEF HeldOK
  <2>4. space' \in [vectors' -> Embeddings]
    <3>1. CASE SetVector(w) /\ space' = [r \in vectors' |->
                 IF r \in Present(Row(at[w], run[w], next[w])) THEN held[w] ELSE space[r]]
      <4>1. vectors' = vectors \cup Present(Row(at[w], run[w], next[w]))
        BY <3>1 DEF SetVector
      <4> QED BY <2>1, <3>1, <4>1
    <3>2. CASE UpdateChunk(w) /\ space' = [r \in vectors' |->
                 IF r \in todo[w] \ todo'[w] THEN held[w] ELSE space[r]]
      <4>1. \A r \in vectors' : r \in vectors \/ r \in todo[w] \ todo'[w]
        BY <1>0, <3>2 DEF UpdateChunk
      <4> QED BY <2>1, <3>2, <4>1
    <3> QED BY <1>6, <3>1, <3>2 DEF StoreVector
  <2> QED BY <2>1, <2>3, <2>4
<1>7. ASSUME NEW w \in Workers, BeginRebuild(w) PROVE RagTypeOK' /\ HeldOK'
  <2>1. pc[w] = "read" /\ vectors' = vectors /\ at[w] \in Rebuilds
        /\ \A v \in Workers : v # w => pc'[v] = pc[v]
    BY <1>0, <1>7 DEF BeginRebuild, ReadChunks, tables, Typed, StandOK
  <2>2. HeldOK'
    BY <1>7, <2>1 DEF BeginRebuild, HeldOK
  <2>3. [changes |-> changes, fallbacks |-> fallbacks, inHand |-> InHand(w)] \in Readings
    BY TypedChunks DEF Readings
  <2>4. reading' \in [Rebuilds -> Readings]
    BY <1>7, <2>1, <2>3 DEF BeginRebuild, Readings, ChunkRows
  <2> QED BY <1>7, <2>1, <2>2, <2>4 DEF BeginRebuild, Readings, ChunkRows
<1>8. ASSUME NEW w \in Workers, Others(w) PROVE RagTypeOK' /\ HeldOK'
  <2>1. vectors' \subseteq vectors
    BY <1>8 DEF Others, Take, MarkRunning, Load, DeleteChunks, MarkFileSucceeded, MarkFileFailed,
       MarkTaskSucceeded, MarkTaskFailed, Return, Throw, Fail, FailUncaught, Die, LoseLock, tables
  <2>2. \A v \in Workers : v # w => pc'[v] = pc[v]
    BY <1>0, <1>8 DEF Others, Take, MarkRunning, Load, DeleteChunks, MarkFileSucceeded, MarkFileFailed,
       MarkTaskSucceeded, MarkTaskFailed, Return, Throw, Fail, FailUncaught, Die, LoseLock, local, Free
  <2>3. held' = [held EXCEPT ![w] = IF pc'[w] = pc[w] THEN held[w] ELSE NoEmbedding]
        /\ space' = KeptSpace /\ UNCHANGED <<route, key, query, reading, changes, fallbacks>>
    BY <1>8 DEF Others
  <2>4. HeldOK' /\ held' \in [Workers \cup Files -> Embeddings \cup {NoEmbedding}]
    BY <2>2, <2>3 DEF HeldOK
  <2> QED BY <2>1, <2>3, <2>4, SpaceAlike
<1> QED BY <1>1, <1>2, <1>3, <1>4, <1>5, <1>6, <1>7, <1>8 DEF Index

LEMMA RagTypedStep ==
  ASSUME Typed, RagTyped, [RagNext]_<<vars, ragVars>>
  PROVE  RagTyped'
<1>1. TodoOK'
  BY RagStep, TodoStep DEF RagTyped
<1>2. ASSUME UNCHANGED <<space, held, reading, changes, fallbacks>>, UNCHANGED vars,
             route' \in [Scopes -> Embeddings \cup {NoRoute}],
             key' \in {"absent", "active", "disabled", "expired"},
             query' \in [Queries -> QueryRecords]
      PROVE  RagTypeOK' /\ HeldOK'
  <2>1. vectors' = vectors /\ pc' = pc
    BY <1>2 DEF vars, tables, local
  <2> QED BY <1>2, <2>1, HeldAlike DEF RagTyped, RagTypeOK, QueryRecords
<1>3. CASE CreateApiKey \/ DisableApiKey \/ ExpireApiKey \/ UNCHANGED <<vars, ragVars>>
  <2>1. UNCHANGED vars /\ UNCHANGED <<route, space, held, query, reading, changes, fallbacks>>
    BY <1>3 DEF CreateApiKey, DisableApiKey, ExpireApiKey, ragVars
  <2>2. key' \in {"absent", "active", "disabled", "expired"}
    BY <1>3 DEF CreateApiKey, DisableApiKey, ExpireApiKey, ragVars, RagTyped, RagTypeOK
  <2>3. query' \in [Queries -> QueryRecords] /\ route' \in [Scopes -> Embeddings \cup {NoRoute}]
    BY <2>1 DEF RagTyped, RagTypeOK, QueryRecords
  <2> QED BY <1>1, <1>2, <2>1, <2>2, <2>3 DEF RagTyped
<1>4. ASSUME NEW q \in Queries, Search(q) PROVE RagTypeOK' /\ HeldOK'
  <2>1. Lacking(vectors) \in SUBSET Files /\ Lacking(rows) \in SUBSET Files
    BY DEF Lacking
  <2>2. query \in [Queries -> QueryRecords]
    BY DEF RagTyped, RagTypeOK, QueryRecords
  <2>3. query' \in [Queries -> QueryRecords]
    <3>1. CASE ragQuery(q)
      BY <2>2, <3>1 DEF ragQuery, QueryRecords
    <3>2. CASE VectorSearch(q)
      BY <2>1, <2>2, <3>2 DEF VectorSearch, QueryRecords
    <3>3. CASE VectorSearchFails(q)
      BY <2>2, <3>3 DEF VectorSearchFails, QueryRecords
    <3>4. CASE TextSearch(q)
      BY <2>1, <2>2, <3>4 DEF TextSearch, QueryRecords
    <3> QED BY <1>4, <3>1, <3>2, <3>3, <3>4 DEF Search
  <2> QED BY <1>2, <1>4, <2>3 DEF Search, ragQuery, VectorSearch, VectorSearchFails, TextSearch,
             RagTyped, RagTypeOK
<1>5. ASSUME NEW s \in Scopes, NEW e \in Embeddings \cup {NoRoute}, ChangeRoute(s, e)
      PROVE  RagTypeOK' /\ HeldOK'
  <2>1. vectors' = vectors /\ pc' = pc
    BY <1>5 DEF ChangeRoute, vars, tables, local
  <2>2. changes' \in Nat /\ 0..changes \subseteq 0..changes'
    BY <1>5 DEF ChangeRoute, RagTyped, RagTypeOK
  <2>3. route' \in [Scopes -> Embeddings \cup {NoRoute}]
    BY <1>5 DEF ChangeRoute, RagTyped, RagTypeOK
  <2>4. UNCHANGED <<key, space, held, query, reading, fallbacks>>
    BY <1>5 DEF ChangeRoute
  <2> QED BY <2>1, <2>2, <2>3, <2>4, HeldAlike DEF RagTyped, RagTypeOK
<1> QED BY <1>1, <1>3, <1>4, <1>5, RagTypedIndex DEF RagNext, RagTyped

LEMMA RagTypedInit == RagInit => RagTyped
<1> SUFFICES ASSUME RagInit PROVE RagTyped
  OBVIOUS
<1>1. RagTypeOK
  BY DEF RagInit, Init, RagTypeOK, Unread
<1> QED BY <1>1 DEF RagInit, Init, RagTyped, HeldOK, TodoOK

(* Routes, keys, vectors and queries keep their types.                     *)
THEOREM RagTypeCorrect == RagSpec => []RagTypeOK
<1>1. RagTyped => RagTypeOK
  BY DEF RagTyped
<1>2. Spec => []Typed
  BY InitTyped, NextTyped, PTL DEF Spec
<1> QED BY <1>1, <1>2, RagIsIngest, RagTypedInit, RagTypedStep, PTL DEF RagSpec

(* A search sees every chunk of a file that is marked as succeeded, unless *)
(* somebody died or lost a lock, or two calls failed.                      *)
THEOREM AnswersHaveAll == RagSpec => []AnswersAreWhole
<1>1. Spec => [](Inv /\ CalmInv)
  BY InitInv, NextInv, CalmInit, CalmStep, PTL DEF Spec
<1>2. RagInit => AnswersAreWhole
  BY DEF RagInit, AnswersAreWhole
<1>3. RagTypeOK => query \in [Queries -> QueryRecords]
  BY DEF RagTypeOK, QueryRecords
<1> QED BY <1>1, <1>2, <1>3, RagIsIngest, RagTypeCorrect, WholeStep, PTL DEF RagSpec

-----------------------------------------------------------------------------
(* Vectors of one embedding.  While no route changes and every embedding   *)
(* is answered since a rebuild read the chunks, what is held is of the     *)
(* present embedding, or was in other hands when the rebuild read ...      *)
Fresh(j) == reading[j].changes = changes /\ reading[j].fallbacks = fallbacks

Aim(x) == IF x \in Files THEN FullRun(x, 0)
          ELSE IF at[x] \in Files THEN {Row(at[x], run[x], next[x])} ELSE todo[x]

HandsOK(j) ==
  \A x \in Workers \cup Files :
    held[x] # NoEmbedding => held[x] = Embedding \/ Aim(x) \subseteq reading[j].inHand

(* ... and so is every vector but those that the rebuild has yet to reach. *)
RefreshOK(j) ==
  \A w \in Workers : at[w] = j /\ pc[w] \in {"update", "markTask"} =>
    \A r \in vectors \ reading[j].inHand : r \in todo[w] \/ space[r] = Embedding

RebuiltOK(j) ==
  task[j] = "succeeded" => \A r \in vectors \ reading[j].inHand : space[r] = Embedding

CompOK(j) == Fresh(j) => HandsOK(j) /\ RefreshOK(j) /\ RebuiltOK(j)

CompInv == lost = 0 => \A j \in Rebuilds : CompOK(j)

LEMMA SameEmbedding == ASSUME UNCHANGED route PROVE Embedding' = Embedding
BY DEF Embedding

(* What a step may do to all that without breaking it: to what is held ... *)
HandsKept ==
  \A x \in Workers \cup Files :
    held'[x] # NoEmbedding => held'[x] = Embedding \/ (held'[x] = held[x] /\ Aim(x)' = Aim(x))

(* ... to the vectors ...                                                  *)
VectorsKept(j) ==
  \A r \in vectors' : \/ r \in vectors /\ space'[r] = space[r]
                      \/ space'[r] = Embedding \/ r \in reading[j].inHand

(* ... to what is to be refreshed, and to the status of the rebuild.       *)
RefreshKept(j) ==
  \A w \in Workers : at'[w] = j /\ pc'[w] \in {"update", "markTask"} =>
    /\ at[w] = j /\ pc[w] \in {"update", "markTask"}
    /\ \A r \in todo[w] \ todo'[w] : r \in reading[j].inHand \/ (r \in vectors' => space'[r] = Embedding)

DoneKept(j) ==
  task'[j] = "succeeded" =>
    \/ task[j] = "succeeded"
    \/ \E w \in Workers : at[w] = j /\ pc[w] = "markTask" /\ todo[w] = {}

LEMMA CompAlike ==
  ASSUME NEW j \in Rebuilds, HandsOK(j), RefreshOK(j), RebuiltOK(j),
         UNCHANGED route, reading'[j] = reading[j],
         HandsKept, VectorsKept(j), RefreshKept(j), DoneKept(j)
  PROVE  CompOK(j)'
<1>0. Embedding' = Embedding
  BY SameEmbedding
<1>1. HandsOK(j)'
  BY <1>0 DEF HandsOK, HandsKept
<1>2. RefreshOK(j)'
  <2> SUFFICES ASSUME NEW w \in Workers, at'[w] = j, pc'[w] \in {"update", "markTask"},
                      NEW r \in vectors', r \notin reading[j].inHand, r \notin todo'[w]
               PROVE  space'[r] = Embedding
    BY <1>0 DEF RefreshOK
  <2>1. at[w] = j /\ pc[w] \in {"update", "markTask"} /\ (r \in todo[w] => space'[r] = Embedding)
    BY DEF RefreshKept
  <2> QED BY <2>1 DEF RefreshOK, VectorsKept
<1>3. RebuiltOK(j)'
  <2> SUFFICES ASSUME task'[j] = "succeeded", NEW r \in vectors', r \notin reading[j].inHand
               PROVE  space'[r] = Embedding
    BY <1>0 DEF RebuiltOK
  <2>1. r \in vectors => space[r] = Embedding
    BY DEF DoneKept, RebuiltOK, RefreshOK
  <2> QED BY <2>1 DEF VectorsKept
<1> QED BY <1>1, <1>2, <1>3 DEF CompOK

(* The rows an embedding is for change only with its worker's place.       *)
LEMMA AimAlike ==
  ASSUME NEW x, x \in Files \/ (at'[x] = at[x] /\ run'[x] = run[x] /\ next'[x] = next[x]
                               /\ todo'[x] = todo[x])
  PROVE  Aim(x)' = Aim(x)
BY DEF Aim, FullRun

LEMMA FreshAlike ==
  ASSUME NEW j \in Rebuilds, CompOK(j), UNCHANGED <<changes, fallbacks>>,
         reading'[j] = reading[j], UNCHANGED route,
         HandsOK(j) /\ RefreshOK(j) /\ RebuiltOK(j) =>
            HandsKept /\ VectorsKept(j) /\ RefreshKept(j) /\ DoneKept(j)
  PROVE  CompOK(j)'
<1>1. CASE Fresh(j)
  BY <1>1, CompAlike DEF CompOK
<1>2. CASE ~ Fresh(j)
  BY <1>2 DEF Fresh, CompOK
<1> QED BY <1>1, <1>2

LEMMA CompQueueing ==
  ASSUME Typed, RagTyped, NEW j \in Rebuilds, CompOK(j), Queueing
  PROVE  CompOK(j)'
<1>1. /\ UNCHANGED ragVars /\ UNCHANGED <<pc, at, run, next, todo>> /\ vectors' = vectors
      /\ task'[j] = "succeeded" => task[j] = "succeeded"
  BY IngestAssumption DEF Queueing, AddQueued, RequestRebuild, EnqueueFails, Enqueue, Recover, local,
     tables, Typed, TypeOK, Jobs
<1>2. UNCHANGED <<route, space, held, reading, changes, fallbacks>>
  BY <1>1 DEF ragVars
<1>3. \A x : Aim(x)' = Aim(x)
  BY <1>1, AimAlike
<1>4. HandsKept /\ VectorsKept(j) /\ RefreshKept(j) /\ DoneKept(j)
  BY <1>1, <1>2, <1>3 DEF HandsKept, VectorsKept, RefreshKept, DoneKept
<1> QED BY <1>2, <1>4, FreshAlike

(* Only somebody who holds an embedding stores a vector.                   *)
LEMMA CompStored ==
  ASSUME NEW j \in Rebuilds, HandsOK(j), NEW x \in Workers \cup Files, held[x] # NoEmbedding,
         \A r \in vectors' : \/ r \in Aim(x) /\ space'[r] = held[x]
                             \/ r \in vectors /\ space'[r] = space[r]
  PROVE  VectorsKept(j)
BY DEF HandsOK, VectorsKept

LEMMA CompInline ==
  ASSUME Typed, RagTyped, NEW j \in Rebuilds, CompOK(j), NEW f \in Files, StoreInline(f), Core
  PROVE  CompOK(j)'
<1>1. /\ UNCHANGED <<route, reading, changes, fallbacks>>
      /\ UNCHANGED <<pc, at, run, next, todo>> /\ task' = task
      /\ vectors' = vectors \cup FullRun(f, 0)
      /\ space' = [r \in vectors' |-> IF r.file = f THEN held[f] ELSE space[r]]
      /\ held' = [held EXCEPT ![f] = NoEmbedding] /\ held[f] # NoEmbedding
      /\ parse[f] = "absent"
  BY DEF StoreInline, AddInline, local
<1>2. \A x : Aim(x)' = Aim(x)
  BY <1>1, AimAlike
<1>3. held \in [Workers \cup Files -> Embeddings \cup {NoEmbedding}]
  BY DEF RagTyped, RagTypeOK
<1>4. HandsKept
  BY <1>1, <1>2, <1>3 DEF HandsKept
<1>5. \A r \in vectors : r.file # f
  BY <1>1 DEF Core, OrderOK, RowsOf, Typed, TypeOK
<1>6. \A r \in FullRun(f, 0) : r.file = f
  BY DEF FullRun, Row
<1>7. \A r \in vectors' : \/ r \in Aim(f) /\ space'[r] = held[f]
                          \/ r \in vectors /\ space'[r] = space[r]
  BY <1>1, <1>5, <1>6 DEF Aim
<1>8. HandsOK(j) => VectorsKept(j)
  BY <1>1, <1>7, CompStored
<1>9. RefreshKept(j) /\ DoneKept(j)
  BY <1>1 DEF RefreshKept, DoneKept
<1> QED BY <1>1, <1>4, <1>8, <1>9, FreshAlike

(* An embedding the provider failed to make is seen by every rebuild.      *)
LEMMA CompEmbed ==
  ASSUME Typed, RagTyped, NEW j \in Rebuilds, CompOK(j), NEW x \in Workers \cup Files,
         NEW e \in Embeddings, Embed(e), held' = [held EXCEPT ![x] = e],
         UNCHANGED <<vars, route, key, space, query, reading, changes>>
  PROVE  CompOK(j)'
<1>1. UNCHANGED <<pc, at, run, next, todo>> /\ UNCHANGED <<task, vectors>>
  BY DEF vars, tables, local
<1>2. \A y : Aim(y)' = Aim(y)
  BY <1>1, AimAlike
<1>3. held \in [Workers \cup Files -> Embeddings \cup {NoEmbedding}]
  BY DEF RagTyped, RagTypeOK
<1>4. CASE e = Embedding /\ UNCHANGED fallbacks
  <2>1. HandsKept
    BY <1>2, <1>3, <1>4 DEF HandsKept
  <2>2. VectorsKept(j) /\ RefreshKept(j) /\ DoneKept(j)
    BY <1>1 DEF VectorsKept, RefreshKept, DoneKept
  <2> QED BY <1>4, <2>1, <2>2, FreshAlike
<1>5. CASE fallbacks' = fallbacks + 1
  <2>1. reading[j].fallbacks \in 0..fallbacks /\ fallbacks \in Nat
    BY DEF RagTyped, RagTypeOK
  <2>2. ~ Fresh(j)'
    BY <1>5, <2>1 DEF Fresh
  <2> QED BY <2>2 DEF CompOK
<1> QED BY <1>4, <1>5 DEF Embed

LEMMA CompStoreChunk ==
  ASSUME Typed, RagTyped, NEW j \in Rebuilds, CompOK(j), NEW w \in Workers, StoreChunk(w)
  PROVE  CompOK(j)'
<1>1. /\ UNCHANGED <<route, space, held, reading, changes, fallbacks>>
      /\ UNCHANGED <<at, run, next, todo>> /\ task' = task /\ vectors' = vectors
      /\ pc' = [pc EXCEPT ![w] = "vector"]
  BY DEF StoreChunk, CreateChunk, ragVars, Goto
<1>2. \A x : Aim(x)' = Aim(x)
  BY <1>1, AimAlike
<1>3. HandsKept /\ VectorsKept(j) /\ DoneKept(j)
  BY <1>1, <1>2 DEF HandsKept, VectorsKept, DoneKept
<1>4. RefreshKept(j)
  BY <1>1 DEF RefreshKept, Typed, TypeOK
<1> QED BY <1>1, <1>3, <1>4, FreshAlike

LEMMA CompStoreVector ==
  ASSUME Typed, RagTyped, NEW j \in Rebuilds, CompOK(j), NEW w \in Workers, StoreVector(w)
  PROVE  CompOK(j)'
<1>1. /\ UNCHANGED <<route, reading, changes, fallbacks>>
      /\ held' = [held EXCEPT ![w] = NoEmbedding] /\ held[w] # NoEmbedding
      /\ UNCHANGED <<at, run>> /\ task' = task
      /\ held \in [Workers \cup Files -> Embeddings \cup {NoEmbedding}]
      /\ w \notin Files
  BY RagAssumption DEF StoreVector, SetVector, UpdateChunk, RagTyped, RagTypeOK
<1>2. \A x \in Workers \ {w} : pc'[x] = pc[x] /\ next'[x] = next[x] /\ todo'[x] = todo[x]
  BY DEF StoreVector, SetVector, UpdateChunk, Goto, Typed, TypeOK
<1>3. \A x \in Workers \cup Files : x # w => Aim(x)' = Aim(x)
  BY <1>1, <1>2, AimAlike
<1>4. HandsKept /\ DoneKept(j)
  BY <1>1, <1>3 DEF HandsKept, DoneKept
<1>5. ASSUME HandsOK(j), SetVector(w),
             space' = [r \in vectors' |-> IF r \in Present(Row(at[w], run[w], next[w]))
                                          THEN held[w] ELSE space[r]]
      PROVE  VectorsKept(j) /\ RefreshKept(j)
  <2>1. pc[w] = "vector" /\ at[w] \in Files
    BY <1>5 DEF SetVector, Typed, StandOK
  <2>2. vectors' = vectors \cup Present(Row(at[w], run[w], next[w])) /\ todo' = todo
    BY <1>5 DEF SetVector
  <2>3. Present(Row(at[w], run[w], next[w])) \subseteq Aim(w)
    BY <1>1, <2>1 DEF Aim, Present
  <2>4. \A r \in vectors' : \/ r \in Aim(w) /\ space'[r] = held[w]
                            \/ r \in vectors /\ space'[r] = space[r]
    BY <1>5, <2>2, <2>3
  <2>5. VectorsKept(j)
    BY <1>1, <1>5, <2>4, CompStored
  <2>6. RefreshKept(j)
    BY <1>1, <1>2, <2>1, <2>2, IngestAssumption DEF RefreshKept
  <2> QED BY <2>5, <2>6
<1>6. ASSUME HandsOK(j), UpdateChunk(w),
             space' = [r \in vectors' |-> IF r \in todo[w] \ todo'[w] THEN held[w] ELSE space[r]]
      PROVE  VectorsKept(j) /\ RefreshKept(j)
  <2>1. pc[w] = "update" /\ at[w] \in Rebuilds /\ Aim(w) = todo[w]
    BY <1>1, <1>6, IngestAssumption DEF UpdateChunk, Typed, StandOK, Aim
  <2>2. \A r \in vectors' : r \in vectors \/ r \in todo[w] \ todo'[w]
    BY <1>6 DEF UpdateChunk, Typed, TypeOK
  <2>3. \A r \in vectors' : \/ r \in Aim(w) /\ space'[r] = held[w]
                            \/ r \in vectors /\ space'[r] = space[r]
    BY <1>6, <2>1, <2>2
  <2>4. VectorsKept(j)
    BY <1>1, <1>6, <2>3, CompStored
  <2>5. \A r \in todo[w] \ todo'[w] :
           r \in reading[j].inHand \/ (r \in vectors' => space'[r] = Embedding)
    BY <1>1, <1>6, <2>1 DEF HandsOK
  <2>6. RefreshKept(j)
    BY <1>1, <1>2, <2>1, <2>5 DEF RefreshKept
  <2> QED BY <2>4, <2>6
<1> QED BY <1>1, <1>4, <1>5, <1>6, FreshAlike DEF StoreVector

(* What was in other hands when the rebuild read is set down as such.      *)
LEMMA CompBeginRebuild ==
  ASSUME Typed, RagTyped, Core, NEW j \in Rebuilds, CompOK(j), NEW w \in Workers, BeginRebuild(w)
  PROVE  CompOK(j)'
<1>1. /\ UNCHANGED <<route, space, held, changes, fallbacks>>
      /\ reading' = [reading EXCEPT ![at[w]] = [changes |-> changes, fallbacks |-> fallbacks,
                                                inHand |-> InHand(w)]]
      /\ reading \in [Rebuilds -> Readings]
      /\ UNCHANGED <<at, run, next>> /\ task' = task /\ vectors' = vectors
      /\ todo' = [todo EXCEPT ![w] = rows]
      /\ pc[w] = "read" /\ at[w] \in Rebuilds
  BY DEF BeginRebuild, ReadChunks, tables, RagTyped, RagTypeOK, Readings, ChunkRows, Typed, StandOK
<1>2. /\ pc' = [pc EXCEPT ![w] = IF rows = {} THEN "markTask" ELSE "update"]
      /\ vectors \subseteq rows /\ todo'[w] = rows
      /\ \A v \in Workers \ {w} : pc'[v] = pc[v] /\ todo'[v] = todo[v]
  BY <1>1 DEF BeginRebuild, ReadChunks, Goto, Typed, TypeOK
<1>3. \A x \in Workers \cup Files : x # w => Aim(x)' = Aim(x)
  BY <1>1, <1>2, AimAlike
<1>4. held[w] = NoEmbedding
  BY <1>1 DEF RagTyped, HeldOK
<1>5. CASE at[w] = j
  <2>1. reading'[j].inHand = InHand(w)
    BY <1>1, <1>5
  <2>2. ASSUME NEW x \in Workers \cup Files, held[x] # NoEmbedding
        PROVE  Aim(x) \subseteq InHand(w)
    <3>1. CASE x \in Files
      BY <2>2, <3>1 DEF Aim, InHand
    <3>2. CASE x \notin Files
      <4>1. x \in Workers \ {w} /\ pc[x] \in {"create", "vector", "update"}
        BY <1>4, <2>2, <3>2 DEF RagTyped, HeldOK
      <4>2. at[x] \in Files \/ at[x] \in Rebuilds
        BY <4>1 DEF Typed, StandOK
      <4> QED BY <2>2, <3>2, <4>1, <4>2 DEF Aim, InHand
    <3> QED BY <3>1, <3>2
  <2>3. HandsOK(j)'
    <3> SUFFICES ASSUME NEW x \in Workers \cup Files, held'[x] # NoEmbedding
                 PROVE  Aim(x)' \subseteq reading'[j].inHand
      BY DEF HandsOK
    <3>1. held[x] # NoEmbedding /\ x # w
      BY <1>1, <1>4
    <3> QED BY <1>3, <2>1, <2>2, <3>1
  <2>4. RefreshOK(j)'
    <3> SUFFICES ASSUME NEW v \in Workers, at'[v] = j, pc'[v] \in {"update", "markTask"}
                 PROVE  vectors' \subseteq todo'[v]
      BY DEF RefreshOK
    <3>1. v = w
      BY <1>1, <1>2, <1>5, OwnJob DEF Core
    <3> QED BY <1>1, <1>2, <3>1
  <2>5. RebuiltOK(j)'
    BY <1>1, <1>5 DEF RebuiltOK, Core, WorkerOK, Tried
  <2> QED BY <2>3, <2>4, <2>5 DEF CompOK
<1>6. CASE at[w] # j
  <2>1. reading'[j] = reading[j]
    BY <1>1, <1>6
  <2>2. HandsKept
    BY <1>1, <1>3, <1>4 DEF HandsKept
  <2>3. VectorsKept(j) /\ DoneKept(j)
    BY <1>1 DEF VectorsKept, DoneKept
  <2>4. RefreshKept(j)
    BY <1>1, <1>2, <1>6 DEF RefreshKept
  <2> QED BY <1>1, <2>1, <2>2, <2>3, <2>4, FreshAlike
<1> QED BY <1>5, <1>6

(* A worker that keeps its lock moves on with every other step, and drops  *)
(* what it holds; only the last step of a rebuild says it succeeded.       *)
LEMMA CompOthers ==
  ASSUME Typed, RagTyped, NEW j \in Rebuilds, CompOK(j), NEW w \in Workers, Others(w), ~ LoseLock(w)
  PROVE  CompOK(j)'
<1>0. /\ pc \in [Workers -> Steps] /\ at \in [Workers -> Jobs \cup {NoJob}]
      /\ run \in [Workers -> Nat] /\ next \in [Workers -> 0..Chunks]
      /\ todo \in [Workers -> SUBSET ChunkRows]
      /\ task \in [Jobs -> {"absent", "pending", "running", "succeeded", "failed"}]
      /\ held \in [Workers \cup Files -> Embeddings \cup {NoEmbedding}]
      /\ w \notin Files
  BY RagAssumption DEF Typed, TypeOK, RagTyped, RagTypeOK, ChunkRows
<1>1. /\ UNCHANGED <<route, reading, changes, fallbacks>> /\ space' = KeptSpace
      /\ held' = [held EXCEPT ![w] = IF pc'[w] = pc[w] THEN held[w] ELSE NoEmbedding]
  BY DEF Others
<1>2. vectors' \subseteq vectors
  BY DEF Others, Take, MarkRunning, Load, DeleteChunks, MarkFileSucceeded, MarkFileFailed,
     MarkTaskSucceeded, MarkTaskFailed, Return, Throw, Fail, FailUncaught, Die, tables
<1>3. \A v \in Workers \ {w} : /\ pc'[v] = pc[v] /\ at'[v] = at[v] /\ run'[v] = run[v]
                              /\ next'[v] = next[v] /\ todo'[v] = todo[v]
  BY <1>0 DEF Others, Take, MarkRunning, Load, DeleteChunks, MarkFileSucceeded, MarkFileFailed,
     MarkTaskSucceeded, MarkTaskFailed, Return, Throw, Fail, FailUncaught, Die, Free, Goto
<1>4. pc'[w] # pc[w]
  BY <1>0 DEF Others, Take, MarkRunning, Load, DeleteChunks, MarkFileSucceeded, MarkFileFailed,
     MarkTaskSucceeded, MarkTaskFailed, Return, Throw, Fail, FailUncaught, Die, Free, Goto, Tried
<1>5. pc'[w] \notin {"update", "markTask"} \/ at'[w] \in Files
  BY <1>0, IngestAssumption DEF Others, Take, MarkRunning, Load, DeleteChunks, MarkFileSucceeded,
     MarkFileFailed, MarkTaskSucceeded, MarkTaskFailed, Return, Throw, Fail, FailUncaught, Die, Free,
     Goto, Tried, Typed, StandOK
<1>6. task'[j] = "succeeded" => task[j] = "succeeded" \/ (at[w] = j /\ pc[w] = "markTask")
  BY <1>0 DEF Others, Take, MarkRunning, Load, DeleteChunks, MarkFileSucceeded, MarkFileFailed,
     MarkTaskSucceeded, MarkTaskFailed, Return, Throw, Fail, FailUncaught, Die, tables, Jobs
<1>7. HandsKept
  <2>1. \A x \in Workers \cup Files : x # w => Aim(x)' = Aim(x)
    BY <1>3, AimAlike
  <2> QED BY <1>0, <1>1, <1>4, <2>1 DEF HandsKept
<1>8. VectorsKept(j)
  BY <1>1, <1>2 DEF VectorsKept, KeptSpace
<1>9. RefreshKept(j)
  BY <1>3, <1>5, IngestAssumption DEF RefreshKept
<1>10. DoneKept(j)
  BY <1>6 DEF DoneKept, RagTyped, TodoOK
<1> QED BY <1>1, <1>7, <1>8, <1>9, <1>10, FreshAlike

LEMMA CompRest ==
  ASSUME RagTyped, NEW j \in Rebuilds, CompOK(j), UNCHANGED vars,
         UNCHANGED <<route, space, held, reading, changes, fallbacks>>
  PROVE  CompOK(j)'
<1>1. UNCHANGED <<pc, at, run, next, todo>> /\ UNCHANGED <<task, vectors>>
  BY DEF vars, tables, local
<1>2. \A x : Aim(x)' = Aim(x)
  BY <1>1, AimAlike
<1>3. HandsKept /\ VectorsKept(j) /\ RefreshKept(j) /\ DoneKept(j)
  BY <1>1, <1>2 DEF HandsKept, VectorsKept, RefreshKept, DoneKept
<1> QED BY <1>3, FreshAlike

LEMMA CompStep ==
  ASSUME Typed, lost = 0 => Core, RagTyped, CompInv, [RagNext]_<<vars, ragVars>>
  PROVE  CompInv'
<1> SUFFICES ASSUME lost' = 0, NEW j \in Rebuilds PROVE CompOK(j)'
  BY DEF CompInv
<1>1. lost = 0
  <2>1. Next \/ UNCHANGED vars
    BY RagStep DEF ragVars
  <2>2. lost' = lost \/ lost' = lost + 1
    BY <2>1 DEF Next, Ask, AddInline, AddQueued, RequestRebuild, EnqueueFails, Enqueue, Recover, Take,
       Work, Parse, Rebuild, MarkRunning, Load, DeleteChunks, CreateChunk, SetVector,
       MarkFileSucceeded, MarkFileFailed, ReadChunks, UpdateChunk, MarkTaskSucceeded, MarkTaskFailed,
       Return, Throw, Fail, FailUncaught, Die, LoseLock, vars, faults
  <2> QED BY <2>2 DEF Typed, TypeOK
<1>2. Core /\ CompOK(j)
  BY <1>1 DEF CompInv
<1>3. CASE Queueing
  BY <1>2, <1>3, CompQueueing
<1>4. ASSUME NEW f \in Files, StoreInline(f) PROVE CompOK(j)'
  BY <1>2, <1>4, CompInline
<1>5. ASSUME NEW f \in Files, NEW e \in Embeddings, EmbedInline(f, e) PROVE CompOK(j)'
  <2>1. Embed(e) /\ held' = [held EXCEPT ![f] = e]
        /\ UNCHANGED <<vars, route, key, space, query, reading, changes>>
    BY <1>5 DEF EmbedInline
  <2> QED BY <1>2, <2>1, CompEmbed
<1>6. ASSUME NEW w \in Workers, NEW e \in Embeddings, EmbedChunk(w, e) PROVE CompOK(j)'
  <2>1. Embed(e) /\ held' = [held EXCEPT ![w] = e]
        /\ UNCHANGED <<vars, route, key, space, query, reading, changes>>
    BY <1>6 DEF EmbedChunk
  <2> QED BY <1>2, <2>1, CompEmbed
<1>7. ASSUME NEW w \in Workers, StoreChunk(w) PROVE CompOK(j)'
  BY <1>2, <1>7, CompStoreChunk
<1>8. ASSUME NEW w \in Workers, StoreVector(w) PROVE CompOK(j)'
  BY <1>2, <1>8, CompStoreVector
<1>9. ASSUME NEW w \in Workers, BeginRebuild(w) PROVE CompOK(j)'
  BY <1>2, <1>9, CompBeginRebuild
<1>10. ASSUME NEW w \in Workers, Others(w) PROVE CompOK(j)'
  <2>1. ~ LoseLock(w)
    BY <1>1 DEF LoseLock
  <2> QED BY <1>2, <1>10, <2>1, CompOthers
<1>11. ASSUME NEW q \in Queries, Search(q) PROVE CompOK(j)'
  <2>1. UNCHANGED <<vars, route, space, held, reading, changes, fallbacks>>
    BY <1>11 DEF Search, ragQuery, VectorSearch, VectorSearchFails, TextSearch
  <2> QED BY <1>2, <2>1, CompRest
<1>12. CASE CreateApiKey \/ DisableApiKey \/ ExpireApiKey \/ UNCHANGED <<vars, ragVars>>
  <2>1. UNCHANGED <<vars, route, space, held, reading, changes, fallbacks>>
    BY <1>12 DEF CreateApiKey, DisableApiKey, ExpireApiKey, ragVars
  <2> QED BY <1>2, <2>1, CompRest
<1>13. ASSUME NEW s \in Scopes, NEW e \in Embeddings \cup {NoRoute}, ChangeRoute(s, e)
       PROVE  CompOK(j)'
  <2>1. changes' = changes + 1 /\ reading' = reading
    BY <1>13 DEF ChangeRoute
  <2>2. reading[j].changes \in 0..changes /\ changes \in Nat
    BY DEF RagTyped, RagTypeOK
  <2>3. ~ Fresh(j)'
    BY <2>1, <2>2 DEF Fresh
  <2> QED BY <2>3 DEF CompOK
<1> QED BY <1>3, <1>4, <1>5, <1>6, <1>7, <1>8, <1>9, <1>10, <1>11, <1>12, <1>13 DEF RagNext, Index

LEMMA CompInit == RagInit => CompInv
<1> SUFFICES ASSUME RagInit PROVE CompInv
  OBVIOUS
<1>1. /\ held = [x \in Workers \cup Files |-> NoEmbedding] /\ vectors = {}
      /\ \A w \in Workers : pc[w] = "idle"
  BY DEF RagInit, Init
<1> QED BY <1>1 DEF CompInv, CompOK, HandsOK, RefreshOK, RebuiltOK

(* Once a rebuild has succeeded, and while nothing has changed since it    *)
(* read the chunks, all vectors are of the present embedding but for those *)
(* that were in other hands then.                                          *)
THEOREM RebuildsMakeComparable == RagSpec => []RebuiltIsComparable
<1>1. CompInv => RebuiltIsComparable
  BY DEF CompInv, CompOK, Fresh, RebuiltOK, RebuiltIsComparable
<1>2. Inv => Typed /\ (lost = 0 => Core)
  BY DEF Inv
<1>3. Spec => []Inv
  BY InitInv, NextInv, PTL DEF Spec
<1> QED BY <1>1, <1>2, <1>3, RagIsIngest, RagTypedInit, RagTypedStep, CompInit, CompStep, PTL DEF RagSpec

=============================================================================
