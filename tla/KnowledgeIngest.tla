--------------------------- MODULE KnowledgeIngest ---------------------------
(***************************************************************************)
(* Files of one knowledge base: addFile stores inline chunks at once, or   *)
(* stores the file and a task and then adds a job to the queue; workers of *)
(* the queue parse files (parseQueuedFile) and refresh the embeddings of   *)
(* the base (rebuildQueuedIndex).  Each statement of a worker is a         *)
(* database call of its own, and any of them may fail; a worker may die,   *)
(* or lose the lock on its job and go on beside another worker.            *)
(*                                                                         *)
(* The queue (BullMQ on Redis) is external: an attempt that throws is      *)
(* retried until the attempts are used up, and a job whose worker let its  *)
(* lock expire is handed out again once, and fails the second time.        *)
(***************************************************************************)
EXTENDS Integers, FiniteSets

CONSTANTS
  Files,       \* files that may be added
  Rebuilds,    \* rebuild requests that may be made
  Workers,     \* jobs the queue hands out at once
  Chunks,      \* how many chunks a file is split into
  Attempts,    \* KNOWLEDGE_QUEUE_ATTEMPTS
  NoJob, NoWorker,
  MaxErrors,   \* bound: calls that fail
  MaxCrashes,  \* bound: workers that die
  MaxLost      \* bound: locks lost by a living worker

Jobs == Files \cup Rebuilds

ASSUME IngestAssumption ==
  /\ Files \cap Rebuilds = {} /\ NoJob \notin Jobs /\ NoWorker \notin Workers
  /\ IsFiniteSet(Workers)
  /\ Chunks \in Nat \ {0} /\ Attempts \in Nat \ {0}
  /\ MaxErrors \in Nat /\ MaxCrashes \in Nat /\ MaxLost \in Nat

VARIABLES
  parse,    \* knowledge_files.parse_status
  task,     \* tasks.status
  request,  \* how far the request that makes a job is
  job,      \* the job in the queue
  left,     \* attempts it has left
  stalled,  \* whether its lock expired before
  holder,   \* the worker that holds its lock
  rows,     \* knowledge_chunks: the file, the run that wrote it, the index
  vectors,  \* the rows that have an embedding_vector
  runs,     \* how many runs replaced the chunks of a file
  pc,       \* where a worker stands
  at,       \* its job
  run,      \* parsing: which run this is
  next,     \* parsing: the index of the next chunk
  todo,     \* rebuilding: the rows it has yet to refresh
  errors, crashes, lost

tables == <<parse, task, rows, vectors, runs>>
queue  == <<job, left, stalled, holder>>
local  == <<pc, at, run, next, todo>>
faults == <<errors, crashes, lost>>
vars   == <<tables, request, queue, local, faults>>

Goto(w, l) == pc' = [pc EXCEPT ![w] = l]

Row(f, n, i)    == [file |-> f, run |-> n, index |-> i]
RowsOf(f)       == {r \in rows : r.file = f}
FullRun(f, n)   == {Row(f, n, i) : i \in 1..Chunks}

-----------------------------------------------------------------------------
(* addFile with content or chunks: one transaction stores file and chunks. *)
AddInline(f) ==
  /\ parse[f] = "absent"
  /\ parse' = [parse EXCEPT ![f] = "succeeded"]
  /\ rows' = rows \cup FullRun(f, 0)
  /\ vectors' = vectors \cup FullRun(f, 0)
  /\ UNCHANGED <<task, runs, request, queue, local, faults>>

(* addFile without: one transaction stores the file and its task ...       *)
AddQueued(f) ==
  /\ parse[f] = "absent"
  /\ parse' = [parse EXCEPT ![f] = "pending"]
  /\ task' = [task EXCEPT ![f] = "pending"]
  /\ request' = [request EXCEPT ![f] = "enqueue"]
  /\ UNCHANGED <<rows, vectors, runs, queue, local, faults>>

(* enqueueRebuild stores a task ...                                        *)
RequestRebuild(r) ==
  /\ request[r] = "none"
  /\ task' = [task EXCEPT ![r] = "pending"]
  /\ request' = [request EXCEPT ![r] = "enqueue"]
  /\ UNCHANGED <<parse, rows, vectors, runs, queue, local, faults>>

(* ... and then the job is added to the queue, unless the queue does not   *)
(* answer or the server dies first.                                        *)
Enqueue(j) ==
  /\ request[j] = "enqueue"
  /\ request' = [request EXCEPT ![j] = "done"]
  /\ job' = [job EXCEPT ![j] = "waiting"]
  /\ left' = [left EXCEPT ![j] = Attempts]
  /\ UNCHANGED <<tables, stalled, holder, local, faults>>

EnqueueFails(j) ==
  /\ request[j] = "enqueue"
  /\ errors < MaxErrors
  /\ errors' = errors + 1
  /\ request' = [request EXCEPT ![j] = "failed"]
  /\ UNCHANGED <<tables, queue, local, crashes, lost>>

-----------------------------------------------------------------------------
(* The queue hands a job to a free worker.                                 *)
Take(w, j) ==
  /\ pc[w] = "idle"
  /\ job[j] = "waiting"
  /\ job' = [job EXCEPT ![j] = "active"]
  /\ holder' = [holder EXCEPT ![j] = w]
  /\ at' = [at EXCEPT ![w] = j]
  /\ Goto(w, "start")
  /\ UNCHANGED <<tables, request, left, stalled, run, next, todo, faults>>

(* markTaskRunning *)
MarkRunning(w) ==
  /\ pc[w] = "start"
  /\ task' = [task EXCEPT ![at[w]] = "running"]
  /\ Goto(w, IF at[w] \in Files THEN "load" ELSE "read")
  /\ UNCHANGED <<parse, rows, vectors, runs, request, queue, at, run, next, todo, faults>>

(* The file's text is fetched, parsed and split, each within a timeout;    *)
(* the variant is a call without one, to a server that does not answer ... *)
SlipLoad(w) == FALSE

Load(w) ==
  /\ pc[w] = "load"
  /\ Goto(w, "delete")
  /\ UNCHANGED <<tables, request, queue, at, run, next, todo, faults>>

(* ... replaceChunks deletes the chunks of the file ...                    *)
SlipDeleteChunks(w) ==
  /\ pc[w] = "delete"
  /\ runs' = [runs EXCEPT ![at[w]] = @ + 1]
  /\ run' = [run EXCEPT ![w] = runs[at[w]] + 1]
  /\ next' = [next EXCEPT ![w] = 1]
  /\ Goto(w, "create")
  /\ UNCHANGED <<parse, task, rows, vectors, request, queue, at, todo, faults>>

DeleteChunks(w) ==
  /\ pc[w] = "delete"
  /\ rows' = rows \ RowsOf(at[w])
  /\ vectors' = vectors \ RowsOf(at[w])
  /\ runs' = [runs EXCEPT ![at[w]] = @ + 1]
  /\ run' = [run EXCEPT ![w] = runs[at[w]] + 1]
  /\ next' = [next EXCEPT ![w] = 1]
  /\ Goto(w, "create")
  /\ UNCHANGED <<parse, task, request, queue, at, todo, faults>>

(* ... and embeds and stores the new ones, one by one, each first without  *)
(* its vector ...                                                          *)
CreateChunk(w) ==
  /\ pc[w] = "create"
  /\ rows' = rows \cup {Row(at[w], run[w], next[w])}
  /\ Goto(w, "vector")
  /\ UNCHANGED <<parse, task, vectors, runs, request, queue, at, run, next, todo, faults>>

(* ... which is then set by its id, if the row is still there.             *)
SlipPresent(r) == {r}

Present(r) == {r} \cap rows

SetVector(w) ==
  /\ pc[w] = "vector"
  /\ vectors' = vectors \cup Present(Row(at[w], run[w], next[w]))
  /\ IF next[w] < Chunks
     THEN /\ next' = [next EXCEPT ![w] = @ + 1]
          /\ Goto(w, "create")
     ELSE /\ Goto(w, "markFile")
          /\ UNCHANGED next
  /\ UNCHANGED <<parse, task, rows, runs, request, queue, at, run, todo, faults>>

SlipMarkFileSucceeded(w) ==
  /\ pc[w] = "markFile"
  /\ Goto(w, "markTask")
  /\ UNCHANGED <<tables, request, queue, at, run, next, todo, faults>>

MarkFileSucceeded(w) ==
  /\ pc[w] = "markFile"
  /\ parse' = [parse EXCEPT ![at[w]] = "succeeded"]
  /\ Goto(w, "markTask")
  /\ UNCHANGED <<task, rows, vectors, runs, request, queue, at, run, next, todo, faults>>

(* markTaskSucceeded *)
MarkTaskSucceeded(w) ==
  /\ pc[w] = "markTask"
  /\ task' = [task EXCEPT ![at[w]] = "succeeded"]
  /\ Goto(w, "return")
  /\ UNCHANGED <<parse, rows, vectors, runs, request, queue, at, run, next, todo, faults>>

(* rebuildQueuedIndex reads the ids of all chunks of the base ...          *)
SlipReadChunks(w) ==
  /\ pc[w] = "read"
  /\ todo' = [todo EXCEPT ![w] = rows \ vectors]
  /\ Goto(w, IF rows \ vectors = {} THEN "markTask" ELSE "update")
  /\ UNCHANGED <<tables, request, queue, at, run, next, faults>>

ReadChunks(w) ==
  /\ pc[w] = "read"
  /\ todo' = [todo EXCEPT ![w] = rows]
  /\ Goto(w, IF rows = {} THEN "markTask" ELSE "update")
  /\ UNCHANGED <<tables, request, queue, at, run, next, faults>>

(* ... and updates them one by one: the embedding, which fails for a row   *)
(* that is gone, and the vector, which then changes nothing.               *)
UpdateChunk(w) ==
  /\ pc[w] = "update"
  /\ \E r \in todo[w] :
       IF r \in rows
       THEN /\ todo' = [todo EXCEPT ![w] = @ \ {r}]
            /\ vectors' = vectors \cup {r}
            /\ Goto(w, IF todo[w] = {r} THEN "markTask" ELSE "update")
       ELSE /\ Goto(w, "catchTask")
            /\ UNCHANGED <<todo, vectors>>
  /\ UNCHANGED <<parse, task, rows, runs, request, queue, at, run, next, faults>>

-----------------------------------------------------------------------------
Tried == {"load", "delete", "create", "vector", "markFile", "read", "update", "markTask"}

(* A call in the try block fails: a database or provider error, a timeout, *)
(* a file that is too large, empty or of an unsupported type.              *)
Fail(w) ==
  /\ pc[w] \in Tried
  /\ errors < MaxErrors
  /\ errors' = errors + 1
  /\ Goto(w, IF at[w] \in Files THEN "catchFile" ELSE "catchTask")
  /\ UNCHANGED <<tables, request, queue, at, run, next, todo, crashes, lost>>

(* The catch block marks the file, then the task, and throws again.        *)
SlipMarkFileFailed(w) ==
  /\ pc[w] = "catchFile"
  /\ Goto(w, "catchTask")
  /\ UNCHANGED <<tables, request, queue, at, run, next, todo, faults>>

MarkFileFailed(w) ==
  /\ pc[w] = "catchFile"
  /\ parse' = [parse EXCEPT ![at[w]] = "failed"]
  /\ Goto(w, "catchTask")
  /\ UNCHANGED <<task, rows, vectors, runs, request, queue, at, run, next, todo, faults>>

MarkTaskFailed(w) ==
  /\ pc[w] = "catchTask"
  /\ task' = [task EXCEPT ![at[w]] = "failed"]
  /\ Goto(w, "throw")
  /\ UNCHANGED <<parse, rows, vectors, runs, request, queue, at, run, next, todo, faults>>

(* markTaskRunning, or a call of the catch block, fails in its turn.       *)
FailUncaught(w) ==
  /\ pc[w] \in {"start", "catchFile", "catchTask"}
  /\ errors < MaxErrors
  /\ errors' = errors + 1
  /\ Goto(w, "throw")
  /\ UNCHANGED <<tables, request, queue, at, run, next, todo, crashes, lost>>

(* The worker is free, and its local variables are gone.                   *)
Free(w) ==
  /\ Goto(w, "idle")
  /\ at' = [at EXCEPT ![w] = NoJob]
  /\ run' = [run EXCEPT ![w] = 0]
  /\ next' = [next EXCEPT ![w] = 0]
  /\ todo' = [todo EXCEPT ![w] = {}]

Holds(w) == holder[at[w]] = w

(* The queue completes the job, or retries it while attempts are left; a   *)
(* worker that lost its lock is not heard.                                 *)
Return(w) ==
  /\ pc[w] = "return"
  /\ IF Holds(w)
     THEN /\ job' = [job EXCEPT ![at[w]] = "done"]
          /\ holder' = [holder EXCEPT ![at[w]] = NoWorker]
     ELSE UNCHANGED <<job, holder>>
  /\ Free(w)
  /\ UNCHANGED <<tables, request, left, stalled, faults>>

Throw(w) ==
  /\ pc[w] = "throw"
  /\ IF Holds(w)
     THEN /\ left' = [left EXCEPT ![at[w]] = @ - 1]
          /\ job' = [job EXCEPT ![at[w]] = IF left[at[w]] > 1 THEN "waiting" ELSE "dead"]
          /\ holder' = [holder EXCEPT ![at[w]] = NoWorker]
     ELSE UNCHANGED <<left, job, holder>>
  /\ Free(w)
  /\ UNCHANGED <<tables, request, stalled, faults>>

(* A worker dies where it stands, or is so busy that its lock expires.     *)
LetGo(w) == holder' = [j \in Jobs |-> IF holder[j] = w THEN NoWorker ELSE holder[j]]

Die(w) ==
  /\ pc[w] # "idle"
  /\ crashes < MaxCrashes
  /\ crashes' = crashes + 1
  /\ LetGo(w)
  /\ Free(w)
  /\ UNCHANGED <<tables, request, job, left, stalled, errors, lost>>

LoseLock(w) ==
  /\ pc[w] # "idle"
  /\ Holds(w)
  /\ lost < MaxLost
  /\ lost' = lost + 1
  /\ LetGo(w)
  /\ UNCHANGED <<tables, request, job, left, stalled, local, errors, crashes>>

SlipRecover(j) ==
  /\ job[j] = "active"
  /\ holder[j] = NoWorker
  /\ job' = [job EXCEPT ![j] = "waiting"]
  /\ stalled' = [stalled EXCEPT ![j] = TRUE]
  /\ UNCHANGED <<tables, request, left, holder, local, faults>>

(* The queue finds an active job whose lock has expired.                   *)
Recover(j) ==
  /\ job[j] = "active"
  /\ holder[j] = NoWorker
  /\ job' = [job EXCEPT ![j] = IF stalled[j] THEN "dead" ELSE "waiting"]
  /\ stalled' = [stalled EXCEPT ![j] = TRUE]
  /\ UNCHANGED <<tables, request, left, holder, local, faults>>

-----------------------------------------------------------------------------
Init ==
  /\ parse   = [f \in Files |-> "absent"]
  /\ task    = [j \in Jobs |-> "absent"]
  /\ request = [j \in Jobs |-> "none"]
  /\ job     = [j \in Jobs |-> "none"]
  /\ left    = [j \in Jobs |-> 0]
  /\ stalled = [j \in Jobs |-> FALSE]
  /\ holder  = [j \in Jobs |-> NoWorker]
  /\ rows    = {}
  /\ vectors = {}
  /\ runs    = [f \in Files |-> 0]
  /\ pc      = [w \in Workers |-> "idle"]
  /\ at      = [w \in Workers |-> NoJob]
  /\ run     = [w \in Workers |-> 0]
  /\ next    = [w \in Workers |-> 0]
  /\ todo    = [w \in Workers |-> {}]
  /\ errors  = 0
  /\ crashes = 0
  /\ lost    = 0

Ask ==
  \/ \E f \in Files : AddInline(f) \/ AddQueued(f)
  \/ \E r \in Rebuilds : RequestRebuild(r)
  \/ \E j \in Jobs : EnqueueFails(j)

Parse(w) ==
  \/ Load(w) \/ DeleteChunks(w) \/ CreateChunk(w) \/ SetVector(w)
  \/ MarkFileSucceeded(w) \/ MarkFileFailed(w)

Rebuild(w) == ReadChunks(w) \/ UpdateChunk(w)

(* What a worker does of itself.                                           *)
Work(w) ==
  \/ MarkRunning(w) \/ Parse(w) \/ Rebuild(w)
  \/ MarkTaskSucceeded(w) \/ MarkTaskFailed(w)
  \/ Return(w) \/ Throw(w)

Next ==
  \/ Ask
  \/ \E j \in Jobs : Enqueue(j) \/ Recover(j)
  \/ \E w \in Workers :
        \/ \E j \in Jobs : Take(w, j)
        \/ Work(w)
        \/ Fail(w) \/ FailUncaught(w) \/ Die(w) \/ LoseLock(w)

Spec == Init /\ [][Next]_vars

(* A request and a worker go on; the queue hands out every waiting job and *)
(* looks for expired locks again and again; workers are restarted.         *)
Fairness ==
  /\ \A j \in Jobs :
       /\ WF_vars(Enqueue(j))
       /\ WF_vars(Recover(j))
       /\ WF_vars(\E w \in Workers : Take(w, j))
  /\ \A w \in Workers : WF_vars(Work(w))

FairSpec == Spec /\ Fairness

-----------------------------------------------------------------------------
Steps == {"idle", "start", "return", "catchFile", "catchTask", "throw"} \cup Tried

TypeOK ==
  /\ parse   \in [Files -> {"absent", "pending", "succeeded", "failed"}]
  /\ task    \in [Jobs -> {"absent", "pending", "running", "succeeded", "failed"}]
  /\ request \in [Jobs -> {"none", "enqueue", "done", "failed"}]
  /\ job     \in [Jobs -> {"none", "waiting", "active", "done", "dead"}]
  /\ left    \in [Jobs -> 0..Attempts]
  /\ stalled \in [Jobs -> BOOLEAN]
  /\ holder  \in [Jobs -> Workers \cup {NoWorker}]
  /\ rows    \subseteq [file : Files, run : Nat, index : 1..Chunks]
  /\ vectors \subseteq rows
  /\ runs    \in [Files -> Nat]
  /\ pc      \in [Workers -> Steps]
  /\ at      \in [Workers -> Jobs \cup {NoJob}]
  /\ run     \in [Workers -> Nat]
  /\ next    \in [Workers -> 0..Chunks]
  /\ todo    \in [Workers -> SUBSET [file : Files, run : Nat, index : 1..Chunks]]
  /\ errors \in Nat /\ crashes \in Nat /\ lost \in Nat

(* Every chunk of the file is there once, and can be searched.             *)
Complete(f) == \E n \in {r.run : r \in rows} : RowsOf(f) = FullRun(f, n) /\ FullRun(f, n) \subseteq vectors

(* The statuses a reader sees can be trusted, wherever a worker stands or  *)
(* died: an inline file and a file whose task succeeded have all their     *)
(* chunks, once each and with vectors; a file whose task failed is marked  *)
(* failed too.  Only a worker that goes on without its lock breaks this.   *)
TaskTellsFile ==
  lost = 0 =>
    \A f \in Files :
      /\ task[f] = "absent" /\ parse[f] # "absent" => parse[f] = "succeeded" /\ Complete(f)
      /\ task[f] = "succeeded" => parse[f] = "succeeded" /\ Complete(f)
      /\ task[f] = "failed" => parse[f] = "failed"

(* A job the queue counts as done has its task succeeded, whatever was     *)
(* retried or run again before.                                            *)
DoneIsSucceeded ==
  lost = 0 => \A j \in Jobs : job[j] = "done" => task[j] = "succeeded"

(* The statuses of files, tasks and jobs agree with what is stored and     *)
(* with each other, as long as no living worker loses its lock.            *)
StatusesAreTrue == TaskTellsFile /\ DoneIsSucceeded

(* However locks are lost and workers die, the chunks of a file are never  *)
(* replaced more often than the queue has attempts, and once more: a job   *)
(* that stalls is handed out again without using one up, but only once.    *)
RunsBounded == \A f \in Files : runs[f] <= Attempts + 1

(* A queued file is parsed in the end, or fails with its status saying so, *)
(* unless two calls or workers failed it.                                  *)
QueuedIsDecided ==
  \A f \in Files :
    job[f] = "waiting" ~> (parse[f] \in {"succeeded", "failed"} \/ errors + crashes + lost > 1)

(* Every job ends: the queue hands it out until it is done or dead.        *)
JobsEnd == \A j \in Jobs : job[j] = "waiting" ~> job[j] \in {"done", "dead"}

=============================================================================
