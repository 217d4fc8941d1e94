--------------------------- MODULE PromptPublishing ---------------------------
(***************************************************************************)
(* Prompts, their versions, publishing, and the version an AI call is      *)
(* given (AiCenterService).                                                *)
(*                                                                         *)
(* Publishing is one database transaction: it archives the versions of the *)
(* prompt, publishes one and makes it the prompt's current version.        *)
(* Postgres runs it READ COMMITTED: its first statement sees the versions  *)
(* that are there when it begins, waits for a transaction that has changed *)
(* one of them, and locks them until the commit; what it changes is seen   *)
(* by others after the commit.  Versions are also created, without a lock. *)
(*                                                                         *)
(* There is one app and one prompt key.  Prompts and versions are never    *)
(* deleted, and a prompt that exists is active: nothing makes it anything  *)
(* else.                                                                   *)
(***************************************************************************)
EXTENDS Naturals, FiniteSets

CONSTANTS
  Prompts,      \* the prompts that may be created
  Tenants,      \* tenants of the app
  ScopeOf,      \* a prompt's scope: a tenant, "app" or "global"
  Statuses,     \* the statuses a body may give a new version
  MaxVersion,   \* bound: the highest version number of a prompt
  Requests,     \* handlers of administrators' requests
  Calls,        \* handlers of AI calls
  NoPrompt      \* no prompt found

ASSUME PromptAssumption ==
  /\ ScopeOf \in [Prompts -> Tenants \cup {"app", "global"}]
  /\ Statuses \subseteq {"draft", "published", "archived"}
  /\ MaxVersion \in [Prompts -> Nat]
  /\ NoPrompt \notin Prompts
  /\ Tenants \cap {"app", "global"} = {}
  /\ Requests \cap Calls = {}

Numbers  == UNION {1..MaxVersion[p] : p \in Prompts}
Created  == {"draft", "published", "archived"}
Handlers == Requests \cup Calls

VARIABLES
  prompt,     \* whether a prompt exists
  current,    \* its currentVersion, 0 if null
  version,    \* the status of a version of a prompt
  late,       \* history: the versions created as published, or during a
              \* publication of their prompt
  pc,         \* where the handler of a request or a call stands
  job,        \* what a request works on: prompt, version and status
  rows,       \* the versions a publishing transaction archives
  call,       \* the prompt a call found, what it read of it and got
  overtaken   \* history: somebody committed since this call began

vars == <<prompt, current, version, late, pc, job, rows, call, overtaken>>

NoJob  == [prompt |-> NoPrompt, version |-> 0, status |-> "draft"]
NoCall == [prompt |-> NoPrompt, current |-> 0, got |-> 0]

VersionsOf(p)  == {v \in Numbers : version[p][v] # "absent"}
PublishedOf(p) == {v \in Numbers : version[p][v] = "published"}
Highest(S)     == IF S = {} THEN 0 ELSE CHOOSE v \in S : \A w \in S : w <= v

Goto(h, l) == pc' = [pc EXCEPT ![h] = l]

(* The step of h commits: calls that have begun are overtaken.             *)
Overtake == overtaken' = [c \in Calls |-> pc[c] # "idle"]

Leave(r) ==
  /\ Goto(r, "idle")
  /\ job'  = [job EXCEPT ![r] = NoJob]
  /\ rows' = [rows EXCEPT ![r] = {}]

-----------------------------------------------------------------------------
(* The unique key of prompts binds only rows that have a tenant.           *)
Taken(p) ==
  \E q \in Prompts : prompt[q] /\ ScopeOf[q] = ScopeOf[p] /\ ScopeOf[p] \in Tenants

(* createPrompt: without a version, but active from the beginning.         *)
CreatePrompt(p) ==
  /\ ~prompt[p] /\ ~Taken(p)
  /\ prompt' = [prompt EXCEPT ![p] = TRUE]
  /\ Overtake
  /\ UNCHANGED <<current, version, late, pc, job, rows, call>>

(* createPromptVersion with a number in the body, or with the next one.    *)
NumberVersion(r, p, v, s) ==
  /\ pc[r] = "idle"
  /\ prompt[p]
  /\ v = 0 => Highest(VersionsOf(p)) < MaxVersion[p]
  /\ job' = [job EXCEPT ![r] =
       [prompt |-> p, status |-> s,
        version |-> IF v = 0 THEN Highest(VersionsOf(p)) + 1 ELSE v]]
  /\ Goto(r, "insert")
  /\ UNCHANGED <<prompt, current, version, late, rows, call, overtaken>>

(* The requests that have begun to archive the versions of a prompt.       *)
Publishing(p) == {r \in Requests : pc[r] \in {"wait", "publish"} /\ job[r].prompt = p}

SlipIsFree(p, v) == TRUE

(* The unique key of versions.                                             *)
IsFree(p, v) == version[p][v] = "absent"

InsertVersion(r) ==
  LET p == job[r].prompt  v == job[r].version IN
  /\ pc[r] = "insert"
  /\ IsFree(p, v)
  /\ version' = [version EXCEPT ![p][v] = job[r].status]
  /\ late' = [late EXCEPT ![p] =
       IF job[r].status = "published" \/ Publishing(p) # {} THEN @ \cup {v} ELSE @]
  /\ Leave(r)
  /\ Overtake
  /\ UNCHANGED <<prompt, current, call>>

(* publishPrompt: the version has to exist.                                *)
FindVersion(r, p, v) ==
  /\ pc[r] = "idle"
  /\ prompt[p] /\ v \in VersionsOf(p)
  /\ job' = [job EXCEPT ![r] = [prompt |-> p, version |-> v, status |-> "published"]]
  /\ Goto(r, "archive")
  /\ UNCHANGED <<prompt, current, version, late, rows, call, overtaken>>

SlipToArchive(p)     == PublishedOf(p)
SlipArchivedScope(p) == UNION {VersionsOf(q) : q \in Prompts}

(* updateMany of all versions of the prompt.                               *)
ToArchive(p) == VersionsOf(p)

(* Its snapshot ...                                                        *)
BeginArchive(r) ==
  /\ pc[r] = "archive"
  /\ rows' = [rows EXCEPT ![r] = ToArchive(job[r].prompt)]
  /\ Goto(r, "wait")
  /\ UNCHANGED <<prompt, current, version, late, job, call, overtaken>>

(* ... and its locks, one of which another transaction may hold.           *)
Archive(r) ==
  /\ pc[r] = "wait"
  /\ \A q \in Requests \ {r} :
        pc[q] = "publish" /\ job[q].prompt = job[r].prompt => rows[q] \cap rows[r] = {}
  /\ Goto(r, "publish")
  /\ UNCHANGED <<prompt, current, version, late, job, rows, call, overtaken>>

Published(r, v) ==
  IF v = job[r].version THEN "published"
  ELSE IF v \in rows[r] THEN "archived"
  ELSE version[job[r].prompt][v]

(* The updates of the version and of the prompt, and the commit.           *)
Publish(r) ==
  LET p == job[r].prompt IN
  /\ pc[r] = "publish"
  /\ version' = [version EXCEPT ![p] = [v \in Numbers |-> Published(r, v)]]
  /\ current' = [current EXCEPT ![p] = job[r].version]
  /\ Leave(r)
  /\ Overtake
  /\ UNCHANGED <<prompt, late, call>>

(* A database operation throws, a unique key among the reasons; an open    *)
(* transaction is rolled back.                                             *)
Fail(r) ==
  /\ pc[r] # "idle"
  /\ Leave(r)
  /\ UNCHANGED <<prompt, current, version, late, call, overtaken>>

-----------------------------------------------------------------------------
InScope(s) == {p \in Prompts : prompt[p] /\ ScopeOf[p] = s}

(* resolvePrompt: the tenant's prompt, else the app's, else a global one.  *)
Nearest(t) ==
  IF InScope(t) # {} THEN InScope(t)
  ELSE IF InScope("app") # {} THEN InScope("app")
  ELSE InScope("global")

ResolvePrompt(c, t) ==
  /\ pc[c] = "idle"
  /\ \/ /\ Nearest(t) = {}
        /\ Goto(c, "ended")
        /\ UNCHANGED call
     \/ \E p \in Nearest(t) :
        /\ call' = [call EXCEPT ![c] = [prompt |-> p, current |-> current[p], got |-> 0]]
        /\ Goto(c, "version")
  /\ UNCHANGED <<prompt, current, version, late, job, rows, overtaken>>

SlipVersionFor(p, n) == Highest(PublishedOf(p))

(* resolvePromptVersion of prompt p read with current version n; 0 is the  *)
(* answer that there is no published version.                              *)
VersionFor(p, n) ==
  IF n = 0 THEN Highest(PublishedOf(p))
  ELSE IF n \in PublishedOf(p) THEN n ELSE 0

ResolveVersion(c) ==
  /\ pc[c] = "version"
  /\ call' = [call EXCEPT ![c].got = VersionFor(call[c].prompt, call[c].current)]
  /\ Goto(c, "ended")
  /\ UNCHANGED <<prompt, current, version, late, job, rows, overtaken>>

EndCall(c) ==
  /\ pc[c] = "ended"
  /\ Goto(c, "idle")
  /\ call' = [call EXCEPT ![c] = NoCall]
  /\ overtaken' = [overtaken EXCEPT ![c] = FALSE]
  /\ UNCHANGED <<prompt, current, version, late, job, rows>>

-----------------------------------------------------------------------------
Init ==
  /\ prompt    = [p \in Prompts |-> FALSE]
  /\ current   = [p \in Prompts |-> 0]
  /\ version   = [p \in Prompts |-> [v \in Numbers |-> "absent"]]
  /\ late      = [p \in Prompts |-> {}]
  /\ pc        = [h \in Handlers |-> "idle"]
  /\ job       = [r \in Requests |-> NoJob]
  /\ rows      = [r \in Requests |-> {}]
  /\ call      = [c \in Calls |-> NoCall]
  /\ overtaken = [c \in Calls |-> FALSE]

Handle(r) ==
  \/ \E p \in Prompts :
        \/ \E v \in 0..MaxVersion[p], s \in Statuses : NumberVersion(r, p, v, s)
        \/ \E v \in Numbers : FindVersion(r, p, v)
  \/ InsertVersion(r)
  \/ BeginArchive(r)
  \/ Archive(r)
  \/ Publish(r)
  \/ Fail(r)

Serve(c) ==
  \/ \E t \in Tenants : ResolvePrompt(c, t)
  \/ ResolveVersion(c)
  \/ EndCall(c)

Next ==
  \/ \E p \in Prompts : CreatePrompt(p)
  \/ \E r \in Requests : Handle(r)
  \/ \E c \in Calls : Serve(c)

Spec == Init /\ [][Next]_vars

-----------------------------------------------------------------------------
TypeOK ==
  /\ prompt \in [Prompts -> BOOLEAN]
  /\ current \in [Prompts -> Numbers \cup {0}]
  /\ version \in [Prompts -> [Numbers -> Created \cup {"absent"}]]
  /\ late \in [Prompts -> SUBSET Numbers]
  /\ pc \in [Handlers -> {"idle", "insert", "archive", "wait", "publish", "version", "ended"}]
  /\ job \in [Requests -> [prompt : Prompts \cup {NoPrompt}, version : Numbers \cup {0},
                           status : Created]]
  /\ rows \in [Requests -> SUBSET Numbers]
  /\ \A r \in Requests : \A v \in rows[r] : version[job[r].prompt][v] # "absent"
  /\ call \in [Calls -> [prompt : Prompts \cup {NoPrompt}, current : Numbers \cup {0}, got : Numbers \cup {0}]]
  /\ overtaken \in [Calls -> BOOLEAN]

(* The current version of a prompt is published and is the only one that   *)
(* is, however publications, creations and failures interleave; except for *)
(* versions that were created as published, or while a publication had     *)
(* already read which versions to archive.                                 *)
OnePublished ==
  \A p \in Prompts :
    /\ current[p] # 0 => version[p][current[p]] = "published"
    /\ PublishedOf(p) \subseteq {current[p]} \cup late[p]

(* A call in the middle of which nobody committed gets the current version *)
(* of its prompt or, of a prompt without one, the highest published        *)
(* version; it gets none only if there is none.                            *)
UndisturbedLookups ==
  \A c \in Calls :
    (pc[c] = "ended" /\ ~overtaken[c] /\ call[c].prompt # NoPrompt) =>
      LET p == call[c].prompt IN
      IF current[p] # 0 THEN call[c].got = current[p]
      ELSE \/ call[c].got \in PublishedOf(p) /\ \A v \in PublishedOf(p) : v <= call[c].got
           \/ call[c].got = 0 /\ PublishedOf(p) = {}

(* What a call for prompt p is given if nothing happens in its middle.     *)
Content(p) == VersionFor(p, current[p])

(* Once a prompt has a current version, what calls are given of it changes *)
(* by publishing only, whatever versions are created.                      *)
ChangedByPublishing ==
  [][\A p \in Prompts :
       (current[p] # 0 /\ Content(p)' # Content(p)) =>
         \E r \in Requests : /\ pc[r] = "publish" /\ job[r].prompt = p
                             /\ Content(p)' = job[r].version]_vars
===============================================================================
