------------------------ MODULE PromptPublishingProofs ------------------------
(***************************************************************************)
(* Theorems about PromptPublishing, for any prompts, tenants, requests and *)
(* calls, and any bounds on the version numbers.                           *)
(*                                                                         *)
(* The argument: a publication that has read its rows archives all         *)
(* versions but those created since, which are late                        *)
(* (SnapshotsAlmostComplete).  So after it only its own version and late   *)
(* ones are published.  Calls are overtaken by every commit.               *)
(***************************************************************************)
EXTENDS PromptPublishing, WellFoundedInduction, TLAPS

(* A nonempty set of numbers that has an upper bound has a greatest        *)
(* element: the complement of a least element of the distances to the      *)
(* bound.                                                                  *)
LEMMA GreatestElement ==
  ASSUME NEW n \in Nat, NEW S \in SUBSET (1..n), S # {}
  PROVE  \E v \in S : \A w \in S : w <= v
<1> DEFINE D == {n - v : v \in S}
<1>1. D \subseteq Nat /\ D # {}
  <2>1. \A v \in S : n - v \in Nat
    OBVIOUS
  <2> QED BY <2>1
<1>2. PICK d \in D : \A e \in D : ~(<<e, d>> \in OpToRel(<, Nat))
  <2> HIDE DEF D
  <2> QED BY <1>1, WFMin, NatLessThanWellFounded, Zenon
<1>3. \A e \in D : ~(e < d)
  BY <1>1, <1>2 DEF OpToRel
<1>4. PICK v \in S : d = n - v
  OBVIOUS
<1>5. \A w \in S : w <= v
  <2> TAKE w \in S
  <2>1. ~(n - w < d)
    BY <1>3
  <2> QED BY <2>1, <1>4
<1> QED BY <1>5

LEMMA HighestIsGreatest ==
  ASSUME NEW n \in Nat, NEW S \in SUBSET (1..n)
  PROVE  /\ Highest(S) \in 0..n
         /\ \A w \in S : w <= Highest(S)
         /\ S # {} => Highest(S) \in S
<1>1. CASE S = {}
  BY <1>1 DEF Highest
<1>2. CASE S # {}
  <2>1. \E v \in S : \A w \in S : w <= v
    BY <1>2, GreatestElement
  <2>2. Highest(S) \in S /\ \A w \in S : w <= Highest(S)
    BY <1>2, <2>1 DEF Highest
  <2>3. Highest(S) \in 1..n
    BY <2>2
  <2> QED BY <2>2, <2>3
<1> QED BY <1>1, <1>2

-----------------------------------------------------------------------------
(* A request that is under way works on a prompt and one of its numbers, a *)
(* publication on an existing version;                                     *)
(* rows belong to publications that have read them; a call that looks for  *)
(* a version has found a prompt.                                           *)
JobsInRange ==
  /\ \A r \in Requests :
        /\ pc[r] # "idle" => /\ job[r].prompt \in Prompts
                             /\ job[r].version \in 1..MaxVersion[job[r].prompt]
        /\ pc[r] \in {"archive", "wait", "publish"} =>
             job[r].version \in VersionsOf(job[r].prompt)
        /\ pc[r] \notin {"wait", "publish"} => rows[r] = {}
  /\ \A c \in Calls : pc[c] = "version" => call[c].prompt \in Prompts
  /\ \A p \in Prompts : VersionsOf(p) \subseteq 1..MaxVersion[p]

(* A publication that has read its rows archives every version, but late   *)
(* ones.                                                                   *)
SnapshotsAlmostComplete ==
  \A r \in Requests : pc[r] \in {"wait", "publish"} =>
    VersionsOf(job[r].prompt) \subseteq rows[r] \cup late[job[r].prompt]

IInv == TypeOK /\ JobsInRange /\ SnapshotsAlmostComplete /\ OnePublished

LEMMA JobTypes == NoJob.status \in Created /\ NoJob.version = 0 /\ NoJob.prompt = NoPrompt
  BY DEF NoJob, Created

LEMMA InvInit == Init => IInv
<1> SUFFICES ASSUME Init PROVE IInv
  OBVIOUS
<1>1. TypeOK
  BY DEF Init, TypeOK, NoJob, NoCall, Created, Handlers
<1>2. JobsInRange
  BY DEF Init, JobsInRange, VersionsOf, Handlers
<1>3. SnapshotsAlmostComplete
  BY DEF Init, SnapshotsAlmostComplete, Handlers
<1>4. OnePublished
  BY DEF Init, OnePublished, PublishedOf
<1> QED BY <1>1, <1>2, <1>3, <1>4 DEF IInv

LEMMA PublishedInRange ==
  ASSUME JobsInRange, NEW p \in Prompts
  PROVE  PublishedOf(p) \subseteq VersionsOf(p) /\ PublishedOf(p) \subseteq 1..MaxVersion[p]
  BY DEF JobsInRange, PublishedOf, VersionsOf

(* The steps of calls change nothing that the invariant says of requests.  *)
LEMMA InvCall ==
  ASSUME IInv, NEW c \in Calls, Serve(c)
  PROVE  IInv'
<1> USE PromptAssumption
<1>1. UNCHANGED <<prompt, current, version, late, job, rows>>
  BY DEF Serve, ResolvePrompt, ResolveVersion, EndCall
<1>2. \A r \in Requests : pc'[r] = pc[r]
  BY DEF IInv, TypeOK, Handlers, Serve, ResolvePrompt, ResolveVersion, EndCall, Goto
<1>3. pc' \in [Handlers -> {"idle", "insert", "archive", "wait", "publish", "version", "ended"}]
  BY DEF IInv, TypeOK, Handlers, Serve, ResolvePrompt, ResolveVersion, EndCall, Goto
<1>4. overtaken' \in [Calls -> BOOLEAN]
  BY DEF IInv, TypeOK, Serve, ResolvePrompt, ResolveVersion, EndCall
<1>5. call' \in [Calls -> [prompt : Prompts \cup {NoPrompt}, current : Numbers \cup {0},
                           got : Numbers \cup {0}]]
  <2> USE DEF IInv, TypeOK
  <2>1. CASE \E t \in Tenants : ResolvePrompt(c, t)
    <3>1. PICK t \in Tenants : ResolvePrompt(c, t)
      BY <2>1
    <3>2. CASE call' = call
      BY <3>2
    <3>3. CASE \E p \in Nearest(t) :
                 call' = [call EXCEPT ![c] = [prompt |-> p, current |-> current[p], got |-> 0]]
      BY <3>3 DEF Nearest, InScope
    <3> QED BY <3>1, <3>2, <3>3 DEF ResolvePrompt
  <2>2. CASE ResolveVersion(c)
    <3> DEFINE p == call[c].prompt
    <3>1. p \in Prompts /\ PublishedOf(p) \subseteq 1..MaxVersion[p]
      BY <2>2, PublishedInRange DEF ResolveVersion, JobsInRange
    <3>2. VersionFor(p, call[c].current) \in Numbers \cup {0}
      <4>1. Highest(PublishedOf(p)) \in PublishedOf(p) \cup {0}
        BY <3>1, HighestIsGreatest DEF Highest
      <4>2. PublishedOf(p) \subseteq Numbers
        BY DEF PublishedOf
      <4> QED BY <4>1, <4>2 DEF VersionFor
    <3>3. call \in [Calls -> [prompt : Prompts \cup {NoPrompt}, current : Numbers \cup {0},
                              got : Numbers \cup {0}]]
      OBVIOUS
    <3>4. call' = [call EXCEPT ![c].got = VersionFor(p, call[c].current)]
      BY <2>2 DEF ResolveVersion
    <3> HIDE DEF IInv, TypeOK, p
    <3> QED BY <3>2, <3>3, <3>4
  <2>3. CASE EndCall(c)
    BY <2>3 DEF EndCall, NoCall
  <2> QED BY <2>1, <2>2, <2>3 DEF Serve
<1>6. TypeOK'
  BY <1>1, <1>3, <1>4, <1>5 DEF IInv, TypeOK
<1>7. JobsInRange' /\ SnapshotsAlmostComplete' /\ OnePublished'
  <2>1. \A d \in Calls : pc'[d] = "version" => call'[d].prompt \in Prompts
    <3>1. CASE \E t \in Tenants : ResolvePrompt(c, t)
      BY <3>1 DEF IInv, TypeOK, JobsInRange, ResolvePrompt, Goto, Nearest, InScope, Handlers
    <3>2. CASE ResolveVersion(c)
      BY <3>2 DEF IInv, TypeOK, JobsInRange, ResolveVersion, Goto, Handlers
    <3>3. CASE EndCall(c)
      BY <3>3 DEF IInv, TypeOK, JobsInRange, EndCall, Goto, Handlers
    <3> QED BY <3>1, <3>2, <3>3 DEF Serve
  <2> QED BY <1>1, <1>2, <2>1 DEF IInv, JobsInRange, SnapshotsAlmostComplete, OnePublished,
             VersionsOf, PublishedOf
<1> QED BY <1>6, <1>7 DEF IInv

-----------------------------------------------------------------------------
(* The steps of requests that change no version.                           *)
Moves(r) ==
  \/ \E p \in Prompts, v \in Numbers \cup {0}, s \in Statuses :
        v \in 0..MaxVersion[p] /\ NumberVersion(r, p, v, s)
  \/ \E p \in Prompts, v \in Numbers : FindVersion(r, p, v)
  \/ BeginArchive(r)
  \/ Archive(r)
  \/ Fail(r)

LEMMA Steps ==
  ASSUME Next
  PROVE  \/ \E p \in Prompts : CreatePrompt(p)
         \/ \E r \in Requests : Moves(r) \/ InsertVersion(r) \/ Publish(r)
         \/ \E c \in Calls : Serve(c)
<1>1. ASSUME NEW r \in Requests, Handle(r)
      PROVE  Moves(r) \/ InsertVersion(r) \/ Publish(r)
  <2>1. \A p \in Prompts : 0..MaxVersion[p] \subseteq Numbers \cup {0}
    BY PromptAssumption DEF Numbers
  <2> QED BY <1>1, <2>1 DEF Handle, Moves
<1> QED BY <1>1 DEF Next

LEMMA MovesKeep ==
  ASSUME NEW r \in Requests, Moves(r)
  PROVE  UNCHANGED <<prompt, current, version, late, call, overtaken>>
  BY DEF Moves, NumberVersion, FindVersion, BeginArchive, Archive, Fail

(* The next number, or the one in the body, is one of the prompt's.        *)
LEMMA NextNumber ==
  ASSUME IInv, NEW p \in Prompts, NEW v \in 0..MaxVersion[p],
         v = 0 => Highest(VersionsOf(p)) < MaxVersion[p]
  PROVE  (IF v = 0 THEN Highest(VersionsOf(p)) + 1 ELSE v) \in 1..MaxVersion[p]
<1>1. MaxVersion[p] \in Nat /\ VersionsOf(p) \subseteq 1..MaxVersion[p]
  BY PromptAssumption DEF IInv, JobsInRange
<1>2. Highest(VersionsOf(p)) \in 0..MaxVersion[p]
  BY <1>1, HighestIsGreatest
<1> QED BY <1>1, <1>2

(* What a request that moves works on afterwards.                          *)
LEMMA MovedJobs ==
  ASSUME IInv, NEW r \in Requests, Moves(r)
  PROVE  /\ \E j \in [prompt : Prompts \cup {NoPrompt}, version : Numbers \cup {0},
                      status : Created] :
              /\ job' = [job EXCEPT ![r] = j]
              /\ pc'[r] # "idle" => /\ j.prompt \in Prompts
                                    /\ j.version \in 1..MaxVersion[j.prompt]
              /\ pc'[r] \in {"archive", "wait", "publish"} =>
                   j.version \in VersionsOf(j.prompt)
         /\ \E l \in {"idle", "insert", "archive", "wait", "publish"} :
              pc' = [pc EXCEPT ![r] = l]
<1> USE PromptAssumption
<1>0. /\ pc \in [Handlers -> {"idle", "insert", "archive", "wait", "publish", "version", "ended"}]
      /\ job \in [Requests -> [prompt : Prompts \cup {NoPrompt}, version : Numbers \cup {0},
                               status : Created]]
      /\ r \in Handlers
      /\ NoJob \in [prompt : Prompts \cup {NoPrompt}, version : Numbers \cup {0},
                    status : Created]
  BY DEF IInv, TypeOK, Handlers, NoJob, Created
<1>1. CASE \E p \in Prompts, v \in Numbers \cup {0}, s \in Statuses :
             v \in 0..MaxVersion[p] /\ NumberVersion(r, p, v, s)
  <2>1. PICK p \in Prompts, v \in Numbers \cup {0}, s \in Statuses :
             v \in 0..MaxVersion[p] /\ NumberVersion(r, p, v, s)
    BY <1>1
  <2> DEFINE n == IF v = 0 THEN Highest(VersionsOf(p)) + 1 ELSE v
  <2>2. n \in 1..MaxVersion[p]
    BY <2>1, NextNumber DEF NumberVersion
  <2>3. n \in Numbers
    BY <2>2 DEF Numbers
  <2>4. job' = [job EXCEPT ![r] = [prompt |-> p, status |-> s, version |-> n]]
        /\ pc' = [pc EXCEPT ![r] = "insert"]
    BY <2>1 DEF NumberVersion, Goto
  <2>5. s \in Created
    BY DEF Created
  <2> DEFINE j == [prompt |-> p, status |-> s, version |-> n]
  <2> HIDE DEF n
  <2>6. /\ j \in [prompt : Prompts \cup {NoPrompt}, version : Numbers \cup {0},
                 status : Created]
        /\ j.prompt \in Prompts /\ j.version \in 1..MaxVersion[j.prompt]
    BY <2>2, <2>3, <2>5
  <2>7. job' = [job EXCEPT ![r] = j]
    BY <2>4
  <2>8. pc'[r] = "insert"
    BY <1>0, <2>4
  <2> HIDE DEF j
  <2> QED BY <2>4, <2>6, <2>7, <2>8
<1>2. CASE \E p \in Prompts, v \in Numbers : FindVersion(r, p, v)
  <2>1. PICK p \in Prompts, v \in Numbers : FindVersion(r, p, v)
    BY <1>2
  <2>2. v \in 1..MaxVersion[p]
    BY <2>1 DEF IInv, JobsInRange, FindVersion
  <2>3. /\ job' = [job EXCEPT ![r] = [prompt |-> p, version |-> v, status |-> "published"]]
        /\ pc' = [pc EXCEPT ![r] = "archive"]
    BY <2>1 DEF FindVersion, Goto
  <2> DEFINE j == [prompt |-> p, version |-> v, status |-> "published"]
  <2>4. /\ j \in [prompt : Prompts \cup {NoPrompt}, version : Numbers \cup {0},
                 status : Created]
        /\ j.prompt \in Prompts /\ j.version \in 1..MaxVersion[j.prompt]
        /\ j.version \in VersionsOf(j.prompt)
    BY <2>1, <2>2 DEF Created, FindVersion
  <2>5. job' = [job EXCEPT ![r] = j]
    BY <2>3
  <2> HIDE DEF j
  <2> QED BY <2>3, <2>4, <2>5
<1>3. CASE BeginArchive(r) \/ Archive(r)
  <2>1. /\ job' = [job EXCEPT ![r] = job[r]]
        /\ pc[r] \in {"archive", "wait"}
        /\ \E l \in {"wait", "publish"} : pc' = [pc EXCEPT ![r] = l]
    BY <1>0, <1>3 DEF BeginArchive, Archive, Goto
  <2>2. /\ job[r].prompt \in Prompts /\ job[r].version \in 1..MaxVersion[job[r].prompt]
        /\ job[r].version \in VersionsOf(job[r].prompt)
    BY <2>1 DEF IInv, JobsInRange
  <2> QED BY <1>0, <2>1, <2>2
<1>4. CASE Fail(r)
  <2>1. job' = [job EXCEPT ![r] = NoJob] /\ pc' = [pc EXCEPT ![r] = "idle"]
    BY <1>4 DEF Fail, Leave, Goto
  <2> QED BY <1>0, <2>1
<1> QED BY <1>1, <1>2, <1>3, <1>4 DEF Moves

(* What a request that moves has read of the versions afterwards.          *)
LEMMA MovedRows ==
  ASSUME IInv, NEW r \in Requests, Moves(r)
  PROVE  \E R \in SUBSET Numbers :
           /\ rows' = [rows EXCEPT ![r] = R]
           /\ R # {} => /\ pc'[r] \in {"wait", "publish"}
                        /\ R \subseteq VersionsOf(job'[r].prompt)
           /\ pc'[r] \in {"wait", "publish"} =>
                VersionsOf(job'[r].prompt) \subseteq R \cup late[job'[r].prompt]
<1>0. /\ rows \in [Requests -> SUBSET Numbers]
      /\ \A q \in Requests : job[q].prompt \in Prompts =>
           rows[q] \subseteq VersionsOf(job[q].prompt)
      /\ pc \in [Handlers -> {"idle", "insert", "archive", "wait", "publish", "version", "ended"}]
      /\ job \in [Requests -> [prompt : Prompts \cup {NoPrompt}, version : Numbers \cup {0},
                               status : Created]]
      /\ r \in Handlers
  BY DEF IInv, TypeOK, VersionsOf, Handlers
<1>1. CASE pc[r] = "idle" \/ Fail(r)
  <2>1. pc'[r] \in {"idle", "insert", "archive"}
    BY <1>0, <1>1 DEF Moves, NumberVersion, FindVersion, BeginArchive, Archive, Fail, Leave, Goto
  <2>2. (rows[r] = {} /\ rows' = rows) \/ rows' = [rows EXCEPT ![r] = {}]
    BY <1>0, <1>1 DEF Moves, NumberVersion, FindVersion, BeginArchive, Archive, Fail, Leave,
       IInv, JobsInRange
  <2>3. rows' = [rows EXCEPT ![r] = {}]
    BY <1>0, <2>2
  <2>4. pc'[r] \notin {"wait", "publish"}
    BY <2>1
  <2> WITNESS {} \in SUBSET Numbers
  <2> QED BY <2>3, <2>4
<1>2. CASE BeginArchive(r)
  <2>1. job' = job /\ job[r].prompt \in Prompts /\ pc'[r] = "wait"
    BY <1>0, <1>2 DEF BeginArchive, Goto, IInv, JobsInRange
  <2>2. rows' = [rows EXCEPT ![r] = VersionsOf(job[r].prompt)]
    BY <1>2 DEF BeginArchive, ToArchive
  <2>3. VersionsOf(job[r].prompt) \in SUBSET Numbers
    BY DEF VersionsOf
  <2> QED BY <2>1, <2>2, <2>3
<1>3. CASE Archive(r)
  <2>1. /\ job' = job /\ job[r].prompt \in Prompts /\ pc'[r] = "publish"
        /\ pc[r] = "wait" /\ rows' = rows
    BY <1>0, <1>3 DEF Archive, Goto, IInv, JobsInRange
  <2>2. rows' = [rows EXCEPT ![r] = rows[r]]
    BY <1>0, <2>1
  <2>3. VersionsOf(job[r].prompt) \subseteq rows[r] \cup late[job[r].prompt]
    BY <2>1 DEF IInv, SnapshotsAlmostComplete
  <2> QED BY <1>0, <2>1, <2>2, <2>3
<1> QED BY <1>1, <1>2, <1>3 DEF Moves, NumberVersion, FindVersion

LEMMA InvMoves ==
  ASSUME IInv, NEW r \in Requests, Moves(r)
  PROVE  IInv'
<1> USE PromptAssumption
<1>1. UNCHANGED <<prompt, current, version, late, call, overtaken>>
  BY MovesKeep
<1>2. \A p : VersionsOf(p)' = VersionsOf(p) /\ PublishedOf(p)' = PublishedOf(p)
  BY <1>1 DEF VersionsOf, PublishedOf
<1>3. PICK j \in [prompt : Prompts \cup {NoPrompt}, version : Numbers \cup {0},
                  status : Created] :
        /\ job' = [job EXCEPT ![r] = j]
        /\ pc'[r] # "idle" => /\ j.prompt \in Prompts
                              /\ j.version \in 1..MaxVersion[j.prompt]
        /\ pc'[r] \in {"archive", "wait", "publish"} => j.version \in VersionsOf(j.prompt)
  BY MovedJobs
<1>4. PICK l \in {"idle", "insert", "archive", "wait", "publish"} : pc' = [pc EXCEPT ![r] = l]
  BY MovedJobs
<1>5. PICK R \in SUBSET Numbers :
        /\ rows' = [rows EXCEPT ![r] = R]
        /\ R # {} => /\ pc'[r] \in {"wait", "publish"}
                     /\ R \subseteq VersionsOf(job'[r].prompt)
        /\ pc'[r] \in {"wait", "publish"} =>
             VersionsOf(job'[r].prompt) \subseteq R \cup late[job'[r].prompt]
  BY MovedRows
<1>6. /\ r \in Handlers
      /\ pc \in [Handlers -> {"idle", "insert", "archive", "wait", "publish", "version", "ended"}]
      /\ rows \in [Requests -> SUBSET Numbers]
      /\ job \in [Requests -> [prompt : Prompts \cup {NoPrompt}, version : Numbers \cup {0},
                               status : Created]]
  BY DEF IInv, TypeOK, Handlers
<1>7. /\ job'[r] = j /\ rows'[r] = R /\ pc'[r] = l
      /\ \A q \in Requests \ {r} : job'[q] = job[q] /\ rows'[q] = rows[q] /\ pc'[q] = pc[q]
      /\ \A c \in Calls : pc'[c] = pc[c]
  BY <1>3, <1>4, <1>5, <1>6 DEF Handlers
<1>8. TypeOK'
  <2>1. \A q \in Requests : \A v \in rows'[q] : version'[job'[q].prompt][v] # "absent"
    <3>1. \A v \in R : version[j.prompt][v] # "absent"
      BY <1>5, <1>7 DEF VersionsOf
    <3> QED BY <1>1, <1>7, <3>1 DEF IInv, TypeOK
  <2>2. /\ pc' \in [Handlers -> {"idle", "insert", "archive", "wait", "publish", "version", "ended"}]
        /\ rows' \in [Requests -> SUBSET Numbers]
        /\ job' \in [Requests -> [prompt : Prompts \cup {NoPrompt}, version : Numbers \cup {0},
                                  status : Created]]
    BY <1>3, <1>4, <1>5, <1>6
  <2> QED BY <1>1, <2>1, <2>2 DEF IInv, TypeOK
<1>9. JobsInRange'
  <2>1. /\ pc'[r] # "idle" => /\ job'[r].prompt \in Prompts
                              /\ job'[r].version \in 1..MaxVersion[job'[r].prompt]
        /\ pc'[r] \in {"archive", "wait", "publish"} =>
             job'[r].version \in VersionsOf(job'[r].prompt)
        /\ pc'[r] \notin {"wait", "publish"} => rows'[r] = {}
    BY <1>3, <1>5, <1>7
  <2>2. \A q \in Requests : VersionsOf(job[q].prompt)' = VersionsOf(job'[q].prompt)
    BY <1>1 DEF VersionsOf
  <2>3. \A q \in Requests \ {r} :
          /\ pc'[q] # "idle" => /\ job'[q].prompt \in Prompts
                                /\ job'[q].version \in 1..MaxVersion[job'[q].prompt]
          /\ pc'[q] \in {"archive", "wait", "publish"} =>
               job'[q].version \in VersionsOf(job'[q].prompt)
          /\ pc'[q] \notin {"wait", "publish"} => rows'[q] = {}
    BY <1>7 DEF IInv, JobsInRange
  <2>4. /\ \A c \in Calls : pc'[c] = "version" => call'[c].prompt \in Prompts
        /\ \A p \in Prompts : VersionsOf(p)' \subseteq 1..MaxVersion[p]
    BY <1>1, <1>2, <1>7 DEF IInv, JobsInRange
  <2> QED BY <2>1, <2>2, <2>3, <2>4 DEF JobsInRange
<1>10. SnapshotsAlmostComplete'
  <2> SUFFICES ASSUME NEW q \in Requests, pc'[q] \in {"wait", "publish"}
               PROVE  VersionsOf(job[q].prompt)' \subseteq rows'[q] \cup late'[job'[q].prompt]
    BY DEF SnapshotsAlmostComplete
  <2>1. VersionsOf(job[q].prompt)' = VersionsOf(job'[q].prompt)
    BY <1>1 DEF VersionsOf
  <2>2. CASE q = r
    BY <1>1, <1>5, <1>7, <2>1, <2>2
  <2>3. CASE q # r
    BY <1>1, <1>7, <2>1, <2>3 DEF IInv, SnapshotsAlmostComplete
  <2> QED BY <2>2, <2>3
<1>11. OnePublished'
  BY <1>1, <1>2 DEF IInv, OnePublished
<1> QED BY <1>8, <1>9, <1>10, <1>11 DEF IInv

-----------------------------------------------------------------------------
(* The steps that change versions and prompts.                             *)
LEMMA InvCreatePrompt ==
  ASSUME IInv, NEW p \in Prompts, CreatePrompt(p)
  PROVE  IInv'
<1>1. UNCHANGED <<current, version, late, pc, job, rows, call>>
  BY DEF CreatePrompt
<1>2. TypeOK'
  BY <1>1 DEF IInv, TypeOK, CreatePrompt, Overtake
<1>3. JobsInRange' /\ SnapshotsAlmostComplete' /\ OnePublished'
  BY <1>1 DEF IInv, JobsInRange, SnapshotsAlmostComplete, OnePublished, VersionsOf, PublishedOf
<1> QED BY <1>2, <1>3 DEF IInv

(* A request that has written is idle, the others are where they were.     *)
LEMMA LeaveEffect ==
  ASSUME IInv, NEW r \in Requests, Leave(r)
  PROVE  /\ pc' \in [Handlers -> {"idle", "insert", "archive", "wait", "publish", "version",
                                  "ended"}]
         /\ job' \in [Requests -> [prompt : Prompts \cup {NoPrompt}, version : Numbers \cup {0},
                                   status : Created]]
         /\ rows' \in [Requests -> SUBSET Numbers]
         /\ pc'[r] = "idle" /\ rows'[r] = {}
         /\ \A q \in Requests \ {r} : job'[q] = job[q] /\ rows'[q] = rows[q] /\ pc'[q] = pc[q]
         /\ \A c \in Calls : pc'[c] = pc[c]
  BY PromptAssumption DEF IInv, TypeOK, Leave, Goto, Handlers, NoJob, Created

LEMMA InvInsert ==
  ASSUME IInv, NEW r \in Requests, InsertVersion(r)
  PROVE  IInv'
<1> DEFINE p == job[r].prompt
           v == job[r].version
<1>1. p \in Prompts /\ v \in 1..MaxVersion[p] /\ v \in Numbers /\ job[r].status \in Created
  BY DEF IInv, TypeOK, JobsInRange, InsertVersion, Numbers
<1>2. /\ Leave(r)
      /\ version[p][v] = "absent"
      /\ version' = [version EXCEPT ![p][v] = job[r].status]
      /\ UNCHANGED <<prompt, current, call>>
      /\ overtaken' = [c \in Calls |-> pc[c] # "idle"]
      /\ late' = [late EXCEPT ![p] =
           IF job[r].status = "published" \/ Publishing(p) # {} THEN @ \cup {v} ELSE @]
  BY DEF InsertVersion, IsFree, Overtake
<1>3. /\ version \in [Prompts -> [Numbers -> Created \cup {"absent"}]]
      /\ late \in [Prompts -> SUBSET Numbers]
      /\ current \in [Prompts -> Numbers \cup {0}]
  BY DEF IInv, TypeOK
<1> HIDE DEF p, v
<1>4. /\ version' \in [Prompts -> [Numbers -> Created \cup {"absent"}]]
      /\ version'[p][v] = job[r].status
      /\ \A w \in Numbers \ {v} : version'[p][w] = version[p][w]
      /\ \A q \in Prompts \ {p} : version'[q] = version[q]
  BY <1>1, <1>2, <1>3
<1>5. /\ late' \in [Prompts -> SUBSET Numbers]
      /\ \A q \in Prompts : late[q] \subseteq late'[q]
      /\ (job[r].status = "published" \/ Publishing(p) # {}) => v \in late'[p]
  BY <1>1, <1>2, <1>3
<1>6. /\ \A q \in Prompts : VersionsOf(q)' \subseteq VersionsOf(q) \cup {w \in {v} : q = p}
      /\ \A q \in Prompts : VersionsOf(q) \subseteq VersionsOf(q)'
      /\ \A q \in Prompts : PublishedOf(q)' \subseteq
            PublishedOf(q) \cup {w \in {v} : q = p /\ job[r].status = "published"}
  BY <1>1, <1>2, <1>4 DEF VersionsOf, PublishedOf, Created
<1>7. TypeOK'
  <2>1. \A q \in Requests : \A w \in rows'[q] : version'[job'[q].prompt][w] # "absent"
    <3> SUFFICES ASSUME NEW q \in Requests, NEW w \in rows'[q]
                 PROVE  version'[job'[q].prompt][w] # "absent"
      OBVIOUS
    <3>1. q # r /\ w \in rows[q] /\ job'[q] = job[q]
      BY <1>2, LeaveEffect
    <3>2. job[q].prompt \in Prompts /\ w \in Numbers /\ version[job[q].prompt][w] # "absent"
      BY <3>1 DEF IInv, TypeOK, JobsInRange
    <3> QED BY <1>1, <1>4, <3>1, <3>2 DEF Created
  <2>2. /\ prompt' \in [Prompts -> BOOLEAN] /\ current' \in [Prompts -> Numbers \cup {0}]
        /\ call' \in [Calls -> [prompt : Prompts \cup {NoPrompt}, current : Numbers \cup {0},
                                got : Numbers \cup {0}]]
        /\ overtaken' \in [Calls -> BOOLEAN]
    BY <1>2 DEF IInv, TypeOK
  <2> QED BY <1>2, <1>4, <1>5, <2>1, <2>2, LeaveEffect DEF TypeOK
<1>8. JobsInRange'
  <2>1. \A q \in Prompts : VersionsOf(q)' \subseteq 1..MaxVersion[q]
    BY <1>1, <1>6 DEF IInv, JobsInRange
  <2>2. \A c \in Calls : pc'[c] = "version" => call'[c].prompt \in Prompts
    BY <1>2, LeaveEffect DEF IInv, JobsInRange
  <2>3. \A q \in Requests :
          /\ pc'[q] # "idle" => /\ job'[q].prompt \in Prompts
                                /\ job'[q].version \in 1..MaxVersion[job'[q].prompt]
          /\ pc'[q] \notin {"wait", "publish"} => rows'[q] = {}
    BY <1>2, LeaveEffect DEF IInv, JobsInRange
  <2>4. ASSUME NEW q \in Requests, pc'[q] \in {"archive", "wait", "publish"}
        PROVE  job'[q].version \in VersionsOf(job[q].prompt)'
    <3>1. /\ job'[q] = job[q] /\ job[q].prompt \in Prompts
          /\ job[q].version \in VersionsOf(job[q].prompt)
      BY <1>2, <2>4, LeaveEffect DEF IInv, JobsInRange
    <3>2. \A o \in Prompts : job[q].prompt = o => job[q].version \in VersionsOf(o)'
      BY <1>6, <3>1
    <3> QED BY <3>1, <3>2 DEF VersionsOf
  <2> QED BY <2>1, <2>2, <2>3, <2>4 DEF JobsInRange
<1>9. SnapshotsAlmostComplete'
  <2> SUFFICES ASSUME NEW q \in Requests, pc'[q] \in {"wait", "publish"}
               PROVE  VersionsOf(job[q].prompt)' \subseteq rows'[q] \cup late'[job'[q].prompt]
    BY DEF SnapshotsAlmostComplete
  <2>1. /\ q # r /\ pc[q] \in {"wait", "publish"} /\ job'[q] = job[q] /\ rows'[q] = rows[q]
        /\ job[q].prompt \in Prompts
    BY <1>2, LeaveEffect DEF IInv, JobsInRange
  <2>2. VersionsOf(job[q].prompt) \subseteq rows[q] \cup late[job[q].prompt]
    BY <2>1 DEF IInv, SnapshotsAlmostComplete
  <2>3. \A o \in Prompts : job[q].prompt = o =>
          VersionsOf(o)' \subseteq rows'[q] \cup late'[o]
    <3> TAKE o \in Prompts
    <3> HAVE job[q].prompt = o
    <3>1. o = p => v \in late'[p]
      BY <1>5, <2>1 DEF Publishing
    <3> QED BY <1>5, <1>6, <2>1, <2>2, <3>1
  <2> QED BY <2>1, <2>3 DEF VersionsOf
<1>10. OnePublished'
  <2> SUFFICES ASSUME NEW q \in Prompts
               PROVE  /\ current'[q] # 0 => version'[q][current'[q]] = "published"
                      /\ PublishedOf(q)' \subseteq {current'[q]} \cup late'[q]
    BY DEF OnePublished
  <2>1. PublishedOf(q)' \subseteq {current'[q]} \cup late'[q]
    BY <1>2, <1>5, <1>6 DEF IInv, OnePublished
  <2>2. ASSUME current[q] # 0 PROVE version'[q][current[q]] = "published"
    <3>1. version[q][current[q]] = "published" /\ current[q] \in Numbers
      BY <1>3, <2>2 DEF IInv, OnePublished
    <3> QED BY <1>2, <1>4, <3>1
  <2> QED BY <1>2, <2>1, <2>2
<1> QED BY <1>7, <1>8, <1>9, <1>10 DEF IInv

LEMMA InvPublish ==
  ASSUME IInv, NEW r \in Requests, Publish(r)
  PROVE  IInv'
<1> DEFINE p == job[r].prompt
           v == job[r].version
<1>1. p \in Prompts /\ v \in 1..MaxVersion[p] /\ v \in Numbers /\ v # 0
  BY DEF IInv, TypeOK, JobsInRange, Publish, Numbers
<1>2. /\ Leave(r)
      /\ version' = [version EXCEPT ![p] = [w \in Numbers |-> Published(r, w)]]
      /\ current' = [current EXCEPT ![p] = v]
      /\ UNCHANGED <<prompt, late, call>>
      /\ overtaken' = [c \in Calls |-> pc[c] # "idle"]
  BY DEF Publish, Overtake
<1>3. /\ version \in [Prompts -> [Numbers -> Created \cup {"absent"}]]
      /\ late \in [Prompts -> SUBSET Numbers]
      /\ current \in [Prompts -> Numbers \cup {0}]
  BY DEF IInv, TypeOK
<1>4. VersionsOf(p) \subseteq rows[r] \cup late[p]
  BY DEF IInv, SnapshotsAlmostComplete, Publish
<1>5. \A w \in rows[r] : version[p][w] # "absent"
  BY DEF IInv, TypeOK
<1>6. \A w \in Numbers :
        /\ Published(r, w) \in Created \cup {"absent"}
        /\ Published(r, w) = "absent" => version[p][w] = "absent"
        /\ version[p][w] = "absent" /\ w # v => Published(r, w) = "absent"
        /\ Published(r, v) = "published"
        /\ Published(r, w) = "published" => w = v \/ w \in late[p]
  <2> SUFFICES ASSUME NEW w \in Numbers
               PROVE  /\ Published(r, w) \in Created \cup {"absent"}
                      /\ Published(r, w) = "absent" => version[p][w] = "absent"
                      /\ version[p][w] = "absent" /\ w # v => Published(r, w) = "absent"
                      /\ Published(r, v) = "published"
                      /\ Published(r, w) = "published" => w = v \/ w \in late[p]
    OBVIOUS
  <2>1. version[p][w] = "published" => w \in rows[r] \/ w \in late[p]
    BY <1>4 DEF VersionsOf
  <2>2. version[p][w] \in Created \cup {"absent"}
    BY <1>1, <1>3
  <2> QED BY <1>5, <2>1, <2>2 DEF Published, Created
<1> HIDE DEF p, v
<1>7. /\ version' \in [Prompts -> [Numbers -> Created \cup {"absent"}]]
      /\ \A w \in Numbers : version'[p][w] = Published(r, w)
      /\ \A q \in Prompts \ {p} : version'[q] = version[q]
      /\ current' \in [Prompts -> Numbers \cup {0}]
      /\ current'[p] = v
      /\ \A q \in Prompts \ {p} : current'[q] = current[q]
  <2>1. [w \in Numbers |-> Published(r, w)] \in [Numbers -> Created \cup {"absent"}]
    BY <1>6
  <2> QED BY <1>1, <1>2, <1>3, <2>1
<1>8. /\ \A q \in Prompts : VersionsOf(q)' \subseteq VersionsOf(q) \cup {w \in {v} : q = p}
      /\ \A q \in Prompts : VersionsOf(q) \subseteq VersionsOf(q)'
      /\ \A q \in Prompts \ {p} : PublishedOf(q)' = PublishedOf(q)
      /\ \A q \in Prompts : q = p => PublishedOf(q)' \subseteq {v} \cup late[q]
  <2>1. ASSUME NEW q \in Prompts, q # p
        PROVE  VersionsOf(q)' = VersionsOf(q) /\ PublishedOf(q)' = PublishedOf(q)
    BY <1>7, <2>1 DEF VersionsOf, PublishedOf
  <2>2. ASSUME NEW q \in Prompts, q = p
        PROVE  /\ VersionsOf(q)' \subseteq VersionsOf(q) \cup {v}
               /\ VersionsOf(q) \subseteq VersionsOf(q)'
               /\ PublishedOf(q)' \subseteq {v} \cup late[q]
    <3>1. \A w \in Numbers : version'[q][w] = Published(r, w)
      BY <1>7, <2>2
    <3> QED BY <1>6, <2>2, <3>1 DEF VersionsOf, PublishedOf
  <2>3. ASSUME NEW q \in Prompts
        PROVE  VersionsOf(q)' \subseteq VersionsOf(q) \cup {w \in {v} : q = p}
    BY <2>1, <2>2
  <2> QED BY <2>1, <2>2, <2>3
<1>9. v \in VersionsOf(p)
  BY DEF IInv, JobsInRange, Publish, p, v
<1>10. TypeOK'
  <2>1. \A q \in Requests : \A w \in rows'[q] : version'[job'[q].prompt][w] # "absent"
    <3> SUFFICES ASSUME NEW q \in Requests, NEW w \in rows'[q]
                 PROVE  version'[job'[q].prompt][w] # "absent"
      OBVIOUS
    <3>1. q # r /\ w \in rows[q] /\ job'[q] = job[q]
      BY <1>2, LeaveEffect
    <3>2. job[q].prompt \in Prompts /\ w \in Numbers /\ version[job[q].prompt][w] # "absent"
      BY <3>1 DEF IInv, TypeOK, JobsInRange
    <3>3. w \in VersionsOf(job[q].prompt)
      BY <3>2 DEF VersionsOf
    <3>4. \A o \in Prompts : job[q].prompt = o => version'[o][w] # "absent"
      BY <1>8, <3>2, <3>3 DEF VersionsOf
    <3> QED BY <3>1, <3>2, <3>4
  <2>2. /\ prompt' \in [Prompts -> BOOLEAN] /\ late' \in [Prompts -> SUBSET Numbers]
        /\ call' \in [Calls -> [prompt : Prompts \cup {NoPrompt}, current : Numbers \cup {0},
                                got : Numbers \cup {0}]]
        /\ overtaken' \in [Calls -> BOOLEAN]
    BY <1>2 DEF IInv, TypeOK
  <2> QED BY <1>2, <1>7, <2>1, <2>2, LeaveEffect DEF TypeOK
<1>11. JobsInRange'
  <2>1. \A q \in Prompts : VersionsOf(q)' \subseteq 1..MaxVersion[q]
    BY <1>1, <1>8 DEF IInv, JobsInRange
  <2>2. \A c \in Calls : pc'[c] = "version" => call'[c].prompt \in Prompts
    BY <1>2, LeaveEffect DEF IInv, JobsInRange
  <2>3. \A q \in Requests :
          /\ pc'[q] # "idle" => /\ job'[q].prompt \in Prompts
                                /\ job'[q].version \in 1..MaxVersion[job'[q].prompt]
          /\ pc'[q] \notin {"wait", "publish"} => rows'[q] = {}
    BY <1>2, LeaveEffect DEF IInv, JobsInRange
  <2>4. ASSUME NEW q \in Requests, pc'[q] \in {"archive", "wait", "publish"}
        PROVE  job'[q].version \in VersionsOf(job[q].prompt)'
    <3>1. /\ job'[q] = job[q] /\ job[q].prompt \in Prompts
          /\ job[q].version \in VersionsOf(job[q].prompt)
      BY <1>2, <2>4, LeaveEffect DEF IInv, JobsInRange
    <3>2. \A o \in Prompts : job[q].prompt = o => job[q].version \in VersionsOf(o)'
      BY <1>8, <3>1
    <3> QED BY <3>1, <3>2 DEF VersionsOf
  <2> QED BY <2>1, <2>2, <2>3, <2>4 DEF JobsInRange
<1>12. OnePublished'
  <2> SUFFICES ASSUME NEW q \in Prompts
               PROVE  /\ current'[q] # 0 => version'[q][current'[q]] = "published"
                      /\ PublishedOf(q)' \subseteq {current'[q]} \cup late'[q]
    BY DEF OnePublished
  <2>1. CASE q = p
    BY <1>1, <1>2, <1>6, <1>7, <1>8, <2>1
  <2>2. CASE q # p
    BY <1>2, <1>7, <1>8, <2>2 DEF IInv, OnePublished
  <2> QED BY <2>1, <2>2
<1>13. SnapshotsAlmostComplete'
  <2> SUFFICES ASSUME NEW q \in Requests, pc'[q] \in {"wait", "publish"}
               PROVE  VersionsOf(job[q].prompt)' \subseteq rows'[q] \cup late'[job'[q].prompt]
    BY DEF SnapshotsAlmostComplete
  <2>1. /\ q # r /\ pc[q] \in {"wait", "publish"} /\ job'[q] = job[q] /\ rows'[q] = rows[q]
        /\ job[q].prompt \in Prompts
    BY <1>2, LeaveEffect DEF IInv, JobsInRange
  <2>2. VersionsOf(job[q].prompt) \subseteq rows[q] \cup late[job[q].prompt]
    BY <2>1 DEF IInv, SnapshotsAlmostComplete
  <2>3. \A o \in Prompts : job[q].prompt = o =>
          VersionsOf(o)' \subseteq rows'[q] \cup late'[o]
    BY <1>2, <1>8, <1>9, <2>1, <2>2
  <2> QED BY <2>1, <2>3 DEF VersionsOf
<1> QED BY <1>10, <1>11, <1>12, <1>13 DEF IInv

LEMMA InvStep == IInv /\ [Next]_vars => IInv'
<1> SUFFICES ASSUME IInv, [Next]_vars PROVE IInv'
  OBVIOUS
<1>1. CASE UNCHANGED vars
  <2>1. TypeOK'
    BY <1>1 DEF IInv, TypeOK, vars
  <2>2. JobsInRange' /\ SnapshotsAlmostComplete' /\ OnePublished'
    BY <1>1 DEF IInv, JobsInRange, SnapshotsAlmostComplete, OnePublished, VersionsOf,
       PublishedOf, vars
  <2> QED BY <2>1, <2>2 DEF IInv
<1>2. CASE Next
  BY <1>2, Steps, InvCreatePrompt, InvMoves, InvInsert, InvPublish, InvCall
<1> QED BY <1>1, <1>2

LEMMA Invariance == Spec => []IInv
<1>1. QED BY InvInit, InvStep, PTL DEF Spec

(* The variables keep their types, and a publication archives versions of  *)
(* its own prompt only (publishPrompt).                                    *)
THEOREM TypeCorrect == Spec => []TypeOK
<1>1. IInv => TypeOK
  BY DEF IInv
<1> QED BY <1>1, Invariance, PTL

(* The current version is published, and is the only one but late ones,    *)
(* whatever publications and creations interleave (publishPrompt).         *)
THEOREM PublishedAlone == Spec => []OnePublished
<1>1. IInv => OnePublished
  BY DEF IInv
<1> QED BY <1>1, Invariance, PTL

-----------------------------------------------------------------------------
(* Without the two exceptions of OnePublished, overlapping requests and    *)
(* versions that are published from the beginning, nothing is late.        *)
OneRequest == \A q, r \in Requests : q = r

NothingLate ==
  /\ \A p \in Prompts : late[p] = {}
  /\ \A r \in Requests : pc[r] = "insert" => job[r].status \in Statuses

LEMMA NothingLateStep ==
  ASSUME OneRequest, "published" \notin Statuses, IInv, NothingLate, [Next]_vars
  PROVE  NothingLate'
<1>0. /\ pc \in [Handlers -> {"idle", "insert", "archive", "wait", "publish", "version", "ended"}]
      /\ job \in [Requests -> [prompt : Prompts \cup {NoPrompt}, version : Numbers \cup {0},
                               status : Created]]
      /\ late \in [Prompts -> SUBSET Numbers]
  BY DEF IInv, TypeOK
<1>1. CASE UNCHANGED vars
  BY <1>1 DEF vars, NothingLate
<1>2. ASSUME NEW p \in Prompts, CreatePrompt(p) PROVE NothingLate'
  BY <1>2 DEF CreatePrompt, NothingLate
<1>3. ASSUME NEW c \in Calls, Serve(c) PROVE NothingLate'
  <2>1. \A r \in Requests : pc'[r] = pc[r]
    BY <1>0, <1>3, PromptAssumption DEF Serve, ResolvePrompt, ResolveVersion, EndCall, Goto, Handlers
  <2> QED BY <1>3, <2>1 DEF Serve, ResolvePrompt, ResolveVersion, EndCall, NothingLate
<1>4. ASSUME NEW r \in Requests, InsertVersion(r) PROVE NothingLate'
  <2>1. pc[r] = "insert" /\ job[r].status # "published"
    BY <1>4 DEF InsertVersion, NothingLate
  <2>2. \A p : Publishing(p) = {}
    BY <2>1 DEF Publishing, OneRequest
  <2>3. late' = [late EXCEPT ![job[r].prompt] = @]
    BY <1>4, <2>1, <2>2 DEF InsertVersion
  <2>4. \A q \in Requests : pc'[q] = "idle"
    BY <1>0, <1>4 DEF InsertVersion, Leave, Goto, OneRequest, Handlers
  <2> QED BY <1>0, <2>3, <2>4 DEF NothingLate
<1>5. ASSUME NEW r \in Requests, Publish(r) PROVE NothingLate'
  <2>1. \A q \in Requests : pc'[q] = "idle"
    BY <1>0, <1>5 DEF Publish, Leave, Goto, OneRequest, Handlers
  <2> QED BY <1>5, <2>1 DEF Publish, NothingLate
<1>6. ASSUME NEW r \in Requests, Moves(r) PROVE NothingLate'
  <2>1. late' = late
    BY <1>6, MovesKeep
  <2>2. pc'[r] = "insert" => job'[r].status \in Statuses
    <3>1. ASSUME NEW p \in Prompts, NEW v \in Numbers \cup {0}, NEW t \in Statuses,
                 NumberVersion(r, p, v, t)
          PROVE  job'[r].status = t
      BY <1>0, <3>1 DEF NumberVersion
    <3>2. ASSUME \/ \E p \in Prompts, v \in Numbers : FindVersion(r, p, v)
                 \/ BeginArchive(r) \/ Archive(r) \/ Fail(r)
          PROVE  pc'[r] # "insert"
      BY <1>0, <3>2 DEF FindVersion, BeginArchive, Archive, Fail, Leave, Goto, Handlers
    <3> QED BY <1>6, <3>1, <3>2 DEF Moves
  <2> QED BY <2>1, <2>2 DEF NothingLate, OneRequest
<1> QED BY <1>1, <1>2, <1>3, <1>4, <1>5, <1>6, Steps

(* One request at a time that creates no version as published leaves the   *)
(* current version, and no other, published, without exception, whatever   *)
(* fails half-way (createPromptVersion, publishPrompt).                    *)
THEOREM SerialOnePublished ==
  ASSUME OneRequest, "published" \notin Statuses
  PROVE  Spec => [](\A p \in Prompts : PublishedOf(p) = {current[p]} \ {0})
<1>1. Init => NothingLate
  BY DEF Init, NothingLate, Handlers
<1>2. IInv /\ NothingLate /\ [Next]_vars => NothingLate'
  BY NothingLateStep
<1>3. IInv /\ NothingLate => \A p \in Prompts : PublishedOf(p) = {current[p]} \ {0}
  <2> SUFFICES ASSUME IInv, NothingLate, NEW p \in Prompts
               PROVE  PublishedOf(p) = {current[p]} \ {0}
    OBVIOUS
  <2>1. PublishedOf(p) \subseteq {current[p]} /\ PublishedOf(p) \subseteq 1..MaxVersion[p]
    BY PublishedInRange DEF IInv, OnePublished, NothingLate
  <2>2. current[p] # 0 => current[p] \in PublishedOf(p)
    BY DEF IInv, TypeOK, OnePublished, PublishedOf
  <2> QED BY <2>1, <2>2, PromptAssumption
<1> QED BY <1>1, <1>2, <1>3, Invariance, PTL DEF Spec

-----------------------------------------------------------------------------
(* What the calls of a prompt with a current version are given.            *)
LEMMA ContentIsCurrent ==
  ASSUME IInv, NEW p \in Prompts, current[p] # 0
  PROVE  Content(p) = current[p]
  BY DEF IInv, TypeOK, OnePublished, Content, VersionFor, PublishedOf

(* Only a publication changes what the calls of a prompt with a current    *)
(* version are given (createPromptVersion, publishPrompt).                 *)
THEOREM PublishingOnly == Spec => ChangedByPublishing
<1> DEFINE Changed ==
      \A p \in Prompts :
       (current[p] # 0 /\ Content(p)' # Content(p)) =>
         \E r \in Requests : /\ pc[r] = "publish" /\ job[r].prompt = p
                             /\ Content(p)' = job[r].version
<1>1. ASSUME IInv, IInv', [Next]_vars PROVE Changed
  <2> SUFFICES ASSUME NEW p \in Prompts, current[p] # 0, Content(p)' # Content(p)
               PROVE  \E r \in Requests : /\ pc[r] = "publish" /\ job[r].prompt = p
                                          /\ Content(p)' = job[r].version
    OBVIOUS
  <2>1. Content(p) = current[p]
    BY <1>1, ContentIsCurrent
  <2>2. current'[p] # 0 => Content(p)' = current'[p]
    BY <1>1 DEF IInv, TypeOK, OnePublished, Content, VersionFor, PublishedOf
  <2>3. CASE current' = current
    BY <2>1, <2>2, <2>3
  <2>4. CASE \E r \in Requests : Publish(r)
    <3>1. PICK r \in Requests : Publish(r)
      BY <2>4
    <3>2. /\ pc[r] = "publish"
          /\ current' = [current EXCEPT ![job[r].prompt] = job[r].version]
          /\ job[r].version \in 1..MaxVersion[job[r].prompt] /\ job[r].prompt \in Prompts
      BY <1>1, <3>1 DEF Publish, IInv, JobsInRange
    <3>3. current \in [Prompts -> Numbers \cup {0}]
      BY <1>1 DEF IInv, TypeOK
    <3>4. CASE job[r].prompt = p
      <4>1. current'[p] = job[r].version /\ job[r].version # 0
        BY <3>2, <3>3, <3>4, PromptAssumption
      <4> QED BY <2>2, <3>2, <3>4, <4>1
    <3>5. CASE job[r].prompt # p
      <4>1. current'[p] = current[p]
        BY <3>2, <3>3, <3>5
      <4> QED BY <2>1, <2>2, <4>1
    <3> QED BY <3>4, <3>5
  <2>5. current' = current \/ \E r \in Requests : Publish(r)
    <3>1. ASSUME NEW r \in Requests, Moves(r)  PROVE current' = current
      BY <3>1, MovesKeep
    <3>2. ASSUME NEW r \in Requests, InsertVersion(r)  PROVE current' = current
      BY <3>2 DEF InsertVersion
    <3>3. ASSUME NEW c \in Calls, Serve(c)  PROVE current' = current
      BY <3>3 DEF Serve, ResolvePrompt, ResolveVersion, EndCall
    <3>4. ASSUME NEW q \in Prompts, CreatePrompt(q)  PROVE current' = current
      BY <3>4 DEF CreatePrompt
    <3> QED BY <1>1, <3>1, <3>2, <3>3, <3>4, Steps DEF vars
  <2> QED BY <2>3, <2>4, <2>5
<1>2. IInv /\ IInv' /\ [Next]_vars => [Changed]_vars
  BY <1>1
<1> QED BY <1>2, Invariance, PTL DEF Spec, ChangedByPublishing

-----------------------------------------------------------------------------
(* What a call has read holds while nobody commits.                        *)
CallsAgree ==
  \A c \in Calls :
    /\ pc[c] = "idle" => call[c].prompt = NoPrompt
    /\ ~overtaken[c] =>
         /\ pc[c] = "version" => call[c].current = current[call[c].prompt]
         /\ pc[c] = "ended" /\ call[c].prompt # NoPrompt =>
              call[c].prompt \in Prompts /\ call[c].got = Content(call[c].prompt)

LEMMA AgreeInit == Init => CallsAgree
  BY DEF Init, CallsAgree, NoCall, Handlers

LEMMA AgreeServe ==
  ASSUME IInv, CallsAgree, NEW d \in Calls, Serve(d)
  PROVE  CallsAgree'
<1>1. /\ pc \in [Handlers -> {"idle", "insert", "archive", "wait", "publish", "version", "ended"}]
      /\ call \in [Calls -> [prompt : Prompts \cup {NoPrompt}, current : Numbers \cup {0},
                             got : Numbers \cup {0}]]
      /\ overtaken \in [Calls -> BOOLEAN]
      /\ Calls \subseteq Handlers
      /\ NoPrompt \notin Prompts
  BY PromptAssumption DEF IInv, TypeOK, Handlers
<1>2. current' = current /\ version' = version
  BY DEF Serve, ResolvePrompt, ResolveVersion, EndCall
<1>3. \A p : Content(p)' = Content(p)
  BY <1>2 DEF Content, VersionFor, PublishedOf, Highest
<1>4. \A c \in Calls \ {d} : pc'[c] = pc[c] /\ call'[c] = call[c] /\ overtaken'[c] = overtaken[c]
  BY <1>1 DEF Serve, ResolvePrompt, ResolveVersion, EndCall, Goto
<1>5. /\ pc'[d] = "idle" => call'[d].prompt = NoPrompt
      /\ ~overtaken'[d] =>
           /\ pc'[d] = "version" => call'[d].current = current[call'[d].prompt]
           /\ pc'[d] = "ended" /\ call'[d].prompt # NoPrompt =>
                call'[d].prompt \in Prompts /\ call'[d].got = Content(call'[d].prompt)
  <2>1. CASE \E t \in Tenants : ResolvePrompt(d, t)
    <3>1. /\ pc[d] = "idle"
          /\ \/ pc'[d] = "ended" /\ call' = call
             \/ /\ pc'[d] = "version"
                /\ \E p \in Prompts : call'[d] = [prompt |-> p, current |-> current[p], got |-> 0]
      BY <1>1, <2>1 DEF ResolvePrompt, Goto, Nearest, InScope
    <3>2. CASE pc'[d] = "ended" /\ call' = call
      <4>1. call[d].prompt = NoPrompt
        BY <3>1 DEF CallsAgree
      <4> QED BY <3>2, <4>1
    <3>3. CASE /\ pc'[d] = "version"
               /\ \E p \in Prompts : call'[d] = [prompt |-> p, current |-> current[p], got |-> 0]
      <4>1. PICK p \in Prompts : call'[d] = [prompt |-> p, current |-> current[p], got |-> 0]
        BY <3>3
      <4>2. call'[d].prompt = p /\ call'[d].current = current[p]
        BY <4>1
      <4> QED BY <3>3, <4>2
    <3> QED BY <3>1, <3>2, <3>3
  <2>2. CASE ResolveVersion(d)
    <3>1. /\ pc[d] = "version" /\ pc'[d] = "ended" /\ overtaken' = overtaken
          /\ call'[d].prompt = call[d].prompt
          /\ call'[d].got = VersionFor(call[d].prompt, call[d].current)
      BY <1>1, <2>2 DEF ResolveVersion, Goto
    <3>2. call[d].prompt \in Prompts
      BY <3>1 DEF IInv, JobsInRange
    <3> QED BY <3>1, <3>2 DEF CallsAgree, Content
  <2>3. CASE EndCall(d)
    BY <1>1, <2>3 DEF EndCall, Goto, NoCall
  <2> QED BY <2>1, <2>2, <2>3 DEF Serve
<1>6. ASSUME NEW c \in Calls
      PROVE  /\ pc'[c] = "idle" => call'[c].prompt = NoPrompt
             /\ ~overtaken'[c] =>
                  /\ pc'[c] = "version" => call'[c].current = current[call'[c].prompt]
                  /\ pc'[c] = "ended" /\ call'[c].prompt # NoPrompt =>
                       /\ call'[c].prompt \in Prompts
                       /\ call'[c].got = Content(call'[c].prompt)
  BY <1>4, <1>5 DEF CallsAgree
<1>7. \A c \in Calls : Content(call[c].prompt)' = Content(call'[c].prompt)
  BY <1>2 DEF Content, VersionFor, PublishedOf, Highest
<1> QED BY <1>2, <1>6, <1>7 DEF CallsAgree

LEMMA AgreeWrites ==
  ASSUME IInv, CallsAgree,
         \/ \E p \in Prompts : CreatePrompt(p)
         \/ \E r \in Requests : InsertVersion(r) \/ Publish(r)
  PROVE  CallsAgree'
<1>1. call' = call /\ \A c \in Calls : pc'[c] = pc[c] /\ overtaken'[c] = (pc[c] # "idle")
  <2>1. ASSUME NEW p \in Prompts, CreatePrompt(p)
        PROVE  call' = call /\ \A c \in Calls : pc'[c] = pc[c] /\ overtaken'[c] = (pc[c] # "idle")
    BY <2>1 DEF CreatePrompt, Overtake
  <2>2. ASSUME NEW r \in Requests, InsertVersion(r) \/ Publish(r)
        PROVE  call' = call /\ \A c \in Calls : pc'[c] = pc[c] /\ overtaken'[c] = (pc[c] # "idle")
    <3>1. Leave(r) /\ call' = call /\ Overtake
      BY <2>2 DEF InsertVersion, Publish
    <3> QED BY <3>1, LeaveEffect DEF Overtake
  <2> QED BY <2>1, <2>2
<1> QED BY <1>1 DEF CallsAgree

LEMMA AgreeStep == IInv /\ CallsAgree /\ [Next]_vars => CallsAgree'
<1> SUFFICES ASSUME IInv, CallsAgree, [Next]_vars PROVE CallsAgree'
  OBVIOUS
<1>1. ASSUME call' = call, overtaken' = overtaken, current' = current, version' = version,
             \A c \in Calls : pc'[c] = pc[c]
      PROVE  CallsAgree'
  <2>1. \A c \in Calls : Content(call[c].prompt)' = Content(call[c].prompt)
    BY <1>1 DEF Content, VersionFor, PublishedOf, Highest
  <2> QED BY <1>1, <2>1 DEF CallsAgree
<1>2. ASSUME NEW r \in Requests, Moves(r) PROVE \A c \in Calls : pc'[c] = pc[c]
  BY <1>2, MovedJobs, PromptAssumption DEF IInv, TypeOK, Handlers
<1>3. CASE \E r \in Requests : Moves(r)
  BY <1>1, <1>2, <1>3, MovesKeep
<1>4. CASE UNCHANGED vars
  BY <1>1, <1>4 DEF vars
<1> QED BY <1>3, <1>4, Steps, AgreeServe, AgreeWrites

(* A call during which nobody commits gets the current version, or without *)
(* one the highest published version if there is any (resolvePrompt,       *)
(* resolvePromptVersion).                                                  *)
THEOREM LookupsAgree == Spec => []UndisturbedLookups
<1>1. Spec => []CallsAgree
  BY AgreeInit, AgreeStep, Invariance, PTL DEF Spec
<1>2. ASSUME IInv, CallsAgree PROVE UndisturbedLookups
  <2> SUFFICES ASSUME NEW c \in Calls, pc[c] = "ended", ~overtaken[c], call[c].prompt # NoPrompt
               PROVE  LET p == call[c].prompt IN
                      IF current[p] # 0 THEN call[c].got = current[p]
                      ELSE \/ /\ call[c].got \in PublishedOf(p)
                              /\ \A v \in PublishedOf(p) : v <= call[c].got
                           \/ call[c].got = 0 /\ PublishedOf(p) = {}
    BY DEF UndisturbedLookups
  <2> DEFINE p == call[c].prompt
  <2>1. p \in Prompts /\ call[c].got = Content(p)
    BY <1>2 DEF CallsAgree
  <2> HIDE DEF p
  <2>2. CASE current[p] # 0
    <3>1. Content(p) = current[p]
      BY <1>2, <2>1, <2>2, ContentIsCurrent
    <3> QED BY <2>1, <2>2, <3>1 DEF p
  <2>3. CASE current[p] = 0
    <3>1. Content(p) = Highest(PublishedOf(p))
      BY <2>3 DEF Content, VersionFor
    <3>2. PublishedOf(p) \subseteq 1..MaxVersion[p] /\ MaxVersion[p] \in Nat
      BY <1>2, <2>1, PublishedInRange, PromptAssumption DEF IInv
    <3>3. /\ \A v \in PublishedOf(p) : v <= Highest(PublishedOf(p))
          /\ PublishedOf(p) # {} => Highest(PublishedOf(p)) \in PublishedOf(p)
          /\ PublishedOf(p) = {} => Highest(PublishedOf(p)) = 0
      BY <3>2, HighestIsGreatest DEF Highest
    <3> QED BY <2>1, <2>3, <3>1, <3>3 DEF p
  <2> QED BY <2>2, <2>3
<1> QED BY <1>1, <1>2, Invariance, PTL
===============================================================================
