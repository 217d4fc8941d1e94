------------------------ MODULE WebhookDeliveryProofs ------------------------
(***************************************************************************)
(* Safety of the webhooks for every number of events, retries, webhooks    *)
(* and failures.                                                           *)
(***************************************************************************)
EXTENDS WebhookDelivery, FiniteSetTheorems, TLAPS

-----------------------------------------------------------------------------
(* The inductive invariant.  A sender that is at work has a delivery that  *)
(* has a row, a dispatch the one it created last; and what it is about to  *)
(* store as accepted was accepted ...                                      *)
SendersOK ==
  \A s \in Senders :
    /\ doing[s] # Nothing <=> pc[s] \in {"ready", "sent", "reading", "save"}
    /\ doing[s] # Nothing => status[doing[s]] # "absent"
    /\ s \in Events /\ doing[s] # Nothing => doing[s] = <<s, place[s]>>
    /\ s \in Retries => pc[s] # "next"
    /\ pc[s] \in {"reading", "save"} /\ answer[s] = "ok" => doing[s] \in accepted

Settled(d) == status[d] \in {"succeeded", "failed"}

(* ... a dispatch created rows for the webhooks it wants up to its place,  *)
(* and had each outcome before it went on ...                              *)
PlacesOK ==
  \A e \in Events :
    /\ place[e] <= began[e]
    /\ pc[e] = "idle" => place[e] = 0
    /\ pc[e] = "done" => Remaining(e) = {}
    /\ \A h \in Hooks :
         /\ status[<<e, h>>] # "absent" => h <= place[e] /\ Wants(e, h)
         /\ h <= place[e] /\ Wants(e, h) => status[<<e, h>>] # "absent"
         /\ h < place[e] /\ Wants(e, h) => Settled(<<e, h>>)
         /\ h = place[e] /\ Wants(e, h) /\ pc[e] \in {"next", "done"} => Settled(<<e, h>>)

(* ... and rows and counts agree.                                          *)
Core == TypeOK /\ SendersOK /\ PlacesOK /\ RowsAgree

Inv == Core /\ AttemptsCounted

-----------------------------------------------------------------------------
USE DEF Goto

LEMMA InitCore == Init => Core
<1> SUFFICES ASSUME Init PROVE Core
  OBVIOUS
<1> USE WebhookAssumption DEF Init, Senders, Deliveries
<1>1. TypeOK
  BY DEF TypeOK
<1>2. SendersOK
  BY DEF SendersOK
<1>3. PlacesOK
  BY DEF PlacesOK, Remaining, Hooks
<1>4. RowsAgree
  BY DEF RowsAgree
<1> QED BY <1>1, <1>2, <1>3, <1>4 DEF Core

LEMMA CoreCreateWebhook == ASSUME Core, CreateWebhook PROVE Core'
<1> USE WebhookAssumption DEF Core, CreateWebhook, row, history
<1>1. TypeOK'
  BY DEF TypeOK
<1>2. SendersOK'
  BY DEF SendersOK
<1>3. PlacesOK'
  BY DEF PlacesOK, Remaining, Settled, Wants
<1>4. RowsAgree'
  BY DEF RowsAgree
<1> QED BY <1>1, <1>2, <1>3, <1>4

LEMMA CoreDispatch == ASSUME Core, NEW e \in Events, Dispatch(e) PROVE Core'
<1> USE WebhookAssumption DEF Core, Dispatch, row, history, Senders
<1>1. TypeOK'
  BY DEF TypeOK
<1>2. SendersOK'
  BY DEF SendersOK, TypeOK
<1>3. PlacesOK'
  BY DEF PlacesOK, Remaining, Settled, Wants, TypeOK, Hooks
<1>4. RowsAgree'
  BY DEF RowsAgree
<1> QED BY <1>1, <1>2, <1>3, <1>4

LEMMA CoreFinish == ASSUME Core, NEW e \in Events, Finish(e) PROVE Core'
<1> USE WebhookAssumption DEF Core, Finish, row, history, Senders
<1>1. TypeOK'
  BY DEF TypeOK
<1>2. SendersOK'
  BY DEF SendersOK, TypeOK
<1>3. PlacesOK'
  BY DEF PlacesOK, Remaining, Settled, Wants, TypeOK, Hooks
<1>4. RowsAgree'
  BY DEF RowsAgree
<1> QED BY <1>1, <1>2, <1>3, <1>4

LEMMA CoreCreate == ASSUME Core, NEW e \in Events, Create(e) PROVE Core'
<1> USE WebhookAssumption DEF Core, history
<1>1. PICK h \in Hooks :
        /\ IsNext(e, h)
        /\ place' = [place EXCEPT ![e] = h]
        /\ doing' = [doing EXCEPT ![e] = <<e, h>>]
        /\ status' = [status EXCEPT ![<<e, h>>] = "pending"]
  BY DEF Create
<1>2. /\ pc[e] = "next" /\ Goto(e, "ready")
      /\ UNCHANGED <<hooks, began, answer, response, due, attempts, posts, unsaved, accepted, errors, crashes>>
  BY DEF Create
<1>3. /\ e \in Senders /\ <<e, h>> \in Deliveries /\ <<e, h>> # Nothing
      /\ h \in 1..began[e] /\ h > place[e] /\ Wants(e, h) /\ status[<<e, h>>] = "absent"
  BY <1>1 DEF Senders, Deliveries, IsNext, Remaining, PlacesOK, TypeOK, Hooks
<1>4. TypeOK'
  BY <1>1, <1>2, <1>3 DEF TypeOK, Hooks
<1>5. SendersOK'
  BY <1>1, <1>2, <1>3 DEF SendersOK, TypeOK, Senders
<1>6. PlacesOK'
  <2> SUFFICES ASSUME NEW f \in Events
               PROVE  /\ place'[f] <= began'[f]
                      /\ pc'[f] = "idle" => place'[f] = 0
                      /\ pc'[f] = "done" => Remaining(f)' = {}
                      /\ \A g \in Hooks :
                           /\ status'[<<f, g>>] # "absent" => g <= place'[f] /\ Wants(f, g)
                           /\ g <= place'[f] /\ Wants(f, g) => status'[<<f, g>>] # "absent"
                           /\ g < place'[f] /\ Wants(f, g) => Settled(<<f, g>>)'
                           /\ g = place'[f] /\ Wants(f, g) /\ pc'[f] \in {"next", "done"} => Settled(<<f, g>>)'
    BY DEF PlacesOK, Wants
  <2>1. CASE f # e
    <3>1. /\ place'[f] = place[f] /\ pc'[f] = pc[f] /\ began' = began
          /\ \A g \in Hooks : status'[<<f, g>>] = status[<<f, g>>]
      BY <2>1, <1>1, <1>2, <1>4 DEF TypeOK, Senders, Deliveries
    <3>2. Remaining(f)' = Remaining(f)
      BY <3>1 DEF Remaining, Wants
    <3> QED BY <3>1, <3>2 DEF PlacesOK, Settled
  <2>2. CASE f = e
    <3>1. place'[e] = h /\ pc'[e] = "ready" /\ began' = began /\ status'[<<e, h>>] = "pending"
      BY <1>1, <1>2, <1>3 DEF TypeOK
    <3>2. \A g \in Hooks : g # h => status'[<<e, g>>] = status[<<e, g>>]
      BY <1>1, <1>4 DEF TypeOK, Deliveries
    <3>3. place[e] \in Nat /\ h \in Nat /\ began[e] \in Nat /\ \A g \in Hooks : g \in Nat
      BY DEF TypeOK, Hooks
    <3>4. \A g \in Hooks : g < h /\ Wants(e, g) => g <= place[e]
      BY <1>1, <1>3, <3>3 DEF IsNext, Remaining, Hooks
    <3>5. \A g \in Hooks : g < h /\ Wants(e, g) => Settled(<<e, g>>)
      BY <1>2, <3>3, <3>4 DEF PlacesOK
    <3>6. ASSUME NEW g \in Hooks
          PROVE  /\ status'[<<e, g>>] # "absent" => g <= h /\ Wants(e, g)
                 /\ g <= h /\ Wants(e, g) => status'[<<e, g>>] # "absent"
                 /\ g < h /\ Wants(e, g) => Settled(<<e, g>>)'
      <4>1. CASE g = h
        BY <4>1, <1>3, <3>1, <3>3
      <4>2. CASE g # h
        <5>1. status'[<<e, g>>] = status[<<e, g>>]
          BY <4>2, <3>2
        <5>2. status[<<e, g>>] # "absent" => g <= place[e] /\ Wants(e, g)
          BY DEF PlacesOK
        <5>3. g < h /\ Wants(e, g) => Settled(<<e, g>>)'
          BY <3>5, <5>1 DEF Settled
        <5> HIDE WebhookAssumption DEF Core, Create, row, history
        <5>4. status'[<<e, g>>] # "absent" => g <= h /\ Wants(e, g)
          BY <1>3, <3>3, <5>1, <5>2
        <5>5. g <= h /\ Wants(e, g) => g < h
          BY <4>2, <3>3
        <5>6. Settled(<<e, g>>)' => status'[<<e, g>>] # "absent"
          BY DEF Settled
        <5> QED BY <5>3, <5>4, <5>5, <5>6
      <4> QED BY <4>1, <4>2
    <3> QED BY <2>2, <1>3, <3>1, <3>3, <3>6
  <2> QED BY <2>1, <2>2
<1>7. RowsAgree'
  BY <1>1, <1>2, <1>3 DEF RowsAgree, TypeOK
<1> QED BY <1>4, <1>5, <1>6, <1>7

LEMMA CoreRetry == ASSUME Core, NEW r \in Retries, NEW d \in Deliveries, Retry(r, d) PROVE Core'
<1> USE WebhookAssumption DEF Core, Retry, row, history, Senders
<1>1. TypeOK'
  BY DEF TypeOK
<1>2. SendersOK'
  BY DEF SendersOK, TypeOK
<1>3. \A e \in Events : pc'[e] = pc[e]
  BY DEF TypeOK
<1>4. PlacesOK'
  BY <1>3 DEF PlacesOK, Remaining, Settled, Wants
<1>5. RowsAgree'
  BY DEF RowsAgree
<1> QED BY <1>1, <1>2, <1>4, <1>5

(* Posting and the answer move only the sender.                            *)
LEMMA CoreSend ==
  ASSUME Core, NEW s \in Senders, Post(s) \/ Answer(s) \/ Abort(s) \/ ReadBody(s)
  PROVE  Core'
<1> USE WebhookAssumption DEF Core
<1>1. PICK l \in {"sent", "reading", "save"} :
        /\ Goto(s, l) /\ (l = "sent" => pc[s] = "ready")
        /\ (l # "sent" => pc[s] \in {"sent", "reading"} /\ answer'[s] \in {"none", "ok", "error"})
        /\ (l # "sent" /\ answer'[s] = "ok" => doing[s] \in accepted')
  BY DEF Post, Answer, Abort, ReadBody, SendersOK, TypeOK, history
<1>2. /\ UNCHANGED <<hooks, began, place, doing, status, response, due, attempts, errors, crashes>>
      /\ \A t \in Senders : t # s => answer'[t] = answer[t]
  BY DEF Post, Answer, Abort, ReadBody, TypeOK, row, history
<1>3. pc[s] \in {"ready", "sent", "reading"} /\ doing[s] \in Deliveries
  BY <1>1 DEF SendersOK, TypeOK
<1>4. accepted \subseteq accepted' /\ accepted' \subseteq Deliveries
  BY <1>3 DEF Post, Answer, Abort, ReadBody, TypeOK, history
<1>5. TypeOK'
  <2>1. posts' \in [Deliveries -> Nat] /\ unsaved' = unsaved
    BY <1>3 DEF Post, Answer, Abort, ReadBody, TypeOK, history
  <2>2. answer' \in [Senders -> {"none", "ok", "error"}]
    BY DEF Post, Answer, Abort, ReadBody, TypeOK
  <2> QED BY <1>1, <1>2, <1>4, <2>1, <2>2 DEF TypeOK
<1>6. SendersOK'
  BY <1>1, <1>2, <1>3, <1>4 DEF SendersOK, TypeOK
<1>7. PlacesOK'
  <2>1. \A e \in Events : /\ pc'[e] \in {"next", "done"} => pc'[e] = pc[e]
                          /\ pc'[e] = "idle" => pc[e] = "idle"
    BY <1>1 DEF TypeOK, Senders
  <2> QED BY <1>2, <2>1 DEF PlacesOK, Remaining, Settled, Wants
<1>8. RowsAgree'
  BY <1>2, <1>4 DEF RowsAgree
<1> QED BY <1>5, <1>6, <1>7, <1>8

LEMMA CoreSave == ASSUME Core, NEW s \in Senders, Save(s) PROVE Core'
<1> USE WebhookAssumption DEF Core
<1>1. /\ pc[s] = "save" /\ doing[s] \in Deliveries /\ status[doing[s]] # "absent"
      /\ Goto(s, IF s \in Events THEN "next" ELSE "done")
      /\ doing' = [doing EXCEPT ![s] = Nothing]
      /\ answer' = [answer EXCEPT ![s] = "none"]
      /\ status' = [status EXCEPT ![doing[s]] = NewStatus(s)]
      /\ attempts' = [attempts EXCEPT ![doing[s]] = attempts[doing[s]] + 1]
      /\ due' = [due EXCEPT ![doing[s]] = answer[s] # "ok"]
      /\ response' = IF answer[s] = "none" THEN response
                     ELSE [response EXCEPT ![doing[s]] = answer[s]]
      /\ UNCHANGED <<hooks, began, place, posts, unsaved, accepted, errors, crashes>>
  BY DEF Save, SendersOK, TypeOK, history, Attempts
<1>2. NewStatus(s) \in {"succeeded", "failed"} /\ (NewStatus(s) = "succeeded" <=> answer[s] = "ok")
  BY DEF NewStatus
<1>3. \A d \in Deliveries : d # doing[s] =>
        /\ status'[d] = status[d] /\ attempts'[d] = attempts[d]
        /\ due'[d] = due[d] /\ response'[d] = response[d]
  BY <1>1 DEF TypeOK
<1>4. /\ status'[doing[s]] = NewStatus(s)
      /\ attempts'[doing[s]] = attempts[doing[s]] + 1
      /\ due'[doing[s]] = (answer[s] # "ok")
      /\ answer[s] = "ok" => response'[doing[s]] = "ok"
  BY <1>1 DEF TypeOK
<1>5. TypeOK'
  <2>1. due' \in [Deliveries -> BOOLEAN]
    BY <1>1 DEF TypeOK
  <2>2. response' \in [Deliveries -> {"none", "ok", "error"}]
    BY <1>1 DEF TypeOK
  <2>3. status' \in [Deliveries -> {"absent", "pending", "succeeded", "failed"}]
    BY <1>1, <1>2 DEF TypeOK
  <2>4. attempts' \in [Deliveries -> Nat]
    BY <1>1 DEF TypeOK
  <2> QED BY <1>1, <2>1, <2>2, <2>3, <2>4 DEF TypeOK
<1>6. SendersOK'
  <2>1. \A d \in Deliveries : status[d] # "absent" => status'[d] # "absent"
    BY <1>2, <1>3, <1>4
  <2>2. \A t \in Senders : t # s => pc'[t] = pc[t] /\ doing'[t] = doing[t] /\ answer'[t] = answer[t]
    BY <1>1 DEF TypeOK
  <2>3. doing'[s] = Nothing /\ pc'[s] \in {"next", "done"} /\ (s \in Retries => pc'[s] = "done")
    BY <1>1 DEF TypeOK
  <2> QED BY <1>1, <2>1, <2>2, <2>3 DEF SendersOK, TypeOK
<1>7. PlacesOK'
  <2> SUFFICES ASSUME NEW e \in Events
               PROVE  /\ place'[e] <= began'[e]
                      /\ pc'[e] = "idle" => place'[e] = 0
                      /\ pc'[e] = "done" => Remaining(e)' = {}
                      /\ \A h \in Hooks :
                           /\ status'[<<e, h>>] # "absent" => h <= place'[e] /\ Wants(e, h)
                           /\ h <= place'[e] /\ Wants(e, h) => status'[<<e, h>>] # "absent"
                           /\ h < place'[e] /\ Wants(e, h) => Settled(<<e, h>>)'
                           /\ h = place'[e] /\ Wants(e, h) /\ pc'[e] \in {"next", "done"} => Settled(<<e, h>>)'
    BY DEF PlacesOK, Wants
  <2>1. ASSUME NEW h \in Hooks
        PROVE  /\ <<e, h>> \in Deliveries
               /\ status'[<<e, h>>] = "absent" <=> status[<<e, h>>] = "absent"
               /\ Settled(<<e, h>>) => Settled(<<e, h>>)'
    <3>1. <<e, h>> \in Deliveries
      BY DEF Deliveries
    <3> QED BY <3>1, <1>1, <1>2, <1>3, <1>4 DEF Settled
  <2>2. /\ pc'[e] = "idle" => pc[e] = "idle"
        /\ pc'[e] = "done" => pc[e] = "done"
        /\ pc'[e] = "next" => pc[e] = "next" \/ e = s
    BY <1>1 DEF TypeOK, Senders
  <2>3. e = s => Settled(<<e, place[e]>>)'
    BY <1>1, <1>2, <1>4 DEF SendersOK, Settled
  <2>4. Remaining(e)' = Remaining(e)
    BY <1>1 DEF Remaining, Wants
  <2> QED BY <1>1, <2>1, <2>2, <2>3, <2>4 DEF PlacesOK
<1>8. RowsAgree'
  <2>1. answer[s] = "ok" => doing[s] \in accepted
    BY <1>1 DEF SendersOK
  <2>2. attempts[doing[s]] \in Nat
    BY <1>1 DEF TypeOK
  <2>3. ASSUME NEW d \in Deliveries
        PROVE  /\ status'[d] = "succeeded" => d \in accepted' /\ response'[d] = "ok"
               /\ due'[d] <=> status'[d] = "failed"
               /\ status'[d] \in {"absent", "pending"} <=> attempts'[d] = 0
    <3>1. CASE d = doing[s]
      <4>1. due'[d] <=> answer[s] # "ok"
        BY <3>1, <1>4
      <4>2. attempts'[d] # 0 /\ status'[d] = NewStatus(s) /\ (answer[s] = "ok" => response'[d] = "ok")
        BY <3>1, <1>4, <2>2
      <4> QED BY <3>1, <1>1, <1>2, <2>1, <4>1, <4>2
    <3>2. CASE d # doing[s]
      BY <3>2, <1>1, <1>3 DEF RowsAgree
    <3> QED BY <3>1, <3>2
  <2> QED BY <2>3 DEF RowsAgree
<1> QED BY <1>5, <1>6, <1>7, <1>8

LEMMA CoreStop == ASSUME Core, NEW s \in Senders, Fail(s) \/ Die(s) PROVE Core'
<1> USE WebhookAssumption DEF Core
<1>0. /\ pc[s] \in {"next", "ready", "sent", "reading", "save"} /\ Stop(s)
      /\ errors' \in Nat /\ crashes' \in Nat
  BY DEF Fail, Die, TypeOK
<1>1. /\ Goto(s, "stopped")
      /\ doing' = [doing EXCEPT ![s] = Nothing] /\ answer' = [answer EXCEPT ![s] = "none"]
      /\ UNCHANGED <<hooks, began, place, status, response, due, attempts, posts, accepted>>
      /\ pc[s] \in {"sent", "reading", "save"} => unsaved' = [unsaved EXCEPT ![doing[s]] = @ + 1]
      /\ pc[s] \notin {"sent", "reading", "save"} => unsaved' = unsaved
  BY <1>0 DEF Stop, row
<1>2. TypeOK'
  BY <1>0, <1>1 DEF TypeOK
<1>3. SendersOK'
  BY <1>0, <1>1 DEF SendersOK, TypeOK
<1>4. \A e \in Events : pc'[e] # "stopped" => pc'[e] = pc[e]
  BY <1>0, <1>1 DEF TypeOK, Senders
<1>5. PlacesOK'
  BY <1>1, <1>4 DEF PlacesOK, Remaining, Settled, Wants
<1>6. RowsAgree'
  BY <1>1 DEF RowsAgree
<1> QED BY <1>2, <1>3, <1>5, <1>6

LEMMA NextCore == Core /\ [Next]_vars => Core'
<1> SUFFICES ASSUME Core, [Next]_vars PROVE Core'
  OBVIOUS
<1>1. CASE UNCHANGED vars
  <2> USE <1>1 DEF Core, vars, row, history
  <2>1. TypeOK'
    BY DEF TypeOK
  <2>2. SendersOK'
    BY DEF SendersOK
  <2>3. PlacesOK'
    BY DEF PlacesOK, Remaining, Settled, Wants
  <2>4. RowsAgree'
    BY DEF RowsAgree
  <2> QED BY <2>1, <2>2, <2>3, <2>4
<1>2. CASE Next
  BY <1>2, CoreCreateWebhook, CoreDispatch, CoreCreate, CoreFinish, CoreRetry, CoreSend, CoreSave,
     CoreStop DEF Next, Deliver
<1> QED BY <1>1, <1>2

-----------------------------------------------------------------------------
(* Counting.  The senders of a delivery gain one when it is posted ...     *)
LEMMA FiniteSending == ASSUME NEW d PROVE IsFiniteSet(Sending(d))
<1>1. IsFiniteSet(Senders) /\ Sending(d) \subseteq Senders
  BY WebhookAssumption DEF Sending
<1> QED BY <1>1, FS_Subset

LEMMA CountPost ==
  ASSUME Inv, NEW s \in Senders, Post(s)
  PROVE  AttemptsCounted'
<1>1. Core /\ Core'
  BY CoreSend DEF Inv
<1>2. /\ pc[s] = "ready" /\ doing[s] \in Deliveries /\ Goto(s, "sent")
      /\ posts' = [posts EXCEPT ![doing[s]] = @ + 1]
      /\ UNCHANGED <<doing, attempts, unsaved>>
  BY <1>1 DEF Post, Core, SendersOK, TypeOK, row
<1>3. ASSUME NEW d \in Deliveries
      PROVE  attempts'[d] + unsaved'[d] + Cardinality(Sending(d)') = posts'[d]
  <2>0. /\ attempts[d] \in Nat /\ unsaved[d] \in Nat /\ posts[d] \in Nat
        /\ attempts[d] + unsaved[d] + Cardinality(Sending(d)) = posts[d]
    BY <1>1 DEF Core, TypeOK, Inv, AttemptsCounted
  <2>1. CASE d = doing[s]
    <3>1. Sending(d)' = Sending(d) \cup {s} /\ s \notin Sending(d)
      BY <2>1, <1>1, <1>2 DEF Sending, Core, TypeOK
    <3>2. Cardinality(Sending(d)') = Cardinality(Sending(d)) + 1
      BY <3>1, FiniteSending, FS_AddElement
    <3>3. posts'[d] = posts[d] + 1
      BY <2>1, <1>1, <1>2 DEF Core, TypeOK
    <3>4. Cardinality(Sending(d)) \in Nat
      BY FiniteSending, FS_CardinalityType
    <3> QED BY <2>0, <3>2, <3>3, <3>4, <1>2
  <2>2. CASE d # doing[s]
    <3>1. Sending(d)' = Sending(d)
      BY <2>2, <1>1, <1>2 DEF Sending, Core, TypeOK
    <3>2. posts'[d] = posts[d]
      BY <2>2, <1>1, <1>2 DEF Core, TypeOK
    <3> QED BY <2>0, <3>1, <3>2, <1>2
  <2> QED BY <2>1, <2>2
<1> QED BY <1>3 DEF AttemptsCounted

(* ... and lose one when its outcome is stored or its sender stops.        *)
LEMMA CountEnd ==
  ASSUME Inv, NEW s \in Senders, Save(s) \/ Fail(s) \/ Die(s), pc[s] \in {"sent", "reading", "save"}
  PROVE  AttemptsCounted'
<1>1. Core
  BY DEF Inv
<1>2. /\ doing[s] \in Deliveries /\ doing' = [doing EXCEPT ![s] = Nothing]
      /\ \A t \in Senders : t # s => pc'[t] = pc[t]
      /\ UNCHANGED posts
      /\ \/ /\ attempts' = [attempts EXCEPT ![doing[s]] = attempts[doing[s]] + 1]
            /\ UNCHANGED unsaved
         \/ /\ unsaved' = [unsaved EXCEPT ![doing[s]] = unsaved[doing[s]] + 1]
            /\ UNCHANGED attempts
  BY <1>1 DEF Save, Fail, Die, Stop, Attempts, Core, SendersOK, TypeOK, row, history
<1>3. ASSUME NEW d \in Deliveries
      PROVE  attempts'[d] + unsaved'[d] + Cardinality(Sending(d)') = posts'[d]
  <2>0. /\ attempts[d] \in Nat /\ unsaved[d] \in Nat /\ posts[d] \in Nat
        /\ attempts[d] + unsaved[d] + Cardinality(Sending(d)) = posts[d]
    BY <1>1 DEF Core, TypeOK, Inv, AttemptsCounted
  <2>1. CASE d = doing[s]
    <3>1. Sending(d)' = Sending(d) \ {s} /\ s \in Sending(d)
      BY <2>1, <1>1, <1>2, WebhookAssumption DEF Sending, Core, TypeOK
    <3>2. Cardinality(Sending(d)') = Cardinality(Sending(d)) - 1
      BY <3>1, FiniteSending, FS_RemoveElement
    <3>3. attempts'[d] + unsaved'[d] = attempts[d] + unsaved[d] + 1
      BY <2>0, <2>1, <1>1, <1>2 DEF Core, TypeOK
    <3>4. Cardinality(Sending(d)) \in Nat
      BY FiniteSending, FS_CardinalityType
    <3>5. attempts'[d] \in Nat /\ unsaved'[d] \in Nat
      BY <2>0, <2>1, <1>1, <1>2 DEF Core, TypeOK
    <3> QED BY <2>0, <3>2, <3>3, <3>4, <3>5, <1>2
  <2>2. CASE d # doing[s]
    <3>1. Sending(d)' = Sending(d)
      BY <2>2, <1>1, <1>2, WebhookAssumption DEF Sending, Core, TypeOK
    <3>2. attempts'[d] = attempts[d] /\ unsaved'[d] = unsaved[d]
      BY <2>2, <1>1, <1>2 DEF Core, TypeOK
    <3> QED BY <2>0, <3>1, <3>2, <1>2
  <2> QED BY <2>1, <2>2
<1> QED BY <1>3 DEF AttemptsCounted

(* What moves no sender over the line changes no count.                    *)
LEMMA CountKept ==
  ASSUME AttemptsCounted, UNCHANGED <<attempts, unsaved, posts>>,
         \A s \in Senders :
           \/ pc'[s] = pc[s] /\ doing'[s] = doing[s]
           \/ /\ pc[s] \notin {"sent", "reading", "save"} /\ pc'[s] \notin {"sent", "reading", "save"}
           \/ /\ pc[s] \in {"sent", "reading"} /\ pc'[s] \in {"reading", "save"}
              /\ doing'[s] = doing[s]
  PROVE  AttemptsCounted'
<1>1. \A d : Sending(d)' = Sending(d)
  BY DEF Sending
<1> QED BY <1>1 DEF AttemptsCounted

LEMMA NextInv == Inv /\ [Next]_vars => Inv'
<1> SUFFICES ASSUME Inv, [Next]_vars PROVE Inv'
  OBVIOUS
<1>0. Core /\ Core'
  BY NextCore DEF Inv
<1>1. AttemptsCounted'
  <2>1. CASE UNCHANGED vars
    BY <2>1, CountKept DEF vars, row, history, Inv
  <2>2. CASE CreateWebhook
    BY <2>2, CountKept DEF CreateWebhook, row, history, Inv
  <2>3. ASSUME NEW e \in Events, Dispatch(e) \/ Create(e) \/ Finish(e) PROVE AttemptsCounted'
    <3>1. UNCHANGED <<attempts, unsaved, posts>> /\ e \in Senders
      BY <2>3 DEF Dispatch, Create, Finish, row, history, Senders
    <3>2. \A s \in Senders : s # e => pc'[s] = pc[s] /\ doing'[s] = doing[s]
      BY <2>3, <1>0 DEF Dispatch, Create, Finish, Core, TypeOK
    <3>3. pc[e] \notin {"sent", "reading", "save"} /\ pc'[e] \notin {"sent", "reading", "save"}
      BY <2>3, <3>1, <1>0 DEF Dispatch, Create, Finish, Core, TypeOK
    <3> QED BY <3>1, <3>2, <3>3, CountKept DEF Inv
  <2>4. ASSUME NEW r \in Retries, NEW d \in Deliveries, Retry(r, d) PROVE AttemptsCounted'
    <3>1. UNCHANGED <<attempts, unsaved, posts>> /\ r \in Senders
      BY <2>4 DEF Retry, row, history, Senders
    <3>2. \A s \in Senders : s # r => pc'[s] = pc[s] /\ doing'[s] = doing[s]
      BY <2>4, <1>0 DEF Retry, Core, TypeOK
    <3>3. pc[r] \notin {"sent", "reading", "save"} /\ pc'[r] \notin {"sent", "reading", "save"}
      BY <2>4, <3>1, <1>0 DEF Retry, Core, TypeOK
    <3> QED BY <3>1, <3>2, <3>3, CountKept DEF Inv
  <2>5. ASSUME NEW s \in Senders, Answer(s) \/ Abort(s) \/ ReadBody(s) PROVE AttemptsCounted'
    <3>1. /\ UNCHANGED <<attempts, unsaved, posts, doing>>
          /\ pc[s] \in {"sent", "reading"} /\ pc'[s] \in {"reading", "save"}
      BY <2>5, <1>0 DEF Answer, Abort, ReadBody, row, history, Core, TypeOK
    <3>2. \A t \in Senders : t # s => pc'[t] = pc[t]
      BY <2>5, <1>0 DEF Answer, Abort, ReadBody, Core, TypeOK
    <3> QED BY <3>1, <3>2, CountKept DEF Inv
  <2>6. ASSUME NEW s \in Senders, Fail(s) \/ Die(s), pc[s] \notin {"sent", "reading", "save"}
        PROVE  AttemptsCounted'
    <3>1. UNCHANGED <<attempts, unsaved, posts>> /\ pc'[s] = "stopped"
      BY <2>6, <1>0 DEF Fail, Die, Stop, row, Core, TypeOK
    <3>2. \A t \in Senders : t # s => pc'[t] = pc[t] /\ doing'[t] = doing[t]
      BY <2>6, <1>0 DEF Fail, Die, Stop, Core, TypeOK
    <3> QED BY <2>6, <3>1, <3>2, CountKept DEF Inv
  <2>7. ASSUME NEW s \in Senders, Save(s) PROVE AttemptsCounted'
    <3>1. pc[s] \in {"sent", "reading", "save"}
      BY <2>7 DEF Save
    <3> QED BY <2>7, <3>1, CountEnd
  <2>8. ASSUME NEW s \in Senders, Fail(s) \/ Die(s) PROVE AttemptsCounted'
    BY <2>6, <2>8, CountEnd
  <2> QED BY <2>1, <2>2, <2>3, <2>4, <2>5, <2>7, <2>8, CountPost DEF Next, Deliver
<1> QED BY <1>0, <1>1 DEF Inv

LEMMA InitInv == Init => Inv
<1> SUFFICES ASSUME Init PROVE Inv
  OBVIOUS
<1>1. \A d : Sending(d) = {}
  BY DEF Init, Sending
<1>2. AttemptsCounted
  BY <1>1, FS_EmptySet DEF AttemptsCounted, Init
<1> QED BY <1>2, InitCore DEF Inv

-----------------------------------------------------------------------------
(* Every variable has its type in every reachable state.                   *)
THEOREM TypeCorrect == Spec => []TypeOK
<1>1. Inv => TypeOK
  BY DEF Inv, Core
<1> QED BY InitInv, NextInv, <1>1, PTL DEF Spec

(* The columns of a delivery's row agree with each other and with what the *)
(* endpoint did, however its senders race, fail or die.                    *)
THEOREM ColumnsAgree == Spec => []RowsAgree
<1>1. Inv => RowsAgree
  BY DEF Inv, Core
<1> QED BY InitInv, NextInv, <1>1, PTL DEF Spec

(* No attempt is counted twice or goes missing while its sender lives.     *)
THEOREM EveryAttemptCounts == Spec => []AttemptsCounted
<1>1. Inv => AttemptsCounted
  BY DEF Inv
<1> QED BY InitInv, NextInv, <1>1, PTL DEF Spec

LEMMA InvInOrder == Inv => InOrder
<1> SUFFICES ASSUME Inv, NEW e \in Events, NEW g \in Hooks, NEW h \in Hooks, g < h,
                    OwnerOf[g] \in {SourceOf[e], AnyTenant}, status[<<e, h>>] # "absent"
             PROVE  status[<<e, g>>] \in {"succeeded", "failed"}
  BY DEF InOrder
<1>1. h <= place[e] /\ Wants(e, g)
  BY DEF Inv, Core, PlacesOK, Wants
<1>2. place[e] \in Nat /\ g \in Nat /\ h \in Nat
  BY DEF Inv, Core, TypeOK, Hooks
<1>3. g < place[e]
  BY <1>1, <1>2
<1> QED BY <1>1, <1>3 DEF Inv, Core, PlacesOK, Settled

(* Webhooks get an event in the order they were created.                   *)
THEOREM SentInOrder == Spec => []InOrder
BY InitInv, NextInv, InvInOrder, PTL DEF Spec

(* A dispatch that returned reached exactly the webhooks that it had to.   *)
THEOREM DispatchReachesAll == Spec => []ReachedAll
<1>1. Inv => ReachedAll
  <2> SUFFICES ASSUME Inv, NEW e \in Events, pc[e] = "done", NEW h \in Hooks
               PROVE  IF h <= began[e] /\ (OwnerOf[h] = SourceOf[e] \/ OwnerOf[h] = AnyTenant)
                      THEN status[<<e, h>>] \in {"succeeded", "failed"}
                      ELSE status[<<e, h>>] = "absent"
    BY DEF ReachedAll
  <2>1. /\ place[e] \in Nat /\ began[e] \in Nat /\ h \in Nat /\ h >= 1 /\ place[e] <= began[e]
        /\ Remaining(e) = {}
    BY DEF Inv, Core, TypeOK, PlacesOK, Hooks
  <2>2. CASE h <= began[e] /\ Wants(e, h)
    <3>1. h <= place[e]
      BY <2>1, <2>2 DEF Remaining
    <3>2. h < place[e] \/ h = place[e]
      BY <2>1, <3>1
    <3> QED BY <2>2, <3>2 DEF Inv, Core, PlacesOK, Settled, Wants
  <2>3. CASE ~ (h <= began[e] /\ Wants(e, h))
    <3>1. status[<<e, h>>] # "absent" => h <= place[e] /\ Wants(e, h)
      BY DEF Inv, Core, PlacesOK
    <3>2. status[<<e, h>>] = "absent"
      BY <2>1, <2>3, <3>1
    <3> QED BY <2>3, <3>2 DEF Wants
  <2> QED BY <2>2, <2>3
<1> QED BY InitInv, NextInv, <1>1, PTL DEF Spec

(* A row tells what became of its delivery.                                *)
THEOREM RowsTellTheTruth == Spec => []RowsAreTrue
  BY ColumnsAgree, EveryAttemptCounts, PTL DEF RowsAreTrue

(* A dispatch reaches the webhooks it has to, in order.                    *)
THEOREM ReachesInOrder == Spec => []ReachedInOrder
  BY SentInOrder, DispatchReachesAll, PTL DEF ReachedInOrder

-----------------------------------------------------------------------------
(* The promise of the delivery log: what the senders do to the rows is     *)
(* opening, accepting and settling, or leaves them alone.                  *)
Wanted == {d \in Deliveries : Wants(d[1], d[2])}

LEMMA PromiseInit == Init => Promise!Init
BY DEF Init, Promise!Init

LEMMA CreateOpens ==
  ASSUME Inv, Inv', NEW e \in Events, Create(e)
  PROVE  \E d \in Deliveries : Promise!Open(d)
<1>1. PICK h \in Hooks : /\ IsNext(e, h)
                         /\ status' = [status EXCEPT ![<<e, h>>] = "pending"]
  BY DEF Create
<1> DEFINE d == <<e, h>>
<1>2. d \in Deliveries /\ h \in Remaining(e) /\ UNCHANGED <<attempts, accepted>>
  BY <1>1 DEF Create, Deliveries, IsNext, history
<1>3. d \in Wanted /\ status[d] = "absent" /\ status'[d] = "pending"
  BY <1>1, <1>2 DEF Remaining, Wanted, Inv, Core, TypeOK, PlacesOK, Hooks
<1>0. InOrder'
  BY InvInOrder, PTL
<1>4. ASSUME NEW c \in Wanted, c[1] = e, c[2] < h
      PROVE  status[c] \in {"succeeded", "failed"}
  <2>1. c = <<e, c[2]>> /\ c[2] \in Hooks /\ Wants(e, c[2])
    BY <1>4 DEF Wanted, Deliveries
  <2>2. status'[c] \in {"succeeded", "failed"}
    BY <1>0, <1>3, <1>4, <2>1 DEF InOrder, Wants
  <2>3. c \in Deliveries /\ c # d
    BY <1>4, <2>1 DEF Wanted, Hooks
  <2> QED BY <1>1, <2>2, <2>3 DEF Inv, Core, TypeOK
<1>5. Promise!Open(d)
  BY <1>1, <1>2, <1>3, <1>4 DEF Promise!Open, Promise!Earlier, Wanted
<1> QED BY <1>2, <1>5

LEMMA AnswerAccepts ==
  ASSUME Inv, NEW s \in Senders, Answer(s) \/ Abort(s)
  PROVE  (\E d \in Deliveries : Promise!Accept(d)) \/ UNCHANGED Promise!vars
<1>1. doing[s] \in Deliveries /\ status[doing[s]] # "absent"
  BY WebhookAssumption DEF Answer, Abort, Inv, Core, SendersOK, TypeOK
<1>2. UNCHANGED <<status, attempts>> /\ accepted' \in {accepted, accepted \cup {doing[s]}}
  BY DEF Answer, Abort, row
<1> QED BY <1>1, <1>2 DEF Promise!Accept, Promise!vars

LEMMA SaveSettles ==
  ASSUME Inv, NEW s \in Senders, Save(s)
  PROVE  \E d \in Deliveries : Promise!Settle(d)
<1>1. doing[s] \in Deliveries /\ status[doing[s]] # "absent"
  BY WebhookAssumption DEF Save, Inv, Core, SendersOK, TypeOK
<1>2. NewStatus(s) = "failed" \/ (NewStatus(s) = "succeeded" /\ doing[s] \in accepted)
  BY DEF Save, NewStatus, Inv, Core, SendersOK
<1>3. /\ status' = [status EXCEPT ![doing[s]] = NewStatus(s)]
      /\ attempts' = [attempts EXCEPT ![doing[s]] = attempts[doing[s]] + 1]
      /\ UNCHANGED accepted
  BY DEF Save, Attempts, history
<1>4. Promise!Settle(doing[s])
  BY <1>1, <1>2, <1>3 DEF Promise!Settle
<1> QED BY <1>1, <1>4

LEMMA PromiseStep ==
  ASSUME Inv, Inv', [Next]_vars
  PROVE  [Promise!Next]_(Promise!vars)
<1>1. CASE CreateWebhook \/ UNCHANGED vars
  BY <1>1 DEF CreateWebhook, vars, row, history, Promise!vars
<1>2. ASSUME NEW e \in Events, Dispatch(e) \/ Finish(e)
      PROVE  UNCHANGED Promise!vars
  BY <1>2 DEF Dispatch, Finish, row, history, Promise!vars
<1>3. ASSUME NEW r \in Retries, NEW d \in Deliveries, Retry(r, d)
      PROVE  UNCHANGED Promise!vars
  BY <1>3 DEF Retry, row, history, Promise!vars
<1>4. ASSUME NEW s \in Senders, Post(s) \/ ReadBody(s) \/ Fail(s) \/ Die(s)
      PROVE  UNCHANGED Promise!vars
  BY <1>4 DEF Post, ReadBody, Fail, Die, Stop, row, history, Promise!vars
<1>5. ASSUME NEW e \in Events, Create(e) PROVE Promise!Next
  BY <1>5, CreateOpens DEF Promise!Next
<1>6. ASSUME NEW s \in Senders, Answer(s) \/ Abort(s) PROVE [Promise!Next]_(Promise!vars)
  BY <1>6, AnswerAccepts DEF Promise!Next
<1>7. ASSUME NEW s \in Senders, Save(s) PROVE Promise!Next
  BY <1>7, SaveSettles DEF Promise!Next
<1> QED BY <1>1, <1>2, <1>3, <1>4, <1>5, <1>6, <1>7 DEF Next, Deliver

(* Dispatches, retries, aborted fetches, failures and crashes implement    *)
(* the delivery log, whose steps are of one delivery each.                 *)
THEOREM SendersKeepPromise == Spec => PromiseKept
<1>1. Inv /\ Inv' /\ [Next]_vars => [Promise!Next]_(Promise!vars)
  BY PromiseStep
<1> QED BY InitInv, NextInv, PromiseInit, <1>1, PTL DEF Spec, PromiseKept, Promise!Spec

Outcome == {"succeeded", "failed"}

LogOK ==
  /\ status \in [Deliveries -> {"absent", "pending"} \cup Outcome]
  /\ attempts \in [Deliveries -> Nat]
  /\ \A d \in Deliveries : d \notin Wanted => status[d] = "absent"
  /\ \A d \in Deliveries : status[d] \in {"absent", "pending"} <=> attempts[d] = 0
  /\ \A d \in Deliveries : status[d] = "succeeded" => d \in accepted
  /\ \A c, d \in Wanted :
       c[1] = d[1] /\ c[2] < d[2] /\ status[d] # "absent" => status[c] \in Outcome

LEMMA LogStep == ASSUME LogOK, [Promise!Next]_(Promise!vars) PROVE LogOK'
<1> USE DEF LogOK, Outcome
<1>1. CASE UNCHANGED Promise!vars
  BY <1>1 DEF Promise!vars
<1>2. ASSUME NEW d \in Deliveries, Promise!Accept(d) PROVE LogOK'
  BY <1>2 DEF Promise!Accept
<1>3. ASSUME NEW d \in Deliveries, Promise!Open(d) PROVE LogOK'
  <2>1. /\ d \in Wanted /\ status[d] = "absent" /\ status' = [status EXCEPT ![d] = "pending"]
        /\ \A c \in Wanted : c[1] = d[1] /\ c[2] < d[2] => status[c] \in Outcome
        /\ UNCHANGED <<attempts, accepted>>
    BY <1>3 DEF Promise!Open, Promise!Earlier, Wanted
  <2>2. /\ status'[d] = "pending" /\ Wanted \subseteq Deliveries
        /\ \A c \in Deliveries : c # d => status'[c] = status[c]
    BY <2>1 DEF Wanted
  <2>3. \A c \in Wanted : c[1] = d[1] => c[2] \in Nat
    BY DEF Wanted, Deliveries, Hooks
  <2>4. ASSUME NEW c \in Wanted, NEW x \in Wanted, c[1] = x[1], c[2] < x[2], status'[x] # "absent"
        PROVE  status'[c] \in Outcome
    <3>1. CASE x = d
      BY <2>1, <2>2, <2>3, <2>4, <3>1
    <3>2. CASE x # d
      BY <2>1, <2>2, <2>4, <3>2
    <3> QED
      BY <3>1, <3>2
  <2> QED
    BY <2>1, <2>2, <2>4 DEF Wanted
<1>4. ASSUME NEW d \in Deliveries, Promise!Settle(d) PROVE LogOK'
  <2>1. PICK l \in Outcome :
          /\ status[d] # "absent" /\ status' = [status EXCEPT ![d] = l]
          /\ l = "succeeded" => d \in accepted
          /\ attempts' = [attempts EXCEPT ![d] = attempts[d] + 1] /\ UNCHANGED accepted
    BY <1>4 DEF Promise!Settle
  <2>2. /\ status'[d] = l /\ attempts'[d] = attempts[d] + 1 /\ attempts[d] \in Nat
        /\ \A c \in Deliveries : c # d => status'[c] = status[c] /\ attempts'[c] = attempts[c]
    BY <2>1
  <2>3. Wanted \subseteq Deliveries
    BY DEF Wanted
  <2> QED
    BY <2>1, <2>2, <2>3
<1> QED
  BY <1>1, <1>2, <1>3, <1>4 DEF Promise!Next

(* What the delivery log is good for, whoever implements it: only wanted   *)
(* deliveries, opened in order; a success only where one was accepted; an  *)
(* outcome exactly where there was an attempt.                             *)
THEOREM LogIsTrue == Promise!Spec => []LogOK
<1>1. Promise!Init => LogOK
  BY DEF Promise!Init, LogOK, Wanted
<1> QED
  BY <1>1, LogStep, PTL DEF Promise!Spec

-----------------------------------------------------------------------------
(* The safety half of DispatchEnds: what is still ahead of a dispatch, five *)
(* steps for each webhook it has not come to and those of the delivery at   *)
(* hand, only shrinks.                                                      *)
StepsOf(l) == CASE l = "ready"   -> 5
                [] l = "sent"    -> 4
                [] l = "reading" -> 3
                [] l = "save"    -> 2
                [] l = "next"    -> 1
                [] OTHER         -> 0

Ahead(e) == IF pc[e] \in {"done", "stopped"} THEN 0
            ELSE 5 * (began[e] - place[e]) + StepsOf(pc[e])

Advances(e) == Ahead(e) > Ahead(e)' \/ (pc'[e] = pc[e] /\ Ahead(e)' = Ahead(e))

AlwaysAdvances == [][\A e \in Events : pc[e] # "idle" => Advances(e)]_vars

BoundedAhead ==
  \A e \in Events : pc[e] # "idle" => Ahead(e) \in 0..(5 * MaxHooks + 1)

LEMMA InvBounded == Inv => BoundedAhead
<1> SUFFICES ASSUME Inv, NEW e \in Events, pc[e] # "idle"
             PROVE  Ahead(e) \in 0..(5 * MaxHooks + 1)
  BY DEF BoundedAhead
<1>1. /\ place[e] \in Nat /\ began[e] \in Nat /\ place[e] <= began[e]
      /\ began[e] <= MaxHooks /\ MaxHooks \in Nat
      /\ pc[e] \in {"next", "ready", "sent", "reading", "save", "done", "stopped"}
  BY WebhookAssumption DEF Inv, Core, TypeOK, PlacesOK, Senders
<1>2. pc[e] \in {"ready", "sent", "reading", "save"} => place[e] >= 1
  <2>1. pc[e] \in {"ready", "sent", "reading", "save"} => doing[e] = <<e, place[e]>> /\ doing[e] \in Deliveries
    BY WebhookAssumption DEF Inv, Core, SendersOK, TypeOK, Senders
  <2> QED BY <2>1 DEF Deliveries, Hooks
<1>3. StepsOf(pc[e]) \in 0..5 /\ (pc[e] = "next" => StepsOf(pc[e]) = 1)
  BY <1>1 DEF StepsOf
<1>4. CASE pc[e] \in {"done", "stopped"}
  BY <1>1, <1>4 DEF Ahead
<1>5. CASE pc[e] = "next"
  BY <1>1, <1>3, <1>5 DEF Ahead
<1>6. CASE pc[e] \in {"ready", "sent", "reading", "save"}
  BY <1>1, <1>2, <1>3, <1>6 DEF Ahead
<1> QED BY <1>1, <1>4, <1>5, <1>6

(* Nobody but the dispatch itself, or what ends it, moves it.              *)
LEMMA OthersStay ==
  ASSUME Inv, NEW e \in Events, pc[e] # "idle",
         \/ UNCHANGED vars
         \/ CreateWebhook
         \/ \E f \in Events : f # e /\ (Dispatch(f) \/ Create(f) \/ Finish(f))
         \/ \E r \in Retries, d \in Deliveries : Retry(r, d)
         \/ \E s \in Senders : s # e /\ (Deliver(s) \/ Answer(s) \/ Fail(s) \/ Die(s))
  PROVE  Advances(e)
<1>1. pc'[e] = pc[e] /\ began'[e] = began[e] /\ place'[e] = place[e]
  <2>1. CASE UNCHANGED vars \/ CreateWebhook
    BY <2>1 DEF vars, CreateWebhook
  <2>2. ASSUME NEW f \in Events, f # e, Dispatch(f) \/ Create(f) \/ Finish(f)
        PROVE  pc'[e] = pc[e] /\ began'[e] = began[e] /\ place'[e] = place[e]
    BY <2>2 DEF Dispatch, Create, Finish, Inv, Core, TypeOK, Senders
  <2>3. ASSUME NEW r \in Retries, NEW d \in Deliveries, Retry(r, d)
        PROVE  pc'[e] = pc[e] /\ began'[e] = began[e] /\ place'[e] = place[e]
    BY <2>3, WebhookAssumption DEF Retry, Inv, Core, TypeOK, Senders
  <2>4. ASSUME NEW s \in Senders, s # e, Deliver(s) \/ Answer(s) \/ Fail(s) \/ Die(s)
        PROVE  pc'[e] = pc[e] /\ began'[e] = began[e] /\ place'[e] = place[e]
    BY <2>4 DEF Deliver, Post, Abort, ReadBody, Save, Answer, Fail, Die, Stop, Inv, Core, TypeOK, Senders
  <2> QED BY <2>1, <2>2, <2>3, <2>4
<1> QED BY <1>1 DEF Advances, Ahead

LEMMA CreateAdvances == ASSUME Inv, NEW e \in Events, Create(e) PROVE Advances(e)
<1>1. PICK h \in Hooks : /\ IsNext(e, h)
                         /\ place' = [place EXCEPT ![e] = h]
  BY DEF Create
<1>2. /\ place'[e] = h /\ h > place[e] /\ pc[e] = "next" /\ pc'[e] = "ready"
      /\ began' = began
  BY <1>1 DEF Create, IsNext, Remaining, Inv, Core, TypeOK, Senders
<1>3. place[e] \in Nat /\ began[e] \in Nat /\ h \in Nat
  BY DEF Inv, Core, TypeOK, Hooks
<1>4. Ahead(e) = 5 * (began[e] - place[e]) + 1 /\ Ahead(e)' = 5 * (began[e] - h) + 5
  BY <1>2 DEF Ahead, StepsOf
<1> QED BY <1>2, <1>3, <1>4 DEF Advances

LEMMA DeliveryAdvances ==
  ASSUME Inv, Inv', NEW e \in Events,
         Finish(e) \/ Deliver(e) \/ Answer(e) \/ Fail(e) \/ Die(e)
  PROVE  Advances(e)
<1>1. /\ began' = began /\ place' = place
      /\ \/ pc[e] = "ready"   /\ pc'[e] = "sent"
         \/ pc[e] = "sent"    /\ pc'[e] \in {"reading", "save"}
         \/ pc[e] = "reading" /\ pc'[e] = "save"
         \/ pc[e] = "save"    /\ pc'[e] = "next"
         \/ pc[e] = "next"    /\ pc'[e] = "done"
         \/ /\ pc[e] \in {"next", "ready", "sent", "reading", "save"}
            /\ pc'[e] = "stopped"
  BY DEF Finish, Deliver, Post, Abort, ReadBody, Save, Answer, Fail, Die, Stop, Inv, Core, TypeOK, Senders
<1>2. began[e] \in Nat /\ place[e] \in Nat /\ place[e] <= began[e]
  BY DEF Inv, Core, TypeOK, PlacesOK
<1> QED BY <1>1, <1>2 DEF Advances, Ahead, StepsOf

(* Whatever other requests do, each step of a dispatch brings it nearer to *)
(* its end, which is five steps per webhook and one away at most.   *)
THEOREM DispatchAdvances == Spec => AlwaysAdvances /\ []BoundedAhead
<1>1. Inv /\ Inv' /\ [Next]_vars => [\A e \in Events : pc[e] # "idle" => Advances(e)]_vars
  <2> SUFFICES ASSUME Inv, Inv', [Next]_vars, NEW e \in Events, pc[e] # "idle"
               PROVE  Advances(e)
    OBVIOUS
  <2>1. ~Dispatch(e)
    BY DEF Dispatch
  <2> QED BY <2>1, OthersStay, CreateAdvances, DeliveryAdvances DEF Next, Senders
<1> QED BY InitInv, NextInv, InvBounded, <1>1, PTL DEF Spec, AlwaysAdvances

=============================================================================
