--------------------------- MODULE WebhookDelivery ---------------------------
(***************************************************************************)
(* Outgoing webhooks (WebhookDeliveryService): a business event is sent to *)
(* the webhooks of its tenant and of its app one after the other, before   *)
(* the request that caused it is answered (dispatch), and any delivery may *)
(* be sent again by hand (retry), also while it is being sent.  Both run   *)
(* deliver: POST to the endpoint, wait five seconds at most for its        *)
(* status, read what else it answers, and store the outcome in the         *)
(* delivery's row with one update.                                         *)
(*                                                                         *)
(* Endpoints are external.  A webhook is the position of its createdAt:    *)
(* none is ever changed or deleted.  An event is one of the event types    *)
(* that are supported; any other is dropped before it gets here.           *)
(***************************************************************************)
EXTENDS Integers, FiniteSets

CONSTANTS
  Events,      \* business events that are dispatched
  Retries,     \* requests to send a delivery again
  MaxHooks,    \* bound: webhooks
  Tenants,
  AnyTenant,   \* tenantId null: the webhook is the app's
  OwnerOf,     \* the tenantId of a webhook
  SourceOf,    \* the tenantId of an event
  Nothing,     \* a sender has no delivery at hand
  MaxErrors,   \* bound: database calls that fail
  MaxCrashes   \* bound: requests that die

Hooks      == 1..MaxHooks
Senders    == Events \cup Retries
Deliveries == Events \X Hooks

ASSUME WebhookAssumption ==
  /\ Events \cap Retries = {} /\ IsFiniteSet(Senders)
  /\ MaxHooks \in Nat
  /\ AnyTenant \notin Tenants
  /\ OwnerOf \in [Hooks -> Tenants \cup {AnyTenant}]
  /\ SourceOf \in [Events -> Tenants]
  /\ Nothing \notin Deliveries
  /\ MaxErrors \in Nat /\ MaxCrashes \in Nat

VARIABLES
  hooks,      \* how many webhooks there are
  began,      \* how many there were when dispatch read them
  place,      \* the last webhook a dispatch created a delivery for
  pc,         \* where a sender stands
  doing,      \* the delivery it sends
  answer,     \* what its fetch came to
  status,     \* webhook_deliveries.status, "absent" without a row
  response,   \* responseStatus
  due,        \* whether nextRetryAt is set
  attempts,   \* attemptCount
  posts,      \* how often a delivery was sent
  unsaved,    \* how many of these were never stored
  accepted,   \* the deliveries an endpoint accepted
  errors, crashes

row     == <<status, response, due, attempts>>
history == <<posts, unsaved, accepted>>
vars    == <<hooks, began, place, pc, doing, answer, row, history, errors, crashes>>

Goto(s, l) == pc' = [pc EXCEPT ![s] = l]

-----------------------------------------------------------------------------
(* createWebhook *)
CreateWebhook ==
  /\ hooks < MaxHooks
  /\ hooks' = hooks + 1
  /\ UNCHANGED <<began, place, pc, doing, answer, row, history, errors, crashes>>

(* dispatch reads the webhooks of the event's tenant and of the app; an    *)
(* event whose read fails stays idle.                                      *)
Dispatch(e) ==
  /\ pc[e] = "idle"
  /\ began' = [began EXCEPT ![e] = hooks]
  /\ Goto(e, "next")
  /\ UNCHANGED <<hooks, place, doing, answer, row, history, errors, crashes>>

Wants(e, h) == OwnerOf[h] \in {SourceOf[e], AnyTenant}

Remaining(e) == {h \in 1..began[e] : h > place[e] /\ Wants(e, h)}

SlipIsNext(e, h) == h \in Remaining(e)

IsNext(e, h) == h \in Remaining(e) /\ \A g \in Remaining(e) : h <= g

(* A pending row is created for the next of them ...                       *)
Create(e) ==
  /\ pc[e] = "next"
  /\ \E h \in Hooks :
       /\ IsNext(e, h)
       /\ place' = [place EXCEPT ![e] = h]
       /\ doing' = [doing EXCEPT ![e] = <<e, h>>]
       /\ status' = [status EXCEPT ![<<e, h>>] = "pending"]
  /\ Goto(e, "ready")
  /\ UNCHANGED <<hooks, began, answer, response, due, attempts, history, errors, crashes>>

(* ... until none is left and the dispatch returns.                        *)
Finish(e) ==
  /\ pc[e] = "next"
  /\ Remaining(e) = {}
  /\ Goto(e, "done")
  /\ UNCHANGED <<hooks, began, place, doing, answer, row, history, errors, crashes>>

(* retry finds the webhook and the delivery, whatever the delivery's       *)
(* status; neither changes in what is sent.                                *)
Retry(r, d) ==
  /\ pc[r] = "idle"
  /\ status[d] # "absent"
  /\ doing' = [doing EXCEPT ![r] = d]
  /\ Goto(r, "ready")
  /\ UNCHANGED <<hooks, began, place, answer, row, history, errors, crashes>>

-----------------------------------------------------------------------------
(* deliver signs the body and posts it.                                    *)
Post(s) ==
  /\ pc[s] = "ready"
  /\ posts' = [posts EXCEPT ![doing[s]] = @ + 1]
  /\ Goto(s, "sent")
  /\ UNCHANGED <<hooks, began, place, doing, answer, row, unsaved, accepted, errors, crashes>>

(* The endpoint answers, with a 2xx status or another, and the timer is    *)
(* cleared ...                                                             *)
Answer(s) ==
  /\ pc[s] = "sent"
  /\ \/ /\ answer' = [answer EXCEPT ![s] = "ok"]
        /\ accepted' = accepted \cup {doing[s]}
     \/ /\ answer' = [answer EXCEPT ![s] = "error"]
        /\ UNCHANGED accepted
  /\ Goto(s, "reading")
  /\ UNCHANGED <<hooks, began, place, doing, row, posts, unsaved, errors, crashes>>

(* ... the body of the answer is read, to its end or until it breaks off,  *)
(* which is caught ...                                                     *)
ReadBody(s) ==
  /\ pc[s] = "reading"
  /\ Goto(s, "save")
  /\ UNCHANGED <<hooks, began, place, doing, answer, row, history, errors, crashes>>

(* ... or fetch throws: no connection, or aborted after five seconds, when *)
(* the endpoint may well have accepted what it was sent.                   *)
SlipAbort(s) == FALSE

Abort(s) ==
  /\ pc[s] = "sent"
  /\ answer' = [answer EXCEPT ![s] = "none"]
  /\ accepted' \in {accepted, accepted \cup {doing[s]}}
  /\ Goto(s, "save")
  /\ UNCHANGED <<hooks, began, place, doing, row, posts, unsaved, errors, crashes>>

SlipRawStatus(s) == answer[s]
SlipNewStatus(s) == IF answer[s] = "error" THEN "failed" ELSE "succeeded"

NewStatus(s) == IF answer[s] = "ok" THEN "succeeded" ELSE "failed"

SlipAttempts(d) == 1

Attempts(d) == attempts[d] + 1

(* The outcome is stored; without an answer responseStatus stays as it is. *)
(* A dispatch goes on to the next webhook.                                 *)
Save(s) ==
  /\ pc[s] = "save"
  /\ status' = [status EXCEPT ![doing[s]] = NewStatus(s)]
  /\ attempts' = [attempts EXCEPT ![doing[s]] = Attempts(doing[s])]
  /\ response' = IF answer[s] = "none" THEN response
                 ELSE [response EXCEPT ![doing[s]] = answer[s]]
  /\ due' = [due EXCEPT ![doing[s]] = answer[s] # "ok"]
  /\ doing' = [doing EXCEPT ![s] = Nothing]
  /\ answer' = [answer EXCEPT ![s] = "none"]
  /\ Goto(s, IF s \in Events THEN "next" ELSE "done")
  /\ UNCHANGED <<hooks, began, place, history, errors, crashes>>

(* The sender goes no further; what it sent is not stored.                 *)
Stop(s) ==
  /\ Goto(s, "stopped")
  /\ unsaved' = IF pc[s] \in {"sent", "reading", "save"} THEN [unsaved EXCEPT ![doing[s]] = @ + 1]
                ELSE unsaved
  /\ doing' = [doing EXCEPT ![s] = Nothing]
  /\ answer' = [answer EXCEPT ![s] = "none"]
  /\ UNCHANGED <<hooks, began, place, row, posts, accepted>>

(* Creating or updating a row fails: no catch surrounds either, and the    *)
(* request that caused the event fails with it.                            *)
Fail(s) ==
  /\ pc[s] = "save" \/ (pc[s] = "next" /\ Remaining(s) # {})
  /\ errors < MaxErrors
  /\ errors' = errors + 1
  /\ Stop(s)
  /\ UNCHANGED crashes

Die(s) ==
  /\ pc[s] \in {"next", "ready", "sent", "reading", "save"}
  /\ crashes < MaxCrashes
  /\ crashes' = crashes + 1
  /\ Stop(s)
  /\ UNCHANGED errors

-----------------------------------------------------------------------------
Init ==
  /\ hooks    = 0
  /\ began    = [e \in Events |-> 0]
  /\ place    = [e \in Events |-> 0]
  /\ pc       = [s \in Senders |-> "idle"]
  /\ doing    = [s \in Senders |-> Nothing]
  /\ answer   = [s \in Senders |-> "none"]
  /\ status   = [d \in Deliveries |-> "absent"]
  /\ response = [d \in Deliveries |-> "none"]
  /\ due      = [d \in Deliveries |-> FALSE]
  /\ attempts = [d \in Deliveries |-> 0]
  /\ posts    = [d \in Deliveries |-> 0]
  /\ unsaved  = [d \in Deliveries |-> 0]
  /\ accepted = {}
  /\ errors   = 0
  /\ crashes  = 0

Deliver(s) == Post(s) \/ Abort(s) \/ ReadBody(s) \/ Save(s)

Next ==
  \/ CreateWebhook
  \/ \E e \in Events : Dispatch(e) \/ Create(e) \/ Finish(e)
  \/ \E r \in Retries, d \in Deliveries : Retry(r, d)
  \/ \E s \in Senders : Deliver(s) \/ Answer(s) \/ Fail(s) \/ Die(s)

Spec == Init /\ [][Next]_vars

(* A request goes on, and the timer of a fetch fires.  It does not run     *)
(* while the body is read: that a body ends is up to the HTTP client,      *)
(* which gives up one that stalls.  An endpoint need not answer at all,    *)
(* and nobody need retry.                                                  *)
Fairness ==
  /\ \A e \in Events : WF_vars(Create(e) \/ Finish(e))
  /\ \A s \in Senders : WF_vars(Deliver(s))

FairSpec == Spec /\ Fairness

-----------------------------------------------------------------------------
TypeOK ==
  /\ hooks    \in 0..MaxHooks
  /\ began    \in [Events -> 0..MaxHooks]
  /\ place    \in [Events -> 0..MaxHooks]
  /\ pc       \in [Senders -> {"idle", "next", "ready", "sent", "reading", "save", "done", "stopped"}]
  /\ doing    \in [Senders -> Deliveries \cup {Nothing}]
  /\ answer   \in [Senders -> {"none", "ok", "error"}]
  /\ status   \in [Deliveries -> {"absent", "pending", "succeeded", "failed"}]
  /\ response \in [Deliveries -> {"none", "ok", "error"}]
  /\ due      \in [Deliveries -> BOOLEAN]
  /\ attempts \in [Deliveries -> Nat]
  /\ posts    \in [Deliveries -> Nat]
  /\ unsaved  \in [Deliveries -> Nat]
  /\ accepted \subseteq Deliveries
  /\ errors \in Nat /\ crashes \in Nat

(* However retries race with each other and with the dispatch, the columns *)
(* of a row agree: it says succeeded only after the endpoint accepted the  *)
(* delivery and with the 2xx status it answered; it is due for a retry     *)
(* exactly when it failed; and it is pending only before its first outcome *)
(* was stored.                                                             *)
RowsAgree ==
  \A d \in Deliveries :
    /\ status[d] = "succeeded" => d \in accepted /\ response[d] = "ok"
    /\ due[d] <=> status[d] = "failed"
    /\ status[d] \in {"absent", "pending"} <=> attempts[d] = 0

Sending(d) == {s \in Senders : doing[s] = d /\ pc[s] \in {"sent", "reading", "save"}}

(* Every attempt is counted once: whatever was posted is counted in the    *)
(* row, is still being sent, or its request failed or died.                *)
AttemptsCounted ==
  \A d \in Deliveries : attempts[d] + unsaved[d] + Cardinality(Sending(d)) = posts[d]

(* Webhooks get an event in the order they were created: there is a        *)
(* delivery for one only when those before it have an outcome stored.      *)
InOrder ==
  \A e \in Events : \A g, h \in Hooks :
    /\ g < h /\ OwnerOf[g] \in {SourceOf[e], AnyTenant} /\ status[<<e, h>>] # "absent"
         => status[<<e, g>>] \in {"succeeded", "failed"}

(* A dispatch that returned reached every webhook that was there when it   *)
(* began, of the tenant or of the app, and no other one.                   *)
ReachedAll ==
  \A e \in Events :
    pc[e] = "done" =>
      \A h \in Hooks :
        IF h <= began[e] /\ (OwnerOf[h] = SourceOf[e] \/ OwnerOf[h] = AnyTenant)
        THEN status[<<e, h>>] \in {"succeeded", "failed"}
        ELSE status[<<e, h>>] = "absent"

(* A row tells what became of its delivery, and how often it was tried.    *)
RowsAreTrue == RowsAgree /\ AttemptsCounted

(* A dispatch reaches the webhooks it has to, one after the other, and     *)
(* leaves none out that comes before one it reached.                       *)
ReachedInOrder == InOrder /\ ReachedAll

Promise ==
  INSTANCE DeliveryPromise WITH Wanted <- {d \in Deliveries : Wants(d[1], d[2])}

(* Dispatches, retries, aborted fetches, failures and crashes keep the     *)
(* promise of the delivery log: no race resets a count, settles a row that *)
(* was not tried, or opens a delivery out of turn.                         *)
PromiseKept == Promise!Spec

(* No endpoint can hold up the request that caused an event by not         *)
(* answering: a dispatch ends.                                             *)
DispatchEnds == \A e \in Events : pc[e] = "next" ~> pc[e] \in {"done", "stopped"}

=============================================================================
