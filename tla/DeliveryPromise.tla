--------------------------- MODULE DeliveryPromise ---------------------------
(***************************************************************************)
(* What the delivery log promises, with no request, no retry and no crash  *)
(* in sight: the deliveries of an event are opened in order, each after    *)
(* those before it have an outcome, and an outcome is written with the     *)
(* attempt it is of, a success only after the endpoint accepted.           *)
(***************************************************************************)
EXTENDS Naturals

CONSTANTS
  Deliveries,   \* pairs of an event and the position of a webhook
  Wanted        \* those whose webhook is to get the event

VARIABLES
  status,       \* the outcome of a delivery, "absent" before it is opened
  attempts,     \* how many outcomes it has had
  accepted      \* the deliveries an endpoint accepted

vars == <<status, attempts, accepted>>

Init ==
  /\ status   = [d \in Deliveries |-> "absent"]
  /\ attempts = [d \in Deliveries |-> 0]
  /\ accepted = {}

Earlier(d) == {c \in Wanted : c[1] = d[1] /\ c[2] < d[2]}

Open(d) ==
  /\ d \in Wanted
  /\ status[d] = "absent"
  /\ \A c \in Earlier(d) : status[c] \in {"succeeded", "failed"}
  /\ status' = [status EXCEPT ![d] = "pending"]
  /\ UNCHANGED <<attempts, accepted>>

Accept(d) ==
  /\ status[d] # "absent"
  /\ accepted' = accepted \cup {d}
  /\ UNCHANGED <<status, attempts>>

(* Any attempt may be the last word, a failure after a success too.        *)
Settle(d) ==
  /\ status[d] # "absent"
  /\ \/ status' = [status EXCEPT ![d] = "failed"]
     \/ d \in accepted /\ status' = [status EXCEPT ![d] = "succeeded"]
  /\ attempts' = [attempts EXCEPT ![d] = @ + 1]
  /\ UNCHANGED accepted

Next == \E d \in Deliveries : Open(d) \/ Accept(d) \/ Settle(d)

Spec == Init /\ [][Next]_vars
=============================================================================
