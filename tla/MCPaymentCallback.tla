-------------------------- MODULE MCPaymentCallback --------------------------
(***************************************************************************)
(* Instances of PaymentCallback for TLC.                                   *)
(***************************************************************************)
EXTENDS PaymentCallback, TLC

CONSTANTS o1, t1, t2

(* Every order is for a plan, at the price of 1.                           *)
OnePlan  == [o \in Orders |-> CHOOSE p \in Plans : TRUE]
Prices   == [o \in Orders |-> 1]

Callback(o, t, s, a) == [order |-> o, trade |-> t, status |-> s, amount |-> a]

(* Success and failure of one trade, a refund under the same number, a     *)
(* success under another, one that names no trade, and one with a wrong    *)
(* amount.                                                                 *)
RacingCallbacks ==
  {Callback(o1, t1, "succeeded", 1), Callback(o1, t1, "failed", 1),
   Callback(o1, t1, "refunded", 1), Callback(o1, t2, "succeeded", 1),
   Callback(o1, NoTrade, "succeeded", 1), Callback(o1, t1, "succeeded", 2)}

OnlySuccess == {Callback(o1, t1, "succeeded", 1)}

-----------------------------------------------------------------------------
(* README.md:201 says of a successful callback that it opens the plan      *)
(* subscription once.                                                      *)
OpenedOnce ==
  \A o \in Orders : Cardinality({d \in Deliveries : Order(d) = o /\ Opened(d)}) <= 1

(* docs/API_CONTRACT.md:269 says that a successful callback for an order   *)
(* with planId opens the subscription: once one is acknowledged and no     *)
(* request is at work any more, it is open.                                *)
AcknowledgedOpens ==
  InFlight = {} =>
    \A d \in Deliveries :
      (/\ pc[d] \in {"idempotent", "processed"}
       /\ Succeeded(d)
       /\ PlanOf[Order(d)] # NoPlan)
        => \E e \in Deliveries : Order(e) = Order(d) /\ Opened(e)
=============================================================================
