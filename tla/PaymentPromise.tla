--------------------------- MODULE PaymentPromise ---------------------------
(***************************************************************************)
(* What the payment webhook promises, with no handler in sight: an order   *)
(* is settled and overturned in single steps, and each time an unpaid      *)
(* order becomes paid its buyer is granted the plan exactly once.          *)
(***************************************************************************)
CONSTANTS
  Orders,       \* order numbers
  Grantable,    \* identities of grants
  Purchasable   \* the orders that are for a plan

VARIABLES
  status,       \* the status of an order
  paidAt,       \* whether it has ever been paid
  grants        \* the grants made for it

vars == <<status, paidAt, grants>>

Init ==
  /\ status = [o \in Orders |-> "absent"]
  /\ paidAt = [o \in Orders |-> FALSE]
  /\ grants = [o \in Orders |-> {}]

Create(o) ==
  /\ status[o] = "absent"
  /\ status' = [status EXCEPT ![o] = "pending"]
  /\ UNCHANGED <<paidAt, grants>>

(* The only step that grants: it needs an order that is not paid.          *)
Pay(o) ==
  /\ status[o] \in {"pending", "failed", "refunded"}
  /\ status' = [status EXCEPT ![o] = "paid"]
  /\ paidAt' = [paidAt EXCEPT ![o] = TRUE]
  /\ IF o \in Purchasable
     THEN \E g \in Grantable \ grants[o] : grants' = [grants EXCEPT ![o] = @ \cup {g}]
     ELSE UNCHANGED grants

(* A failure or a refund takes back neither paidAt nor a grant.            *)
Overturn(o) ==
  /\ status[o] # "absent"
  /\ \E s \in {"failed", "refunded"} : status' = [status EXCEPT ![o] = s]
  /\ UNCHANGED <<paidAt, grants>>

Next == \E o \in Orders : Create(o) \/ Pay(o) \/ Overturn(o)

Spec == Init /\ [][Next]_vars
=============================================================================
