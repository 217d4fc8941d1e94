--------------------------- MODULE PaymentCallback ---------------------------
(***************************************************************************)
(* The payment webhook of the billing service (BillingService,             *)
(* handlePaymentWebhook): a payment provider posts callbacks about orders, *)
(* and every request runs the handler, whose awaited database operations   *)
(* interleave with those of the other requests.                            *)
(*                                                                         *)
(* A delivery is one HTTP request.  Its steps are the awaits of the        *)
(* handler: find the order, look for an earlier transaction of the same    *)
(* trade number, then a database transaction (read the order again, insert *)
(* the transaction row, update the order, commit) and, after the commit,   *)
(* a second database transaction that opens the subscription.  Postgres    *)
(* runs them READ COMMITTED: a read sees what is committed, and nothing    *)
(* locks the order between the read and the update.  A delivery may die    *)
(* between any two steps (its process stops, or an operation throws); the  *)
(* provider then sends the callback again, as it may at any time.          *)
(*                                                                         *)
(* The provider's name and its trade number are one value here; callbacks  *)
(* with a wrong signature never get as far as this model.                  *)
(***************************************************************************)
EXTENDS Naturals, FiniteSets

CONSTANTS
  Orders,        \* order numbers
  Deliveries,    \* HTTP requests that carry a callback
  Trades,        \* a provider's trade numbers
  Amounts,       \* sums of money
  Callbacks,     \* the callbacks the provider may send
  Plans,         \* the plans an order may be for
  NoPlan,        \* planId is null
  NoTrade,       \* providerTradeNo is absent
  PlanOf,        \* the planId an order was created with
  AmountOf,      \* the amount it was created with
  MaxInFlight,   \* bound: requests being handled at once
  MaxCrashes     \* bound: requests that die before they answer

Results == {"succeeded", "failed", "refunded"}

ASSUME PaymentAssumption ==
  /\ IsFiniteSet(Deliveries)
  /\ NoPlan \notin Plans
  /\ PlanOf \in [Orders -> Plans \cup {NoPlan}]
  /\ Callbacks # {}
  /\ Callbacks \subseteq [order  : Orders,
                          trade  : Trades \cup {NoTrade},
                          status : Results,
                          amount : Amounts]
  /\ MaxInFlight \in Nat /\ MaxCrashes \in Nat

VARIABLES
  status,     \* orders.status, "absent" before the order is created
  paidAt,     \* whether orders.paidAt is set
  row,        \* the payment transaction row a delivery inserted
  made,       \* its createdAt, as a position in the order of the inserts
  clock,      \* the last position given out
  sub,        \* the plan of the subscription a delivery opened, or NoPlan
  pc,         \* where the handler of a delivery stands
  body,       \* the callback a delivery carries
  seen,       \* the order status the handler read first
  snap,       \* the order as read again inside the database transaction
  crashes     \* how many deliveries died

vars == <<status, paidAt, row, made, clock, sub, pc, body, seen, snap, crashes>>

Statuses == {"absent", "pending", "paid", "failed", "refunded"}
Busy     == {"lookup", "begin", "read", "inserted", "opening", "dispatch"}
Answered == {"refused", "idempotent", "processed"}

InFlight == {d \in Deliveries : pc[d] \in Busy}

(* Definitions named Slip... are variants of the definition that follows   *)
(* with a bug a programmer could make; no specification uses them.         *)
SlipTarget(result) == result

(* toOrderStatus *)
Target(result) ==
  CASE result = "succeeded" -> "paid"
    [] result = "refunded"  -> "refunded"
    [] OTHER                -> "failed"

Order(d) == body[d].order

Goto(d, l) == pc' = [pc EXCEPT ![d] = l]

-----------------------------------------------------------------------------
(* createOrder and createTenantOrder: the order starts pending.            *)
CreateOrder(o) ==
  /\ status[o] = "absent"
  /\ status' = [status EXCEPT ![o] = "pending"]
  /\ UNCHANGED <<paidAt, row, made, clock, sub, pc, body, seen, snap, crashes>>

SlipAcceptable(cb) == status[cb.order] # "absent"

Acceptable(cb) == status[cb.order] # "absent" /\ cb.amount = AmountOf[cb.order]

(* The handler finds the order and compares the amounts ...                *)
Receive(d, cb) ==
  /\ pc[d] = "idle"
  /\ Cardinality(InFlight) < MaxInFlight
  /\ Acceptable(cb)
  /\ body' = [body EXCEPT ![d] = cb]
  /\ seen' = [seen EXCEPT ![d] = status[cb.order]]
  /\ Goto(d, "lookup")
  /\ UNCHANGED <<status, paidAt, row, made, clock, sub, snap, crashes>>

(* ... or answers 404 or 400 at once.                                      *)
Refuse(d, cb) ==
  /\ pc[d] = "idle"
  /\ ~Acceptable(cb)
  /\ body' = [body EXCEPT ![d] = cb]
  /\ Goto(d, "refused")
  /\ UNCHANGED <<status, paidAt, row, made, clock, sub, seen, snap, crashes>>

SlipSameTradeRows(d) ==
  {e \in Deliveries : row[e] = "committed" /\ body[e].order = body[d].order}

(* The rows findFirst selects from: committed, of the same order and trade *)
(* number.  A callback without trade number matches none.                  *)
SameTradeRows(d) ==
  {e \in Deliveries : /\ row[e] = "committed"
                      /\ body[d].trade # NoTrade
                      /\ body[e].trade = body[d].trade
                      /\ body[e].order = body[d].order}

(* The newest of them has this callback's status, and the order was seen   *)
(* in the status the callback asks for.                                    *)
Repeated(d) ==
  /\ seen[d] = Target(body[d].status)
  /\ \E e \in SameTradeRows(d) :
        /\ body[e].status = body[d].status
        /\ \A f \in SameTradeRows(d) : made[f] <= made[e]

Lookup(d) ==
  /\ pc[d] = "lookup"
  /\ Goto(d, IF Repeated(d) THEN "idempotent" ELSE "begin")
  /\ UNCHANGED <<status, paidAt, row, made, clock, sub, body, seen, snap, crashes>>

(* tx.order.findUnique                                                     *)
TxRead(d) ==
  /\ pc[d] = "begin"
  /\ snap' = [snap EXCEPT ![d] = [status |-> status[Order(d)], paidAt |-> paidAt[Order(d)]]]
  /\ Goto(d, "read")
  /\ UNCHANGED <<status, paidAt, row, made, clock, sub, body, seen, crashes>>

(* tx.paymentTransaction.create: others see the row only once committed.   *)
TxInsert(d) ==
  /\ pc[d] = "read"
  /\ row' = [row EXCEPT ![d] = "uncommitted"]
  /\ made' = [made EXCEPT ![d] = clock + 1]
  /\ clock' = clock + 1
  /\ Goto(d, "inserted")
  /\ UNCHANGED <<status, paidAt, sub, body, seen, snap, crashes>>

AlreadyPaid(d) == snap[d].status = "paid"
Succeeded(d)   == body[d].status = "succeeded"
SlipShouldOpen(d) ==
  Succeeded(d) /\ seen[d] = "pending" /\ PlanOf[Order(d)] # NoPlan
SlipShouldOpenAlways(d) == ~AlreadyPaid(d) /\ PlanOf[Order(d)] # NoPlan
ShouldOpen(d)  == Succeeded(d) /\ ~AlreadyPaid(d) /\ PlanOf[Order(d)] # NoPlan

(* tx.order.update, unless the order was paid and the callback says so     *)
(* again, and the commit.  paidAt is kept from the read, not from the row. *)
NewStatus(d) ==
  IF AlreadyPaid(d) /\ Succeeded(d) THEN status
  ELSE [status EXCEPT ![Order(d)] = Target(body[d].status)]

SlipNewPaidAt(d) == [paidAt EXCEPT ![Order(d)] = Succeeded(d)]

NewPaidAt(d) ==
  IF AlreadyPaid(d) /\ Succeeded(d) THEN paidAt
  ELSE [paidAt EXCEPT ![Order(d)] = Succeeded(d) \/ snap[d].paidAt]

TxCommit(d) ==
  /\ pc[d] = "inserted"
  /\ row' = [row EXCEPT ![d] = "committed"]
  /\ status' = NewStatus(d)
  /\ paidAt' = NewPaidAt(d)
  /\ Goto(d, IF ShouldOpen(d) THEN "opening" ELSE "processed")
  /\ UNCHANGED <<made, clock, sub, body, seen, snap, crashes>>

(* openSubscriptionForPlan: subscription, tenant and quota buckets in one  *)
(* database transaction, a different one from the payment's.               *)
OpenSubscription(d) ==
  /\ pc[d] = "opening"
  /\ sub' = [sub EXCEPT ![d] = PlanOf[Order(d)]]
  /\ Goto(d, "dispatch")
  /\ UNCHANGED <<status, paidAt, row, made, clock, body, seen, snap, crashes>>

(* The subscription.opened webhook is sent before the handler answers.     *)
Dispatch(d) ==
  /\ pc[d] = "dispatch"
  /\ Goto(d, "processed")
  /\ UNCHANGED <<status, paidAt, row, made, clock, sub, body, seen, snap, crashes>>

(* The request dies: an open database transaction is rolled back, what was *)
(* committed stays.                                                        *)
Crash(d) ==
  /\ pc[d] \in Busy
  /\ crashes < MaxCrashes
  /\ crashes' = crashes + 1
  /\ row' = [row EXCEPT ![d] = IF @ = "uncommitted" THEN "none" ELSE @]
  /\ Goto(d, "crashed")
  /\ UNCHANGED <<status, paidAt, made, clock, sub, body, seen, snap>>

-----------------------------------------------------------------------------
Init ==
  /\ status  = [o \in Orders |-> "absent"]
  /\ paidAt  = [o \in Orders |-> FALSE]
  /\ row     = [d \in Deliveries |-> "none"]
  /\ made    = [d \in Deliveries |-> 0]
  /\ clock   = 0
  /\ sub     = [d \in Deliveries |-> NoPlan]
  /\ pc      = [d \in Deliveries |-> "idle"]
  /\ body    = [d \in Deliveries |-> CHOOSE cb \in Callbacks : TRUE]
  /\ seen    = [d \in Deliveries |-> "absent"]
  /\ snap    = [d \in Deliveries |-> [status |-> "absent", paidAt |-> FALSE]]
  /\ crashes = 0

Handle(d) ==
  \/ Lookup(d)
  \/ TxRead(d)
  \/ TxInsert(d)
  \/ TxCommit(d)
  \/ OpenSubscription(d)
  \/ Dispatch(d)

Next ==
  \/ \E o \in Orders : CreateOrder(o)
  \/ \E d \in Deliveries :
        \/ \E cb \in Callbacks : Receive(d, cb) \/ Refuse(d, cb)
        \/ Handle(d)
        \/ Crash(d)

Spec == Init /\ [][Next]_vars

(* A request that is being handled goes on: the event loop runs its next   *)
(* step once the database answers.  Nothing obliges the provider to call.  *)
Fairness == \A d \in Deliveries : WF_vars(Handle(d))

FairSpec == Spec /\ Fairness

-----------------------------------------------------------------------------
TypeOK ==
  /\ status  \in [Orders -> Statuses]
  /\ paidAt  \in [Orders -> BOOLEAN]
  /\ row     \in [Deliveries -> {"none", "uncommitted", "committed"}]
  /\ made    \in [Deliveries -> Nat]
  /\ clock   \in Nat
  /\ sub     \in [Deliveries -> Plans \cup {NoPlan}]
  /\ pc      \in [Deliveries -> {"idle", "crashed"} \cup Busy \cup Answered]
  /\ body    \in [Deliveries -> Callbacks]
  /\ seen    \in [Deliveries -> Statuses]
  /\ snap    \in [Deliveries -> [status : Statuses, paidAt : BOOLEAN]]
  /\ crashes \in Nat

(* Whatever callbacks race or die, an order's settled status is one that a *)
(* committed transaction row says, from a callback with the order's own    *)
(* amount; and a paid order has its paidAt.                                *)
StatusIsRecorded ==
  \A o \in Orders :
    /\ status[o] \notin {"absent", "pending"} =>
         \E d \in Deliveries : /\ row[d] = "committed"
                               /\ Order(d) = o
                               /\ body[d].amount = AmountOf[o]
                               /\ status[o] = Target(body[d].status)
    /\ status[o] = "paid" => paidAt[o]

(* The deliveries that recorded a success for o having found it unpaid.    *)
Grants(o) ==
  {d \in Deliveries : /\ row[d] = "committed"
                      /\ Order(d) = o
                      /\ body[d].status = "succeeded"
                      /\ snap[d].status # "paid"
                      /\ PlanOf[o] # NoPlan}

Opened(d) == sub[d] # NoPlan

(* A subscription comes from a successful payment only, one for each       *)
(* delivery that found the order unpaid, and of the plan the order is for. *)
OpenedOnlyByPayment ==
  \A d \in Deliveries :
    Opened(d) => d \in Grants(Order(d)) /\ sub[d] = PlanOf[Order(d)]

(* What orders and subscriptions say is what committed callbacks said.     *)
RecordsAreTrue == StatusIsRecorded /\ OpenedOnlyByPayment

(* A successful callback that was acknowledged, at first or as a repeat,   *)
(* is never forgotten: the subscription is open, is being opened, or the   *)
(* request that had to open it died.                                       *)
AcknowledgedIsGranted ==
  \A d \in Deliveries :
    (/\ pc[d] \in {"idempotent", "processed"}
     /\ Succeeded(d)
     /\ PlanOf[Order(d)] # NoPlan)
      => \E e \in Grants(Order(d)) : Opened(e) \/ pc[e] \in {"opening", "crashed"}

(* The answer "idempotent" is given only to a callback whose trade number  *)
(* and status another delivery recorded before.                            *)
RepeatsAreRecorded ==
  \A d \in Deliveries :
    pc[d] = "idempotent" =>
      \E e \in Deliveries \ {d} :
        row[e] = "committed" /\ body[e] = body[d]

(* What the webhook answers can be relied upon: a success it acknowledged  *)
(* is granted, and a callback it calls a repeat is one.                    *)
AnswersAreTrue == AcknowledgedIsGranted /\ RepeatsAreRecorded

(* A paid order gets its subscription, unless a request died.              *)
PaidOpens ==
  \A o \in Orders :
    (status[o] = "paid" /\ PlanOf[o] # NoPlan)
      ~> (crashes > 0 \/ \E d \in Deliveries : Order(d) = o /\ Opened(d))

-----------------------------------------------------------------------------
(* What the handler promises, whose grants are the deliveries that have to *)
(* open the subscription of an order.                                      *)
Promise == INSTANCE PaymentPromise WITH
  Grantable   <- Deliveries,
  Purchasable <- {o \in Orders : PlanOf[o] # NoPlan},
  grants      <- [o \in Orders |-> Grants(o)]

(* The commit of a request that read an order which changed since.         *)
StaleCommit(d) ==
  /\ snap[d] # [status |-> status[Order(d)], paidAt |-> paidAt[Order(d)]]
  /\ TxCommit(d)

(* The handler implements the promise, up to stale commits: every other    *)
(* step is one of the promise's or changes nothing it tells.  An order is  *)
(* granted once when it becomes paid, and neither a failure nor a refund   *)
(* takes paidAt or a grant away.                                           *)
PromiseKept ==
  Promise!Init /\ [][Promise!Next \/ \E d \in Deliveries : StaleCommit(d)]_(Promise!vars)

=============================================================================
