------------------------ MODULE PaymentCallbackProofs ------------------------
(***************************************************************************)
(* Safety of the payment webhook for every set of orders, deliveries and   *)
(* callbacks, with any number of requests at once and of crashes; and, for *)
(* one request at a time, that the handler keeps the promise.              *)
(***************************************************************************)
EXTENDS PaymentCallback, FiniteSetTheorems, TLAPS

USE DEF Statuses, Results, Busy, Answered, Order, Goto

LEMMA TargetType ==
  ASSUME NEW r \in Results
  PROVE  /\ Target(r) \in {"paid", "refunded", "failed"}
         /\ Target(r) = "paid" <=> r = "succeeded"
BY DEF Target

LEMMA CallbackType ==
  ASSUME TypeOK, NEW d \in Deliveries
  PROVE  /\ body[d] \in Callbacks
         /\ body[d].order \in Orders
         /\ body[d].status \in Results
         /\ Target(body[d].status) \in {"paid", "refunded", "failed"}
         /\ PlanOf[body[d].order] \in Plans \cup {NoPlan}
<1>1. body[d] \in Callbacks
  BY DEF TypeOK
<1>2. body[d].order \in Orders /\ body[d].status \in Results
  BY <1>1, PaymentAssumption
<1> QED
  BY <1>1, <1>2, TargetType, PaymentAssumption

(* Every variable keeps its type, whatever the constants.                  *)
THEOREM TypeCorrect == Spec => []TypeOK
<1>1. Init => TypeOK
  <2> SUFFICES ASSUME Init PROVE TypeOK
    OBVIOUS
  <2>1. (CHOOSE cb \in Callbacks : TRUE) \in Callbacks
    BY PaymentAssumption
  <2> QED
    BY <2>1 DEF Init, TypeOK
<1>2. TypeOK /\ [Next]_vars => TypeOK'
  <2> SUFFICES ASSUME TypeOK, [Next]_vars PROVE TypeOK'
    OBVIOUS
  <2>1. ASSUME NEW o \in Orders, CreateOrder(o) PROVE TypeOK'
    BY <2>1 DEF TypeOK, CreateOrder
  <2>2. ASSUME NEW d \in Deliveries, NEW cb \in Callbacks, Receive(d, cb) PROVE TypeOK'
    <3>1. cb.order \in Orders
      BY PaymentAssumption
    <3> QED
      BY <2>2, <3>1 DEF TypeOK, Receive
  <2>3. ASSUME NEW d \in Deliveries, NEW cb \in Callbacks, Refuse(d, cb) PROVE TypeOK'
    BY <2>3 DEF TypeOK, Refuse
  <2>4. ASSUME NEW d \in Deliveries, Handle(d) PROVE TypeOK'
    <3>1. CASE Lookup(d)
      BY <3>1 DEF TypeOK, Lookup
    <3>2. CASE TxRead(d)
      BY <3>2, CallbackType DEF TypeOK, TxRead
    <3>3. CASE TxInsert(d)
      BY <3>3 DEF TypeOK, TxInsert
    <3>4. CASE TxCommit(d)
      <4>1. NewStatus(d) \in [Orders -> Statuses]
        BY CallbackType DEF TypeOK, NewStatus
      <4>2. NewPaidAt(d) \in [Orders -> BOOLEAN]
        <5> DEFINE b == Succeeded(d) \/ snap[d].paidAt
        <5>1. b \in BOOLEAN
          OBVIOUS
        <5> HIDE DEF b
        <5>2. paidAt \in [Orders -> BOOLEAN]
          BY DEF TypeOK
        <5>3. [paidAt EXCEPT ![body[d].order] = b] \in [Orders -> BOOLEAN]
          BY <5>1, <5>2
        <5> QED
          BY <5>2, <5>3 DEF NewPaidAt, b
      <4> QED
        BY <3>4, <4>1, <4>2 DEF TypeOK, TxCommit
    <3>5. CASE OpenSubscription(d)
      BY <3>5, CallbackType DEF TypeOK, OpenSubscription
    <3>6. CASE Dispatch(d)
      BY <3>6 DEF TypeOK, Dispatch
    <3> QED
      BY <2>4, <3>1, <3>2, <3>3, <3>4, <3>5, <3>6 DEF Handle
  <2>5. ASSUME NEW d \in Deliveries, Crash(d) PROVE TypeOK'
    BY <2>5 DEF TypeOK, Crash
  <2>6. CASE UNCHANGED vars
    BY <2>6 DEF TypeOK, vars
  <2> QED
    BY <2>1, <2>2, <2>3, <2>4, <2>5, <2>6 DEF Next
<1> QED
  BY <1>1, <1>2, PTL DEF Spec

-----------------------------------------------------------------------------
(* The inductive invariant.  Where a handler stands tells what it has      *)
(* read, inserted and opened ...                                           *)
HandlerOK(d) ==
  /\ pc[d] = "idle" => seen[d] = "absent"
  /\ pc[d] \in {"idle", "refused", "lookup", "begin"} => snap[d].status = "absent"
  /\ pc[d] \in Busy \cup {"idempotent", "processed", "crashed"} =>
       /\ body[d].amount = AmountOf[Order(d)]
       /\ status[Order(d)] # "absent"
  /\ row[d] = "uncommitted" => pc[d] = "inserted"
  /\ row[d] = "committed" => pc[d] \in {"opening", "dispatch", "processed", "crashed"}
  /\ pc[d] \in {"opening", "dispatch", "processed"} => row[d] = "committed"
  /\ pc[d] = "opening" => ShouldOpen(d)
  /\ pc[d] \in {"dispatch", "processed"} /\ ShouldOpen(d) => Opened(d)
  /\ pc[d] = "idempotent" => seen[d] = Target(body[d].status)

HandlerState == \A d \in Deliveries : HandlerOK(d)

(* ... and an order that is paid, or was when a handler read it, has been  *)
(* granted to a delivery.                                                  *)
PaidIsGranted ==
  /\ \A o \in Orders : status[o] = "paid" /\ PlanOf[o] # NoPlan => Grants(o) # {}
  /\ \A d \in Deliveries :
       "paid" \in {seen[d], snap[d].status} /\ PlanOf[Order(d)] # NoPlan
         => Grants(Order(d)) # {}

Inv ==
  /\ TypeOK
  /\ HandlerState
  /\ StatusIsRecorded
  /\ OpenedOnlyByPayment
  /\ RepeatsAreRecorded
  /\ PaidIsGranted

(* A grant, once made, stays: only an idle delivery gets a new callback,   *)
(* and a committed row is never taken back.                                *)
LEMMA GrantsStay ==
  ASSUME Inv, [Next]_vars, NEW e \in Deliveries, row[e] = "committed"
  PROVE  /\ row'[e] = "committed"
         /\ body'[e] = body[e]
         /\ snap'[e] = snap[e]
         /\ sub[e] # NoPlan => sub'[e] = sub[e]
<1>1. pc[e] \in {"opening", "dispatch", "processed", "crashed"}
  BY DEF Inv, HandlerState, HandlerOK
<1>2. TypeOK
  BY DEF Inv
<1>3. ASSUME NEW o \in Orders, CreateOrder(o) PROVE UNCHANGED <<row, body, snap, sub>>
  BY <1>3 DEF CreateOrder
<1>4. ASSUME NEW d \in Deliveries, d # e,
             \/ \E cb \in Callbacks : Receive(d, cb) \/ Refuse(d, cb)
             \/ Handle(d)
             \/ Crash(d)
      PROVE  /\ row'[e] = row[e] /\ body'[e] = body[e]
             /\ snap'[e] = snap[e] /\ sub'[e] = sub[e]
  BY <1>2, <1>4 DEF TypeOK, Receive, Refuse, Handle, Lookup, TxRead, TxInsert, TxCommit,
     OpenSubscription, Dispatch, Crash
<1>5. ASSUME NEW cb \in Callbacks, Receive(e, cb) \/ Refuse(e, cb) PROVE FALSE
  BY <1>1, <1>5 DEF Receive, Refuse
<1>6. ASSUME Handle(e) PROVE OpenSubscription(e) \/ Dispatch(e)
  BY <1>1, <1>6 DEF Handle, Lookup, TxRead, TxInsert, TxCommit
<1>7. ASSUME OpenSubscription(e), sub[e] # NoPlan PROVE sub'[e] = sub[e]
  BY <1>2, <1>7 DEF OpenSubscription, Inv, OpenedOnlyByPayment, Opened, TypeOK
<1>8. CASE OpenSubscription(e)
  BY <1>2, <1>7, <1>8 DEF OpenSubscription, TypeOK
<1>9. CASE Dispatch(e)
  BY <1>9 DEF Dispatch
<1>10. CASE Crash(e)
  BY <1>2, <1>10 DEF Crash, TypeOK
<1>11. CASE UNCHANGED vars
  BY <1>11 DEF vars
<1> QED
  BY <1>3, <1>4, <1>5, <1>6, <1>8, <1>9, <1>10, <1>11 DEF Next

LEMMA GrantsGrow ==
  ASSUME Inv, [Next]_vars, NEW o \in Orders
  PROVE  Grants(o) \subseteq Grants(o)'
BY GrantsStay DEF Grants

(* An action of one delivery leaves the others' records alone, and no      *)
(* order ever becomes absent again.                                        *)
LEMMA OrdersStay ==
  ASSUME Inv, [Next]_vars, NEW o \in Orders, status[o] # "absent"
  PROVE  status'[o] # "absent"
<1>1. TypeOK
  BY DEF Inv
<1>2. ASSUME NEW p \in Orders, CreateOrder(p) PROVE status'[o] # "absent"
  BY <1>1, <1>2 DEF CreateOrder, TypeOK
<1>3. ASSUME NEW d \in Deliveries, TxCommit(d) PROVE status'[o] # "absent"
  <2>1. NewStatus(d)[o] # "absent"
    BY <1>1, CallbackType DEF NewStatus, TypeOK
  <2> QED
    BY <1>3, <2>1 DEF TxCommit
<1>4. ASSUME NEW d \in Deliveries,
             \/ \E cb \in Callbacks : Receive(d, cb) \/ Refuse(d, cb)
             \/ Handle(d) /\ ~TxCommit(d)
             \/ Crash(d)
      PROVE  UNCHANGED status
  BY <1>4 DEF Receive, Refuse, Handle, Lookup, TxRead, TxInsert, OpenSubscription,
     Dispatch, Crash
<1>5. CASE UNCHANGED vars
  BY <1>5 DEF vars
<1> QED
  BY <1>2, <1>3, <1>4, <1>5 DEF Next

(* The step of one delivery leaves the records of another alone.           *)
LEMMA OthersUntouched ==
  ASSUME TypeOK, NEW d \in Deliveries, NEW e \in Deliveries, d # e,
         \/ \E cb \in Callbacks : Receive(d, cb) \/ Refuse(d, cb)
         \/ Handle(d)
         \/ Crash(d)
  PROVE  /\ pc'[e] = pc[e] /\ row'[e] = row[e] /\ body'[e] = body[e]
         /\ seen'[e] = seen[e] /\ snap'[e] = snap[e] /\ sub'[e] = sub[e]
<1>1. CASE \E cb \in Callbacks : Receive(d, cb) \/ Refuse(d, cb)
  BY <1>1 DEF TypeOK, Receive, Refuse
<1>2. CASE Crash(d)
  BY <1>2 DEF TypeOK, Crash
<1>3. CASE Handle(d)
  BY <1>3 DEF TypeOK, Handle, Lookup, TxRead, TxInsert, TxCommit, OpenSubscription, Dispatch
<1> QED
  BY <1>1, <1>2, <1>3

LEMMA HandlerStateKept ==
  ASSUME Inv, [Next]_vars
  PROVE  HandlerState'
<1> TypeOK /\ HandlerState
  BY DEF Inv
<1> SUFFICES ASSUME NEW e \in Deliveries
             PROVE  HandlerOK(e)'
  BY DEF HandlerState
<1> HandlerOK(e)
  BY DEF HandlerState
<1> body[e] \in Callbacks /\ body[e].order \in Orders
  BY CallbackType
<1>1. status[body[e].order] # "absent" => status'[body[e].order] # "absent"
  BY OrdersStay
<1>2. ASSUME /\ pc'[e] = pc[e] /\ row'[e] = row[e] /\ body'[e] = body[e]
             /\ seen'[e] = seen[e] /\ snap'[e] = snap[e] /\ sub'[e] = sub[e]
      PROVE  HandlerOK(e)'
  BY <1>1, <1>2 DEF HandlerOK, ShouldOpen, Succeeded, AlreadyPaid, Opened, Target
<1>3. CASE \E o \in Orders : CreateOrder(o)
  BY <1>2, <1>3 DEF CreateOrder
<1>4. ASSUME NEW d \in Deliveries, d # e,
             \/ \E cb \in Callbacks : Receive(d, cb) \/ Refuse(d, cb)
             \/ Handle(d)
             \/ Crash(d)
      PROVE  HandlerOK(e)'
  BY <1>2, <1>4, OthersUntouched
<1>5. ASSUME NEW cb \in Callbacks, Receive(e, cb) PROVE HandlerOK(e)'
  BY <1>5 DEF TypeOK, HandlerOK, Receive, Acceptable
<1>6. ASSUME NEW cb \in Callbacks, Refuse(e, cb) PROVE HandlerOK(e)'
  BY <1>6 DEF TypeOK, HandlerOK, Refuse
<1>7. CASE Lookup(e)
  BY <1>7 DEF TypeOK, HandlerOK, Lookup, Repeated, Target
<1>8. CASE TxRead(e)
  BY <1>8 DEF TypeOK, HandlerOK, TxRead
<1>9. CASE TxInsert(e)
  BY <1>9 DEF TypeOK, HandlerOK, TxInsert
<1>10. CASE TxCommit(e)
  <2>1. ShouldOpen(e)' <=> ShouldOpen(e)
    BY <1>10 DEF TxCommit, ShouldOpen, Succeeded, AlreadyPaid
  <2>2. pc'[e] = IF ShouldOpen(e) THEN "opening" ELSE "processed"
    BY <1>10 DEF TxCommit, TypeOK
  <2>3. row'[e] = "committed" /\ body'[e] = body[e] /\ pc[e] = "inserted"
    BY <1>10 DEF TxCommit, TypeOK
  <2> QED
    BY <1>1, <2>1, <2>2, <2>3 DEF HandlerOK
<1>11. CASE OpenSubscription(e)
  <2>1. PlanOf[body[e].order] # NoPlan
    BY <1>11 DEF OpenSubscription, HandlerOK, ShouldOpen
  <2>2. Opened(e)'
    BY <1>11, <2>1 DEF OpenSubscription, TypeOK, Opened
  <2> QED
    BY <1>11, <2>2 DEF TypeOK, HandlerOK, OpenSubscription
<1>12. CASE Dispatch(e)
  BY <1>12 DEF TypeOK, HandlerOK, Dispatch, ShouldOpen, Succeeded, AlreadyPaid, Opened
<1>13. CASE Crash(e)
  BY <1>13 DEF TypeOK, HandlerOK, Crash
<1>14. CASE UNCHANGED vars
  BY <1>2, <1>14 DEF vars
<1> QED
  BY <1>3, <1>4, <1>5, <1>6, <1>7, <1>8, <1>9, <1>10, <1>11, <1>12, <1>13, <1>14
     DEF Next, Handle

(* The order table is written by the commit of a delivery only.            *)
LEMMA StatusIsRecordedKept ==
  ASSUME Inv, [Next]_vars
  PROVE  StatusIsRecorded'
<1> TypeOK /\ HandlerState /\ StatusIsRecorded
  BY DEF Inv
<1> SUFFICES ASSUME NEW o \in Orders
             PROVE  /\ status'[o] \notin {"absent", "pending"} =>
                         \E d \in Deliveries : /\ row'[d] = "committed"
                                               /\ body'[d].order = o
                                               /\ body'[d].amount = AmountOf[o]
                                               /\ status'[o] = Target(body'[d].status)
                    /\ status'[o] = "paid" => paidAt'[o]
  BY DEF StatusIsRecorded, Target
<1>1. ASSUME status'[o] = status[o], paidAt'[o] = paidAt[o]
      PROVE  /\ status'[o] \notin {"absent", "pending"} =>
                  \E d \in Deliveries : /\ row'[d] = "committed"
                                        /\ body'[d].order = o
                                        /\ body'[d].amount = AmountOf[o]
                                        /\ status'[o] = Target(body'[d].status)
             /\ status'[o] = "paid" => paidAt'[o]
  BY <1>1, GrantsStay DEF StatusIsRecorded
<1>2. CASE \E p \in Orders : CreateOrder(p)
  <2>1. status'[o] \in {"pending", status[o]} /\ paidAt' = paidAt
    BY <1>2 DEF CreateOrder, TypeOK
  <2> QED
    BY <1>1, <2>1
<1>3. ASSUME NEW d \in Deliveries,
             \/ \E cb \in Callbacks : Receive(d, cb) \/ Refuse(d, cb)
             \/ Handle(d) /\ ~TxCommit(d)
             \/ Crash(d)
      PROVE  UNCHANGED <<status, paidAt>>
  BY <1>3 DEF Receive, Refuse, Handle, Lookup, TxRead, TxInsert, OpenSubscription,
     Dispatch, Crash
<1>4. ASSUME NEW d \in Deliveries, TxCommit(d),
             status'[o] # status[o] \/ paidAt'[o] # paidAt[o]
      PROVE  /\ row'[d] = "committed"
             /\ body'[d].order = o
             /\ body'[d].amount = AmountOf[o]
             /\ status'[o] = Target(body'[d].status)
             /\ status'[o] = "paid" => paidAt'[o]
  <2>1. ~(AlreadyPaid(d) /\ Succeeded(d)) /\ body[d].order = o
    BY <1>4 DEF TxCommit, NewStatus, NewPaidAt, TypeOK
  <2>2. status'[o] = Target(body[d].status) /\ paidAt'[o] = (Succeeded(d) \/ snap[d].paidAt)
    BY <1>4, <2>1 DEF TxCommit, NewStatus, NewPaidAt, TypeOK
  <2>3. row'[d] = "committed" /\ body' = body /\ body[d].amount = AmountOf[o]
    BY <1>4, <2>1 DEF TxCommit, TypeOK, HandlerState, HandlerOK
  <2>4. Target(body[d].status) = "paid" => Succeeded(d)
    BY CallbackType, TargetType DEF Succeeded
  <2> QED
    BY <2>1, <2>2, <2>3, <2>4
<1>5. CASE UNCHANGED vars
  BY <1>1, <1>5 DEF vars
<1> QED
  BY <1>1, <1>2, <1>3, <1>4, <1>5 DEF Next

LEMMA OpenedOnlyByPaymentKept ==
  ASSUME Inv, [Next]_vars
  PROVE  OpenedOnlyByPayment'
<1> TypeOK /\ HandlerState /\ OpenedOnlyByPayment
  BY DEF Inv
<1> SUFFICES ASSUME NEW e \in Deliveries, sub'[e] # NoPlan
             PROVE  /\ row'[e] = "committed"
                    /\ body'[e].status = "succeeded"
                    /\ snap'[e].status # "paid"
                    /\ PlanOf[body'[e].order] # NoPlan
                    /\ sub'[e] = PlanOf[body'[e].order]
  BY DEF OpenedOnlyByPayment, Opened, Grants
<1>1. CASE sub[e] # NoPlan
  <2>1. row[e] = "committed" /\ e \in Grants(body[e].order) /\ sub[e] = PlanOf[body[e].order]
    BY <1>1 DEF OpenedOnlyByPayment, Opened, Grants
  <2>2. body[e].order \in Orders
    BY CallbackType
  <2> QED
    BY <1>1, <2>1, <2>2, GrantsStay DEF Grants
<1>2. CASE sub[e] = NoPlan
  <2>1. OpenSubscription(e)
    <3>1. ASSUME NEW d \in Deliveries, d # e,
                 \/ \E cb \in Callbacks : Receive(d, cb) \/ Refuse(d, cb)
                 \/ Handle(d)
                 \/ Crash(d)
          PROVE  FALSE
      BY <1>2, <3>1, OthersUntouched
    <3>2. ASSUME \/ \E o \in Orders : CreateOrder(o)
                 \/ \E cb \in Callbacks : Receive(e, cb) \/ Refuse(e, cb)
                 \/ Handle(e) /\ ~OpenSubscription(e)
                 \/ Crash(e)
                 \/ UNCHANGED vars
          PROVE  FALSE
      BY <1>2, <3>2 DEF CreateOrder, Receive, Refuse, Handle, Lookup, TxRead, TxInsert,
         TxCommit, Dispatch, Crash, vars
    <3> QED
      BY <3>1, <3>2 DEF Next
  <2>2. ShouldOpen(e) /\ row[e] = "committed"
    BY <2>1 DEF OpenSubscription, HandlerState, HandlerOK
  <2>3. sub'[e] = PlanOf[body[e].order] /\ UNCHANGED <<body, row, snap>>
    BY <2>1 DEF OpenSubscription, TypeOK
  <2> QED
    BY <2>2, <2>3 DEF Grants, ShouldOpen, Succeeded, AlreadyPaid
<1> QED
  BY <1>1, <1>2

LEMMA RepeatsAreRecordedKept ==
  ASSUME Inv, [Next]_vars
  PROVE  RepeatsAreRecorded'
<1> TypeOK /\ HandlerState /\ RepeatsAreRecorded
  BY DEF Inv
<1> SUFFICES ASSUME NEW d \in Deliveries, pc'[d] = "idempotent"
             PROVE  \E e \in Deliveries \ {d} : row'[e] = "committed" /\ body'[e] = body'[d]
  BY DEF RepeatsAreRecorded
<1>1. ASSUME NEW e \in Deliveries \ {d}, row[e] = "committed", body[e] = body[d],
             body'[d] = body[d]
      PROVE  row'[e] = "committed" /\ body'[e] = body'[d]
  BY <1>1, GrantsStay
<1>2. CASE pc[d] = "idempotent"
  <2>1. body'[d] = body[d]
    <3>1. ASSUME NEW f \in Deliveries, f # d,
                 \/ \E cb \in Callbacks : Receive(f, cb) \/ Refuse(f, cb)
                 \/ Handle(f)
                 \/ Crash(f)
          PROVE  body'[d] = body[d]
      BY <3>1, OthersUntouched
    <3>2. ASSUME \/ \E o \in Orders : CreateOrder(o)
                 \/ Handle(d) \/ Crash(d)
                 \/ UNCHANGED vars
          PROVE  body' = body
      BY <3>2 DEF CreateOrder, Handle, Lookup, TxRead, TxInsert, TxCommit, Dispatch,
         OpenSubscription, Crash, vars
    <3>3. ASSUME NEW cb \in Callbacks, Receive(d, cb) \/ Refuse(d, cb) PROVE FALSE
      BY <1>2, <3>3 DEF Receive, Refuse
    <3> QED
      BY <3>1, <3>2, <3>3 DEF Next
  <2> QED
    BY <1>1, <1>2, <2>1 DEF RepeatsAreRecorded
<1>3. CASE pc[d] # "idempotent"
  <2>1. Lookup(d) /\ Repeated(d)
    <3>1. ASSUME NEW f \in Deliveries, f # d,
                 \/ \E cb \in Callbacks : Receive(f, cb) \/ Refuse(f, cb)
                 \/ Handle(f)
                 \/ Crash(f)
          PROVE  FALSE
      BY <1>3, <3>1, OthersUntouched
    <3>2. ASSUME \/ \E o \in Orders : CreateOrder(o)
                 \/ \E cb \in Callbacks : Receive(d, cb) \/ Refuse(d, cb)
                 \/ Handle(d) /\ ~Lookup(d)
                 \/ Crash(d)
                 \/ UNCHANGED vars
          PROVE  FALSE
      BY <1>3, <3>2 DEF TypeOK, CreateOrder, Receive, Refuse, Handle, TxRead, TxInsert,
         TxCommit, OpenSubscription, Dispatch, Crash, vars
    <3>3. Lookup(d) => Repeated(d)
      BY DEF Lookup, TypeOK
    <3> QED
      BY <3>1, <3>2, <3>3 DEF Next
  <2>2. PICK e \in SameTradeRows(d) : body[e].status = body[d].status
    BY <2>1 DEF Repeated
  <2>3. e \in Deliveries /\ row[e] = "committed" /\ pc[d] = "lookup" /\ body' = body
    BY <2>1, <2>2 DEF Lookup, SameTradeRows
  <2>4. e # d
    BY <2>3 DEF HandlerState, HandlerOK
  <2>5. body[e].order = body[d].order /\ body[e].trade = body[d].trade
    BY <2>2 DEF SameTradeRows
  <2>6. body[e].amount = body[d].amount
    BY <2>3, <2>5 DEF HandlerState, HandlerOK
  <2>7. body[e] = body[d]
    <3>1. ASSUME NEW a \in Callbacks
          PROVE  a \in [order : Orders, trade : Trades \cup {NoTrade},
                        status : Results, amount : Amounts]
      BY PaymentAssumption
    <3>2. body[e] \in Callbacks /\ body[d] \in Callbacks
      BY <2>3, CallbackType
    <3> QED
      BY <2>2, <2>5, <2>6, <3>1, <3>2
  <2> QED
    BY <1>1, <2>3, <2>4, <2>7
<1> QED
  BY <1>2, <1>3

LEMMA PaidIsGrantedKept ==
  ASSUME Inv, [Next]_vars
  PROVE  PaidIsGranted'
<1> TypeOK /\ HandlerState /\ PaidIsGranted
  BY DEF Inv
<1>1. ASSUME NEW o \in Orders, status'[o] = "paid", PlanOf[o] # NoPlan
      PROVE  Grants(o)' # {}
  <2>1. CASE status[o] = "paid"
    BY <1>1, <2>1, GrantsGrow DEF PaidIsGranted
  <2>2. CASE status[o] # "paid"
    <3>1. PICK d \in Deliveries : TxCommit(d)
      <4>1. ASSUME NEW p \in Orders, CreateOrder(p) PROVE FALSE
        BY <1>1, <2>2, <4>1 DEF CreateOrder, TypeOK
      <4>2. ASSUME NEW d \in Deliveries,
                   \/ \E cb \in Callbacks : Receive(d, cb) \/ Refuse(d, cb)
                   \/ Handle(d) /\ ~TxCommit(d)
                   \/ Crash(d)
            PROVE  FALSE
        BY <1>1, <2>2, <4>2 DEF Receive, Refuse, Handle, Lookup, TxRead, TxInsert,
           OpenSubscription, Dispatch, Crash
      <4>3. ASSUME UNCHANGED vars PROVE FALSE
        BY <1>1, <2>2, <4>3 DEF vars
      <4> QED
        BY <4>1, <4>2, <4>3 DEF Next, Handle
    <3>2. ~(AlreadyPaid(d) /\ Succeeded(d)) /\ body[d].order = o
      BY <1>1, <2>2, <3>1 DEF TxCommit, NewStatus, TypeOK
    <3>3. status'[o] = Target(body[d].status)
      BY <3>1, <3>2, <1>1 DEF TxCommit, NewStatus, TypeOK
    <3>4. body[d].status = "succeeded" /\ snap[d].status # "paid"
      BY <1>1, <3>2, <3>3, CallbackType, TargetType DEF Succeeded, AlreadyPaid
    <3>5. row'[d] = "committed" /\ body' = body /\ snap' = snap
      BY <3>1 DEF TxCommit, TypeOK
    <3>6. d \in Grants(o)'
      BY <1>1, <3>2, <3>4, <3>5 DEF Grants
    <3> QED
      BY <3>6
  <2> QED
    BY <2>1, <2>2
<1>2. ASSUME NEW d \in Deliveries, "paid" \in {seen'[d], snap'[d].status},
             PlanOf[body'[d].order] # NoPlan
      PROVE  \E e \in Deliveries : /\ row'[e] = "committed"
                                   /\ body'[e].order = body'[d].order
                                   /\ body'[e].status = "succeeded"
                                   /\ snap'[e].status # "paid"
  <2> DEFINE Granted(o) == \E e \in Deliveries : /\ row'[e] = "committed"
                                                /\ body'[e].order = o
                                                /\ body'[e].status = "succeeded"
                                                /\ snap'[e].status # "paid"
  <2>1. ASSUME NEW o \in Orders, Grants(o) # {} PROVE Granted(o)
    BY <2>1, GrantsGrow DEF Grants
  <2>2. ASSUME NEW o \in Orders, status[o] = "paid", PlanOf[o] # NoPlan PROVE Granted(o)
    BY <2>1, <2>2 DEF PaidIsGranted
  <2>3. ASSUME "paid" \in {seen[d], snap[d].status}, body'[d] = body[d]
        PROVE  Granted(body'[d].order)
    BY <1>2, <2>1, <2>3, CallbackType DEF PaidIsGranted
  <2> HIDE DEF Granted
  <2>4. ASSUME NEW f \in Deliveries, f # d,
               \/ \E cb \in Callbacks : Receive(f, cb) \/ Refuse(f, cb)
               \/ Handle(f)
               \/ Crash(f)
        PROVE  Granted(body'[d].order)
    BY <1>2, <2>3, <2>4, OthersUntouched
  <2>5. ASSUME NEW cb \in Callbacks, Receive(d, cb) PROVE Granted(body'[d].order)
    <3>1. snap'[d].status = "absent" /\ seen'[d] = status[cb.order] /\ body'[d] = cb
      BY <2>5 DEF Receive, TypeOK, HandlerState, HandlerOK
    <3>2. cb.order \in Orders
      BY PaymentAssumption
    <3> QED
      BY <1>2, <2>2, <3>1, <3>2
  <2>6. ASSUME NEW cb \in Callbacks, Refuse(d, cb) PROVE FALSE
    BY <1>2, <2>6 DEF Refuse, HandlerState, HandlerOK
  <2>7. ASSUME TxRead(d) PROVE Granted(body'[d].order)
    <3>1. body' = body /\ seen' = seen /\ snap'[d].status = status[body[d].order]
      BY <2>7 DEF TxRead, TypeOK
    <3> QED
      BY <1>2, <2>2, <2>3, <3>1, CallbackType
  <2>8. ASSUME \/ \E o \in Orders : CreateOrder(o)
               \/ Handle(d) /\ ~TxRead(d)
               \/ Crash(d)
               \/ UNCHANGED vars
        PROVE  Granted(body'[d].order)
    <3>1. UNCHANGED <<body, seen, snap>>
      BY <2>8 DEF CreateOrder, Handle, Lookup, TxInsert, TxCommit, OpenSubscription,
         Dispatch, Crash, vars
    <3> QED
      BY <1>2, <2>3, <3>1
  <2>9. Granted(body'[d].order)
    BY <2>4, <2>5, <2>6, <2>7, <2>8 DEF Next, Handle
  <2> QED
    BY <2>9 DEF Granted
<1> QED
  <2>1. \A d \in Deliveries : "paid" \in {seen'[d], snap'[d].status} /\ PlanOf[body'[d].order] # NoPlan
          => \E e \in Deliveries : /\ row'[e] = "committed"
                                  /\ body'[e].order = body'[d].order
                                  /\ body'[e].status = "succeeded"
                                  /\ snap'[e].status # "paid"
    BY <1>2
  <2> QED
    BY <1>1, <2>1 DEF PaidIsGranted, Grants

-----------------------------------------------------------------------------
LEMMA InvHolds == Spec => []Inv
<1>1. Init => Inv
  <2> SUFFICES ASSUME Init PROVE Inv
    OBVIOUS
  <2>1. TypeOK
    <3>1. (CHOOSE cb \in Callbacks : TRUE) \in Callbacks
      BY PaymentAssumption
    <3> QED
      BY <3>1 DEF Init, TypeOK
  <2>2. HandlerState
    BY DEF Init, HandlerState, HandlerOK
  <2>3. StatusIsRecorded /\ OpenedOnlyByPayment /\ RepeatsAreRecorded
    BY DEF Init, StatusIsRecorded, OpenedOnlyByPayment, RepeatsAreRecorded, Opened
  <2>4. PaidIsGranted
    BY DEF Init, PaidIsGranted
  <2> QED
    BY <2>1, <2>2, <2>3, <2>4 DEF Inv
<1>2. TypeOK' /\ Inv /\ [Next]_vars => Inv'
  BY HandlerStateKept, StatusIsRecordedKept, OpenedOnlyByPaymentKept,
     RepeatsAreRecordedKept, PaidIsGrantedKept DEF Inv
<1> QED
  BY <1>1, <1>2, TypeCorrect, PTL DEF Spec

(* However the callbacks race and whichever requests die, a settled order  *)
(* has a transaction row that says so, from a callback that carried the    *)
(* order's own amount, and a paid order has its paidAt.                    *)
THEOREM SettledByARow == Spec => []StatusIsRecorded
<1>1. Inv => StatusIsRecorded
  BY DEF Inv
<1> QED
  BY <1>1, InvHolds, PTL

(* Every subscription the webhook opens stems from a recorded success that *)
(* found the order unpaid.                                                 *)
THEOREM PaymentBeforeSubscription == Spec => []OpenedOnlyByPayment
<1>1. Inv => OpenedOnlyByPayment
  BY DEF Inv
<1> QED
  BY <1>1, InvHolds, PTL

(* What orders and subscriptions say is what committed callbacks said.     *)
THEOREM RecordsTellTheTruth == Spec => []RecordsAreTrue
  BY SettledByARow, PaymentBeforeSubscription, PTL DEF RecordsAreTrue

(* A callback answered "idempotent" repeats one that was recorded.         *)
THEOREM IdempotentIsRepeated == Spec => []RepeatsAreRecorded
<1>1. Inv => RepeatsAreRecorded
  BY DEF Inv
<1> QED
  BY <1>1, InvHolds, PTL

(* A success that was acknowledged, at first or as a repeat, has a         *)
(* delivery that opened the subscription, is opening it, or died.          *)
THEOREM AcknowledgedSuccess == Spec => []AcknowledgedIsGranted
<1>1. Inv => AcknowledgedIsGranted
  <2> SUFFICES ASSUME Inv, NEW d \in Deliveries,
                      pc[d] \in {"idempotent", "processed"}, Succeeded(d),
                      PlanOf[Order(d)] # NoPlan
               PROVE  \E e \in Grants(Order(d)) : Opened(e) \/ pc[e] \in {"opening", "crashed"}
    BY DEF AcknowledgedIsGranted
  <2> TypeOK /\ HandlerState /\ PaidIsGranted
    BY DEF Inv
  <2>1. Grants(Order(d)) # {}
    <3>1. CASE pc[d] = "idempotent"
      <4>1. seen[d] = "paid"
        BY <3>1, CallbackType, TargetType DEF HandlerState, HandlerOK, Succeeded
      <4> QED
        BY <4>1 DEF PaidIsGranted
    <3>2. CASE pc[d] = "processed" /\ snap[d].status = "paid"
      BY <3>2 DEF PaidIsGranted
    <3>3. CASE pc[d] = "processed" /\ snap[d].status # "paid"
      <4>1. row[d] = "committed"
        BY <3>3 DEF HandlerState, HandlerOK
      <4>2. d \in Grants(Order(d))
        BY <3>3, <4>1 DEF Grants, Succeeded
      <4> QED
        BY <4>2
    <3> QED
      BY <3>1, <3>2, <3>3
  <2>2. PICK e \in Grants(Order(d)) : TRUE
    BY <2>1
  <2>3. e \in Deliveries /\ row[e] = "committed" /\ ShouldOpen(e)
    BY <2>2 DEF Grants, ShouldOpen, Succeeded, AlreadyPaid
  <2>4. Opened(e) \/ pc[e] \in {"opening", "crashed"}
    BY <2>3 DEF HandlerState, HandlerOK
  <2> QED
    BY <2>2, <2>4
<1> QED
  BY <1>1, InvHolds, PTL

-----------------------------------------------------------------------------
(* One request at a time: what a handler read inside its transaction is    *)
(* still the order when it writes.                                         *)
Alone ==
  /\ \A d, e \in Deliveries : pc[d] \in Busy /\ pc[e] \in Busy => d = e
  /\ \A d \in Deliveries :
       pc[d] \in {"read", "inserted"} =>
         snap[d].status = status[Order(d)] /\ snap[d].paidAt = paidAt[Order(d)]

LEMMA NobodyElse ==
  ASSUME MaxInFlight = 1, NEW d \in Deliveries, NEW cb \in Callbacks, Receive(d, cb)
  PROVE  \A e \in Deliveries : pc[e] \notin Busy
<1>1. IsFiniteSet(InFlight)
  <2>1. InFlight \subseteq Deliveries
    BY DEF InFlight
  <2> QED
    BY <2>1, PaymentAssumption, FS_Subset
<1>2. Cardinality(InFlight) < 1
  BY DEF Receive
<1>3. Cardinality(InFlight) = 0
  BY <1>1, <1>2, FS_CardinalityType
<1> QED
  BY <1>1, <1>3, FS_EmptySet DEF InFlight

LEMMA AloneKept ==
  ASSUME MaxInFlight = 1, Inv, Alone, [Next]_vars
  PROVE  Alone'
<1> TypeOK /\ HandlerState
  BY DEF Inv
<1>1. CASE \E o \in Orders : CreateOrder(o)
  <2>1. PICK o \in Orders : CreateOrder(o)
    BY <1>1
  <2>2. UNCHANGED <<pc, body, snap, paidAt>>
    BY <2>1 DEF CreateOrder
  <2>3. \A p \in Orders : status[p] # "absent" => status'[p] = status[p]
    BY <2>1 DEF CreateOrder, TypeOK
  <2>4. \A d \in Deliveries : body[d].order \in Orders
    BY CallbackType
  <2>5. \A d \in Deliveries : pc[d] \in Busy => status[body[d].order] # "absent"
    BY DEF HandlerState, HandlerOK
  <2> QED
    BY <2>2, <2>3, <2>4, <2>5 DEF Alone
<1>2. ASSUME NEW d \in Deliveries, NEW cb \in Callbacks, Receive(d, cb) PROVE Alone'
  <2>1. \A e \in Deliveries : pc[e] \notin Busy
    BY <1>2, NobodyElse
  <2>2. \A e \in Deliveries : pc'[e] = IF e = d THEN "lookup" ELSE pc[e]
    BY <1>2 DEF Receive, TypeOK
  <2> QED
    BY <2>1, <2>2 DEF Alone
<1>3. ASSUME NEW d \in Deliveries, NEW cb \in Callbacks, Refuse(d, cb) PROVE Alone'
  BY <1>3 DEF Refuse, Alone, TypeOK
<1>4. ASSUME NEW d \in Deliveries, Handle(d) PROVE Alone'
  <2>1. pc[d] \in Busy /\ \A e \in Deliveries \ {d} : pc[e] \notin Busy
    BY <1>4 DEF Alone, Handle, Lookup, TxRead, TxInsert, TxCommit, OpenSubscription, Dispatch
  <2>2. \A e \in Deliveries \ {d} : pc'[e] = pc[e] /\ snap'[e] = snap[e] /\ body'[e] = body[e]
    BY <1>4, OthersUntouched
  <2>3. CASE TxRead(d)
    BY <2>1, <2>2, <2>3 DEF Alone, TxRead, TypeOK
  <2>4. CASE TxInsert(d)
    BY <2>1, <2>2, <2>4 DEF Alone, TxInsert, TypeOK
  <2>5. CASE Handle(d) /\ ~TxRead(d) /\ ~TxInsert(d)
    <3>1. pc'[d] \notin {"read", "inserted"}
      BY <2>5 DEF Handle, Lookup, TxCommit, OpenSubscription, Dispatch, TypeOK
    <3> QED
      BY <2>1, <2>2, <3>1 DEF Alone
  <2> QED
    BY <1>4, <2>3, <2>4, <2>5
<1>5. ASSUME NEW d \in Deliveries, Crash(d) PROVE Alone'
  BY <1>5 DEF Crash, Alone, TypeOK
<1>6. CASE UNCHANGED vars
  BY <1>6 DEF vars, Alone
<1> QED
  BY <1>1, <1>2, <1>3, <1>4, <1>5, <1>6 DEF Next

(* Grants are made by a commit only.                                       *)
LEMMA GrantsOfOthers ==
  ASSUME Inv, NEW o \in Orders,
         \/ \E p \in Orders : CreateOrder(p)
         \/ \E d \in Deliveries :
               \/ \E cb \in Callbacks : Receive(d, cb) \/ Refuse(d, cb)
               \/ Handle(d) /\ ~TxCommit(d)
               \/ Crash(d)
  PROVE  Grants(o)' = Grants(o)
<1> TypeOK /\ HandlerState
  BY DEF Inv
<1>1. CASE \E p \in Orders : CreateOrder(p)
  BY <1>1 DEF CreateOrder, Grants
<1>2. ASSUME NEW d \in Deliveries,
             \/ \E cb \in Callbacks : Receive(d, cb) \/ Refuse(d, cb)
             \/ Handle(d) /\ ~TxCommit(d)
             \/ Crash(d)
      PROVE  Grants(o)' = Grants(o)
  <2>1. \A e \in Deliveries \ {d} : row'[e] = row[e] /\ body'[e] = body[e] /\ snap'[e] = snap[e]
    BY <1>2, OthersUntouched
  <2>2. \/ row[d] # "committed" /\ row'[d] # "committed"
        \/ row'[d] = row[d] /\ body'[d] = body[d] /\ snap'[d] = snap[d]
    <3>1. CASE \E cb \in Callbacks : Receive(d, cb) \/ Refuse(d, cb)
      BY <3>1 DEF Receive, Refuse, HandlerState, HandlerOK, TypeOK
    <3>2. CASE TxRead(d) \/ TxInsert(d)
      BY <3>2 DEF TxRead, TxInsert, HandlerState, HandlerOK, TypeOK
    <3>3. CASE Lookup(d) \/ OpenSubscription(d) \/ Dispatch(d)
      BY <3>3 DEF Lookup, OpenSubscription, Dispatch
    <3>4. CASE Crash(d)
      BY <3>4 DEF Crash, TypeOK
    <3> QED
      BY <1>2, <3>1, <3>2, <3>3, <3>4 DEF Handle
  <2> QED
    BY <2>1, <2>2 DEF Grants
<1> QED
  BY <1>1, <1>2

LEMMA CommitKeepsPromise ==
  ASSUME Inv, NEW d \in Deliveries, TxCommit(d), ~StaleCommit(d)
  PROVE  [Promise!Next]_(Promise!vars)
<1> TypeOK /\ HandlerState
  BY DEF Inv
<1>0. PICK o \in Orders : o = body[d].order
  BY CallbackType
<1>1. /\ o \in Orders
      /\ snap[d].status = status[o] /\ snap[d].paidAt = paidAt[o]
      /\ status[o] # "absent"
      /\ row[d] # "committed"
  BY <1>0 DEF TxCommit, StaleCommit, Order, HandlerState, HandlerOK
<1>2. row' = [row EXCEPT ![d] = "committed"] /\ UNCHANGED <<body, snap>>
  BY DEF TxCommit
<1>3. /\ [p \in Orders |-> Grants(p)] \in [Orders -> SUBSET Deliveries]
      /\ [p \in Orders |-> Grants(p)]' = [p \in Orders |-> Grants(p)']
  BY DEF Grants
<1>4. ASSUME NEW p \in Orders, p # o \/ ~ShouldOpen(d) PROVE Grants(p)' = Grants(p)
  BY <1>0, <1>1, <1>2, <1>4 DEF Grants, ShouldOpen, Succeeded, AlreadyPaid, TypeOK
<1>5. CASE AlreadyPaid(d) /\ Succeeded(d)
  <2>1. status' = status /\ paidAt' = paidAt
    BY <1>5 DEF TxCommit, NewStatus, NewPaidAt
  <2>2. \A p \in Orders : Grants(p)' = Grants(p)
    BY <1>4, <1>5 DEF ShouldOpen
  <2> QED
    BY <1>3, <2>1, <2>2 DEF Promise!vars
<1>6. CASE ~AlreadyPaid(d) /\ Succeeded(d)
  <2>1. /\ status[o] \in {"pending", "failed", "refunded"}
        /\ status' = [status EXCEPT ![o] = "paid"]
        /\ paidAt' = [paidAt EXCEPT ![o] = TRUE]
    BY <1>0, <1>1, <1>6 DEF TxCommit, NewStatus, NewPaidAt, AlreadyPaid, Succeeded, Target, TypeOK
  <2>2. CASE PlanOf[o] # NoPlan
    <3>1. d \notin Grants(o) /\ Grants(o)' = Grants(o) \cup {d}
      BY <1>0, <1>1, <1>2, <1>6, <2>2 DEF Grants, Succeeded, AlreadyPaid, TypeOK
    <3>2. [p \in Orders |-> Grants(p)]'
            = [[p \in Orders |-> Grants(p)] EXCEPT ![o] = @ \cup {d}]
      <4>1. \A p \in Orders : Grants(p)' = IF p = o THEN Grants(p) \cup {d} ELSE Grants(p)
        BY <1>4, <3>1
      <4>2. [p \in Orders |-> Grants(p)']
              = [p \in Orders |-> IF p = o THEN Grants(p) \cup {d} ELSE Grants(p)]
        BY <4>1
      <4> QED
        BY <1>3, <4>2
    <3>3. Promise!Pay(o)
      BY <1>0, <1>1, <2>1, <2>2, <3>1, <3>2 DEF Promise!Pay
    <3> QED
      BY <1>0, <1>1, <3>3 DEF Promise!Next
  <2>3. CASE PlanOf[o] = NoPlan
    <3>1. \A p \in Orders : Grants(p)' = Grants(p)
      BY <1>0, <1>4, <2>3 DEF ShouldOpen
    <3>2. Promise!Pay(o)
      BY <1>0, <1>1, <1>3, <2>1, <2>3, <3>1 DEF Promise!Pay
    <3> QED
      BY <1>0, <1>1, <3>2 DEF Promise!Next
  <2> QED
    BY <2>2, <2>3
<1>7. CASE ~Succeeded(d)
  <2>1. /\ status' = [status EXCEPT ![o] = Target(body[d].status)]
        /\ Target(body[d].status) \in {"failed", "refunded"}
    BY <1>0, <1>7, CallbackType, TargetType DEF TxCommit, NewStatus, Succeeded
  <2>2. paidAt' = paidAt
    <3>1. paidAt' = [paidAt EXCEPT ![o] = paidAt[o]]
      <4>1. paidAt' = [paidAt EXCEPT ![o] = Succeeded(d) \/ snap[d].paidAt]
        BY <1>0, <1>7 DEF TxCommit, NewPaidAt
      <4>2. (Succeeded(d) \/ snap[d].paidAt) = paidAt[o]
        BY <1>0, <1>1, <1>7 DEF TypeOK
      <4> QED
        BY <4>1, <4>2
    <3> QED
      BY <3>1 DEF TypeOK
  <2>3. \A p \in Orders : Grants(p)' = Grants(p)
    BY <1>4, <1>7 DEF ShouldOpen
  <2>4. Promise!Overturn(o)
    BY <1>0, <1>1, <1>3, <2>1, <2>2, <2>3 DEF Promise!Overturn
  <2> QED
    BY <1>0, <1>1, <2>4 DEF Promise!Next
<1> QED
  BY <1>5, <1>6, <1>7

(* Every step but a stale commit is a step of the promise, or changes      *)
(* nothing it tells.                                                       *)
LEMMA StepKeepsPromise ==
  ASSUME Inv, [Next]_vars
  PROVE  [Promise!Next \/ \E d \in Deliveries : StaleCommit(d)]_(Promise!vars)
<1>1. ASSUME NEW d \in Deliveries, TxCommit(d)
      PROVE  [Promise!Next \/ StaleCommit(d)]_(Promise!vars)
  BY <1>1, CommitKeepsPromise
<1>2. ASSUME NEW o \in Orders, CreateOrder(o) PROVE [Promise!Next]_(Promise!vars)
  <2>1. \A p \in Orders : Grants(p)' = Grants(p)
    BY <1>2, GrantsOfOthers
  <2>2. Promise!Create(o)
    BY <1>2, <2>1 DEF CreateOrder, Promise!Create
  <2> QED
    BY <2>2 DEF Promise!Next
<1>3. ASSUME NEW d \in Deliveries,
             \/ \E cb \in Callbacks : Receive(d, cb) \/ Refuse(d, cb)
             \/ Handle(d) /\ ~TxCommit(d)
             \/ Crash(d)
      PROVE  UNCHANGED Promise!vars
  <2>1. \A p \in Orders : Grants(p)' = Grants(p)
    BY <1>3, GrantsOfOthers
  <2>2. UNCHANGED <<status, paidAt>>
    BY <1>3 DEF Receive, Refuse, Handle, Lookup, TxRead, TxInsert, OpenSubscription,
       Dispatch, Crash
  <2> QED
    BY <2>1, <2>2 DEF Promise!vars
<1>4. CASE UNCHANGED vars
  BY <1>4 DEF vars, Promise!vars, Grants
<1> QED
  BY <1>1, <1>2, <1>3, <1>4 DEF Next

(* What the webhook answers can be relied upon.                            *)
THEOREM AnswersCount == Spec => []AnswersAreTrue
  BY AcknowledgedSuccess, IdempotentIsRepeated, PTL DEF AnswersAreTrue

(* However many requests run at once and die, the handler implements the   *)
(* promise up to stale commits: an order is granted once each time it      *)
(* becomes paid, and paidAt is never lost.                                 *)
THEOREM HandlerKeepsPromise == Spec => PromiseKept
<1>1. Init => Promise!Init
  BY DEF Init, Promise!Init, Grants
<1> QED
  BY <1>1, StepKeepsPromise, InvHolds, PTL DEF Spec, PromiseKept

(* When the requests are handled one at a time, and may still die at any   *)
(* step, there is no stale commit, and the handler implements the promise. *)
THEOREM SerialKeepsPromise == (MaxInFlight = 1) /\ Spec => Promise!Spec
<1> SUFFICES ASSUME MaxInFlight = 1 PROVE Spec => Promise!Spec
  OBVIOUS
<1>1. Init => Alone /\ Promise!Init
  BY DEF Init, Alone, Promise!Init, Grants
<1>2. Inv /\ Alone /\ [Next]_vars => Alone'
  BY AloneKept
<1>3. Inv /\ Alone /\ [Next]_vars => [Promise!Next]_(Promise!vars)
  <2> SUFFICES ASSUME Inv, Alone, [Next]_vars PROVE [Promise!Next]_(Promise!vars)
    OBVIOUS
  <2>1. ASSUME NEW d \in Deliveries PROVE ~StaleCommit(d)
    <3>1. PICK o \in Orders : o = body[d].order
      BY CallbackType DEF Inv
    <3>2. ASSUME TxCommit(d)
          PROVE  snap[d] = [status |-> status[o], paidAt |-> paidAt[o]]
      BY <3>1, <3>2 DEF TxCommit, Alone, Inv, TypeOK
    <3> QED
      BY <3>1, <3>2 DEF StaleCommit, Order
  <2> QED
    BY <2>1, StepKeepsPromise
<1> QED
  BY <1>1, <1>2, <1>3, InvHolds, PTL DEF Spec, Promise!Spec

(* An order for which only successes were ever recorded: no trade of it    *)
(* failed or was refunded.                                                 *)
OnlySuccesses(o) == \A d \in Deliveries : row[d] = "committed" /\ Order(d) = o => Succeeded(d)

(* Such an order has a subscription at most.                               *)
OpenedOnceIfKept ==
  \A o \in Orders :
    OnlySuccesses(o) =>
      \A d, e \in Deliveries : Opened(d) /\ Opened(e) /\ Order(d) = o /\ Order(e) = o => d = e

(* It is granted by the first delivery recorded for it, and paid with it.  *)
GrantedOnce(o) ==
  OnlySuccesses(o) =>
    /\ status[o] # "paid" => \A d \in Deliveries : Order(d) = o => row[d] # "committed"
    /\ \A d, e \in Grants(o) : d = e

LEMMA GrantedOnceKept ==
  ASSUME Inv, Alone, [Next]_vars, NEW o \in Orders, GrantedOnce(o)
  PROVE  GrantedOnce(o)'
<1> TypeOK /\ HandlerState /\ StatusIsRecorded
  BY DEF Inv
<1> USE DEF Succeeded
<1>1. ASSUME OnlySuccesses(o)' PROVE OnlySuccesses(o)
  BY <1>1, GrantsStay DEF OnlySuccesses
<1>2. ASSUME NEW d \in Deliveries, TxCommit(d), body[d].order = o, OnlySuccesses(o)'
      PROVE  GrantedOnce(o)'
  <2>1. row'[d] = "committed" /\ body' = body /\ snap' = snap /\ row[d] # "committed"
    BY <1>2 DEF TxCommit, TypeOK, HandlerState, HandlerOK
  <2>2. body[d].status = "succeeded" /\ snap[d].status = status[o]
    BY <1>2, <2>1 DEF OnlySuccesses, Alone, TxCommit
  <2>3. status'[o] = "paid"
    BY <1>2, <2>2 DEF TxCommit, NewStatus, AlreadyPaid, Target, TypeOK
  <2>4. \A e \in Deliveries \ {d} : row'[e] = row[e]
    BY <1>2 DEF TxCommit, TypeOK
  <2>5. CASE status[o] = "paid"
    <3>1. Grants(o)' = Grants(o)
      BY <2>1, <2>2, <2>4, <2>5 DEF Grants
    <3> QED
      BY <1>1, <1>2, <2>3, <3>1 DEF GrantedOnce
  <2>6. CASE status[o] # "paid"
    <3>1. \A e \in Deliveries : body[e].order = o => row[e] # "committed"
      BY <1>1, <1>2, <2>6 DEF GrantedOnce
    <3>2. Grants(o)' \subseteq {d}
      BY <2>1, <2>4, <3>1 DEF Grants
    <3> QED
      BY <2>3, <3>2 DEF GrantedOnce
  <2> QED
    BY <2>5, <2>6
<1>3. ASSUME NEW d \in Deliveries, TxCommit(d), body[d].order # o
      PROVE  GrantedOnce(o)'
  <2>1. body' = body /\ snap' = snap /\ status'[o] = status[o]
        /\ \A e \in Deliveries : body[e].order = o => row'[e] = row[e]
    BY <1>3 DEF TxCommit, NewStatus, TypeOK
  <2>2. Grants(o)' = Grants(o)
    BY <2>1 DEF Grants
  <2> QED
    BY <1>1, <2>1, <2>2 DEF GrantedOnce
<1>4. ASSUME \/ \E p \in Orders : CreateOrder(p)
             \/ \E d \in Deliveries :
                   \/ \E cb \in Callbacks : Receive(d, cb) \/ Refuse(d, cb)
                   \/ Handle(d) /\ ~TxCommit(d)
                   \/ Crash(d)
      PROVE  GrantedOnce(o)'
  <2>1. Grants(o)' = Grants(o)
    BY <1>4, GrantsOfOthers
  <2>2. status[o] = "paid" => status'[o] = "paid"
    BY <1>4 DEF CreateOrder, Receive, Refuse, Handle, Lookup, TxRead, TxInsert, OpenSubscription,
       Dispatch, Crash, TypeOK
  <2>3. \A d \in Deliveries :
          row'[d] = "committed" => row[d] = "committed" /\ body'[d] = body[d]
    <3>1. ASSUME NEW d \in Deliveries, row'[d] = "committed" PROVE row[d] = "committed"
      BY <1>4, <3>1 DEF CreateOrder, Receive, Refuse, Handle, Lookup, TxRead, TxInsert,
         OpenSubscription, Dispatch, Crash, TypeOK
    <3> QED
      BY <3>1, GrantsStay
  <2> QED
    BY <1>1, <2>1, <2>2, <2>3 DEF GrantedOnce
<1>5. CASE UNCHANGED vars
  BY <1>5 DEF vars, GrantedOnce, OnlySuccesses, Grants
<1> QED
  BY <1>1, <1>2, <1>3, <1>4, <1>5 DEF Next, Handle, GrantedOnce

(* Handled one at a time, however often they are repeated and wherever     *)
(* they die, the callbacks of a payment open one subscription at most, as  *)
(* long as nothing but its success is reported.                            *)
THEOREM SerialOpensOnce == (MaxInFlight = 1) /\ Spec => []OpenedOnceIfKept
<1> SUFFICES ASSUME MaxInFlight = 1 PROVE Spec => []OpenedOnceIfKept
  OBVIOUS
<1> DEFINE Granted == \A o \in Orders : GrantedOnce(o)
<1>1. Init => Alone /\ Granted
  BY DEF Init, Alone, GrantedOnce, Grants
<1>2. Inv /\ Alone /\ [Next]_vars => Alone'
  BY AloneKept
<1>3. Inv /\ Alone /\ Granted /\ [Next]_vars => Granted'
  BY GrantedOnceKept
<1>4. Inv /\ Granted => OpenedOnceIfKept
  BY DEF Inv, OpenedOnlyByPayment, OpenedOnceIfKept, GrantedOnce
<1> QED
  BY <1>1, <1>2, <1>3, <1>4, InvHolds, PTL DEF Spec
=============================================================================
