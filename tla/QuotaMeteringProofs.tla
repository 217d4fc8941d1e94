------------------------- MODULE QuotaMeteringProofs -------------------------
(***************************************************************************)
(* Safety of metered calls for every number of slots, subscriptions and    *)
(* plans, every limit and every quantity: how far concurrent calls can     *)
(* overrun a bucket, and that what a call was admitted by is charged.      *)
(***************************************************************************)
EXTENDS QuotaMetering, FiniteSetTheorems, TLAPS

USE DEF Quantities, Goto

(* Every variable keeps its type, whatever the constants.                  *)
THEOREM TypeCorrect == Spec => []TypeOK
<1>1. Init => TypeOK
  BY QuotaAssumption DEF Init, TypeOK
<1>2. TypeOK /\ [Next]_vars => TypeOK'
  <2> SUFFICES ASSUME TypeOK, [Next]_vars PROVE TypeOK'
    OBVIOUS
  <2> USE QuotaAssumption DEF billing, call, counts
  <2>1. ASSUME NEW o \in Openings, NEW p \in Plans, NEW m \in Months, PrepareOpening(o, p, m)
        PROVE  TypeOK'
    BY <2>1 DEF TypeOK, PrepareOpening
  <2>2. ASSUME NEW o \in Openings, NEW p \in Plans, NEW t \in Time, NEW m \in Months,
               CreateSubscription(o, p, t, m)
        PROVE  TypeOK'
    BY <2>2 DEF TypeOK, CreateSubscription, Time
  <2>3. ASSUME NEW o \in Openings, CommitOpening(o) PROVE TypeOK'
    <3>1. startAt[o]..now \subseteq Nat
      BY DEF TypeOK
    <3>2. made' \in [Openings -> Nat]
      BY <2>3, <3>1 DEF TypeOK, CommitOpening
    <3>3. PeriodTaken(o) \in BOOLEAN
      BY DEF PeriodTaken
    <3>4. bucket' \in [Openings -> BOOLEAN]
      BY <2>3, <3>3 DEF TypeOK, CommitOpening
    <3> QED
      BY <2>3, <3>2, <3>4 DEF TypeOK, CommitOpening
  <2>4. ASSUME NEW s \in Slots, NEW q \in Quantities, Ask(s, q) PROVE TypeOK'
    BY <2>4 DEF TypeOK, Ask, Leave
  <2>5. ASSUME NEW s \in Slots, Check(s) PROVE TypeOK'
    BY <2>5 DEF TypeOK, Check, Leave
  <2>6. ASSUME NEW s \in Slots, Reject(s) \/ CallFails(s) \/ Die(s) PROVE TypeOK'
    BY <2>6 DEF TypeOK, Reject, CallFails, Die, Leave
  <2>7. ASSUME NEW s \in Slots, CallSucceeds(s) PROVE TypeOK'
    BY <2>7 DEF TypeOK, CallSucceeds
  <2>8. ASSUME NEW s \in Slots, Record(s) PROVE TypeOK'
    BY <2>8 DEF TypeOK, Record, Leave, Charge
  <2>9. ASSUME NEW q \in Quantities, RecordManually(q) PROVE TypeOK'
    BY <2>9 DEF TypeOK, RecordManually, Charge
  <2>10. CASE Tick
    BY <2>10 DEF TypeOK, Tick
  <2>11. CASE UNCHANGED vars
    BY <2>11 DEF TypeOK, vars
  <2> QED
    BY <2>1, <2>2, <2>3, <2>4, <2>5, <2>6, <2>7, <2>8, <2>9, <2>10, <2>11
    DEF Next, Billing, Serve
<1> QED
  BY <1>1, <1>2, PTL DEF Spec

-----------------------------------------------------------------------------
(* How far a bucket can go: c is what it was charged, H the calls it has   *)
(* admitted and not heard from, w their quantities, q the largest quantity *)
(* a call may have.  One of them was admitted when c plus its quantity was *)
(* within the limit; the rest came before it and may add q each.           *)
Room(c, w, H, q, top) ==
  IF H = {} THEN c <= top
  ELSE \E s \in H : c + w[s] + q * (Cardinality(H) - 1) <= top

(* A call that leaves, charged or not, leaves room for the others.         *)
LEMMA RoomAfterLeave ==
  ASSUME NEW H, IsFiniteSet(H), NEW q \in Nat, NEW w, \A s \in H : w[s] \in 0..q,
         NEW c \in Nat, NEW top \in Int, Room(c, w, H, q, top),
         NEW t \in H
  PROVE  /\ Room(c, w, H \ {t}, q, top)
         /\ Room(c + w[t], w, H \ {t}, q, top)
<1> SUFFICES ASSUME NEW d \in {c, c + w[t]}
             PROVE  Room(d, w, H \ {t}, q, top)
  OBVIOUS
<1>1. PICK s \in H : c + w[s] + q * (Cardinality(H) - 1) <= top
  BY DEF Room
<1> DEFINE n == Cardinality(H \ {t})
<1>2. n \in Nat /\ n = Cardinality(H) - 1 /\ IsFiniteSet(H \ {t})
  BY FS_RemoveElement, FS_CardinalityType
<1>3. c + w[s] + q * n <= top
  BY <1>1, <1>2
<1>4. w[s] \in 0..q /\ w[t] \in 0..q /\ d \in Nat /\ d <= c + w[t]
  OBVIOUS
<1> HIDE DEF n
<1>5. CASE H \ {t} = {}
  <2>1. s = t
    BY <1>5
  <2>2. n = 0
    BY <1>2, <1>5, FS_EmptySet DEF n
  <2>3. q * n = 0
    BY <2>2
  <2>4. d <= top
    BY <1>3, <1>4, <2>1, <2>3
  <2> QED
    BY <1>5, <2>4 DEF Room
<1>6. CASE H \ {t} # {}
  <2>1. n # 0
    BY <1>2, <1>6, FS_EmptySet DEF n
  <2>2. q * n = q * (n - 1) + q
    BY <1>2
  <2>3. q * (n - 1) \in Int
    BY <1>2
  <2>4. CASE s = t
    <3>1. PICK u : u \in H \ {t}
      BY <1>6
    <3>2. w[u] \in 0..q
      BY <3>1
    <3>3. d + w[u] + q * (n - 1) <= top
      <4> DEFINE z == q * (n - 1)
      <4>1. q * n = z + q /\ z \in Int
        BY <2>2, <2>3
      <4> HIDE DEF z
      <4>2. d + w[u] + z <= top
        BY <1>3, <1>4, <2>4, <3>2, <4>1
      <4> QED
        BY <4>2 DEF z
    <3> QED
      BY <1>6, <3>1, <3>3 DEF Room, n
  <2>5. CASE s # t
    <3>1. s \in H \ {t}
      BY <2>5
    <3>2. d + w[s] + q * (n - 1) <= top
      <4> DEFINE z == q * (n - 1)
      <4>1. q * n = z + q /\ z \in Int
        BY <2>2, <2>3
      <4> HIDE DEF z
      <4>2. d + w[s] + z <= top
        BY <1>3, <1>4, <3>1, <4>1
      <4> QED
        BY <4>2 DEF z
    <3> QED
      BY <1>6, <3>1, <3>2 DEF Room, n
  <2> QED
    BY <2>4, <2>5
<1> QED
  BY <1>5, <1>6

(* A call admitted within the limit leaves room for as many calls as there *)
(* are other slots.                                                        *)
LEMMA RoomAfterAdmit ==
  ASSUME NEW H \in SUBSET Slots, NEW s \in H, NEW w, NEW c \in Nat, NEW lim \in Nat,
         w[s] \in Nat, c + w[s] <= lim
  PROVE  Room(c, w, H, MaxQuantity, lim + (Cardinality(Slots) - 1) * MaxQuantity)
<1> DEFINE n == Cardinality(H)
           k == Cardinality(Slots)
<1>1. n \in Nat /\ k \in Nat /\ n <= k /\ MaxQuantity \in Nat
  BY FS_Subset, FS_CardinalityType, QuotaAssumption
<1> HIDE DEF n, k
<1>2. MaxQuantity * (n - 1) <= (k - 1) * MaxQuantity
  <2>1. MaxQuantity * (k - n) >= 0
    BY <1>1
  <2>2. MaxQuantity * (k - n) = MaxQuantity * k - MaxQuantity * n
    BY <1>1
  <2>3. MaxQuantity * (n - 1) = MaxQuantity * n - MaxQuantity
    BY <1>1
  <2>4. (k - 1) * MaxQuantity = MaxQuantity * k - MaxQuantity
    BY <1>1
  <2>5. MaxQuantity * n \in Int /\ MaxQuantity * k \in Int
    BY <1>1
  <2> QED
    BY <1>1, <2>1, <2>2, <2>3, <2>4, <2>5
<1>3. MaxQuantity * (n - 1) \in Int /\ (k - 1) * MaxQuantity \in Int
  BY <1>1
<1>4. c + w[s] + MaxQuantity * (n - 1) <= lim + (k - 1) * MaxQuantity
  BY <1>2, <1>3
<1> QED
  BY <1>4 DEF Room, n, k

(* Whatever room is left, the charges are within it.                       *)
LEMMA RoomBounds ==
  ASSUME NEW H, IsFiniteSet(H), NEW q \in Nat, NEW w, \A s \in H : w[s] \in 0..q,
         NEW c \in Nat, NEW top \in Int, Room(c, w, H, q, top)
  PROVE  c <= top
<1>1. CASE H = {}
  BY <1>1 DEF Room
<1>2. CASE H # {}
  <2>1. PICK s \in H : c + w[s] + q * (Cardinality(H) - 1) <= top
    BY <1>2 DEF Room
  <2>2. Cardinality(H) \in Nat /\ Cardinality(H) # 0
    BY <1>2, FS_CardinalityType, FS_EmptySet
  <2>3. q * (Cardinality(H) - 1) \in Nat
    BY <2>2
  <2> QED
    BY <2>1, <2>3
<1> QED
  BY <1>1, <1>2

-----------------------------------------------------------------------------
(* The inductive invariant: a bucket belongs to an opening with a limit    *)
(* and stands as soon as the opening is committed; a bucket is charged by  *)
(* calls that hold it; and what it was charged leaves room for them.       *)
Holders(f, b) == {s \in Slots : f[s] = b}

Top(b) == LimitOf[plan[b]] + (Cardinality(Slots) - 1) * MaxQuantity

BucketsOK ==
  \A o \in Openings :
    /\ bucket[o] => phase[o] = "open" /\ plan[o] \in Metered
    /\ ~bucket[o] => charged[o] = 0
    /\ charged[o] <= used[o]

HoldersOK ==
  \A s \in Slots :
    /\ pc[s] \in {"free", "checking", "rejecting"} => against[s] = NoBucket
    /\ against[s] # NoBucket => bucket[against[s]]

RoomOK ==
  \A b \in Openings :
    bucket[b] => Room(charged[b], quantity, Holders(against, b), MaxQuantity, Top(b))

Inv == TypeOK /\ BucketsOK /\ HoldersOK /\ RoomOK

LEMMA HoldersFinite ==
  ASSUME NEW f, NEW b
  PROVE  /\ Holders(f, b) \in SUBSET Slots
         /\ IsFiniteSet(Holders(f, b))
  BY FS_Subset, QuotaAssumption DEF Holders

(* A call that leaves keeps the room of every bucket, whichever of them    *)
(* was charged with it.                                                    *)
LEMMA LeaveKeepsRoom ==
  ASSUME Inv, NEW s \in Slots, NEW l, Leave(s, l), UNCHANGED <<bucket, plan>>,
         charged' \in [Openings -> Nat],
         \A b \in Openings :
           charged'[b] = charged[b] \/ (b = against[s] /\ charged'[b] = charged[b] + quantity[s])
  PROVE  RoomOK'
<1> SUFFICES ASSUME NEW b \in Openings, bucket[b]
             PROVE  Room(charged'[b], quantity', Holders(against', b), MaxQuantity, Top(b))
  <2>1. ASSUME NEW b \in Openings PROVE Top(b)' = Top(b)
    BY DEF Top
  <2> QED
    BY <2>1 DEF RoomOK
<1> DEFINE H == Holders(against, b)
           top == Top(b)
<1>1. /\ quantity \in [Slots -> 1..MaxQuantity]
      /\ charged[b] \in Nat /\ MaxQuantity \in Nat
      /\ against \in [Slots -> Openings \cup {NoBucket}]
      /\ Room(charged[b], quantity, H, MaxQuantity, top)
  BY QuotaAssumption DEF Inv, TypeOK, RoomOK
<1>2. /\ quantity' = [quantity EXCEPT ![s] = 1]
      /\ Holders(against', b) = H \ {s}
  BY <1>1, QuotaAssumption DEF Leave, Holders
<1>3. top \in Int
  <2>1. plan[b] \in Metered
    BY DEF Inv, BucketsOK
  <2>2. LimitOf[plan[b]] \in Nat /\ Cardinality(Slots) \in Nat
    BY <2>1, QuotaAssumption, FS_CardinalityType
  <2> QED
    BY <2>2, <1>1 DEF Top
<1>4. IsFiniteSet(H) /\ H \subseteq Slots
  BY HoldersFinite
<1>5. \A x \in H : quantity[x] \in 0..MaxQuantity
  BY <1>1, <1>4
<1>6. \A x \in H \ {s} : quantity'[x] = quantity[x]
  BY <1>1, <1>2, <1>4
<1>7. CASE s \in H
  <2> HIDE DEF H, top
  <2>1. /\ Room(charged[b], quantity, H \ {s}, MaxQuantity, top)
        /\ Room(charged[b] + quantity[s], quantity, H \ {s}, MaxQuantity, top)
    BY <1>1, <1>3, <1>4, <1>5, <1>7, RoomAfterLeave
  <2>2. Room(charged'[b], quantity, H \ {s}, MaxQuantity, top)
    BY <2>1
  <2>3. Room(charged'[b], quantity', H \ {s}, MaxQuantity, top)
    BY <2>2, <1>6 DEF Room
  <2> QED
    BY <2>3, <1>2 DEF top
<1>8. CASE s \notin H
  <2>1. against[s] # b
    BY <1>8 DEF Holders
  <2>2. charged'[b] = charged[b] /\ H \ {s} = H
    BY <1>8, <2>1
  <2>3. \A x \in H : quantity'[x] = quantity[x]
    BY <1>6, <2>2
  <2> HIDE DEF H, top
  <2>4. Room(charged'[b], quantity', H, MaxQuantity, top)
    BY <1>1, <2>2, <2>3 DEF Room
  <2> QED
    BY <2>4, <2>2, <1>2 DEF top
<1> QED
  BY <1>7, <1>8

LEMMA TopNat ==
  ASSUME Inv, NEW b \in Openings, plan[b] \in Metered
  PROVE  Top(b) \in Nat
<1>1. LimitOf[plan[b]] \in Nat
  BY QuotaAssumption
<1>2. Cardinality(Slots) \in Nat /\ Cardinality(Slots) # 0
  BY QuotaAssumption, FS_CardinalityType, FS_EmptySet
<1>3. (Cardinality(Slots) - 1) * MaxQuantity \in Nat
  BY <1>2, QuotaAssumption
<1> QED
  BY <1>1, <1>3 DEF Top

(* A step that leaves the buckets, the charges and the holders alone.      *)
LEMMA RoomUnchanged ==
  ASSUME Inv, UNCHANGED <<bucket, charged, against>>,
         \A s \in Slots : against[s] # NoBucket => quantity'[s] = quantity[s],
         \A b \in Openings : bucket[b] => plan'[b] = plan[b]
  PROVE  RoomOK'
<1> SUFFICES ASSUME NEW b \in Openings, bucket[b]
             PROVE  Room(charged[b], quantity', Holders(against, b), MaxQuantity, Top(b))
  <2>1. ASSUME NEW b \in Openings, bucket[b] PROVE Top(b)' = Top(b)
    BY <2>1 DEF Top
  <2> QED
    BY <2>1 DEF RoomOK, Holders
<1> DEFINE H == Holders(against, b)
           top == Top(b)
<1>1. Room(charged[b], quantity, H, MaxQuantity, top)
  BY DEF Inv, RoomOK
<1>2. \A s \in H : quantity'[s] = quantity[s]
  BY QuotaAssumption DEF Holders
<1> HIDE DEF H, top
<1>3. Room(charged[b], quantity', H, MaxQuantity, top)
  BY <1>1, <1>2 DEF Room
<1> QED
  BY <1>3 DEF H, top

LEMMA OpeningStep ==
  ASSUME Inv, TypeOK', NEW o \in Openings,
         \/ \E p \in Plans, m \in Months : PrepareOpening(o, p, m)
         \/ \E p \in Plans, t \in Time, m \in Months : CreateSubscription(o, p, t, m)
         \/ CommitOpening(o)
  PROVE  Inv'
<1> USE DEF billing, call, counts
<1>1. ~bucket[o] /\ charged[o] = 0 /\ Holders(against, o) = {}
  <2>1. phase[o] # "open"
    BY DEF PrepareOpening, CreateSubscription, CommitOpening
  <2>2. ~bucket[o] /\ charged[o] = 0
    BY <2>1 DEF Inv, BucketsOK
  <2>3. \A s \in Slots : against[s] # o
    BY <2>2, QuotaAssumption DEF Inv, HoldersOK
  <2> QED
    BY <2>2, <2>3 DEF Holders
<1>2. CASE \/ \E p \in Plans, m \in Months : PrepareOpening(o, p, m)
           \/ \E p \in Plans, t \in Time, m \in Months : CreateSubscription(o, p, t, m)
  <2>1. /\ UNCHANGED <<bucket, used, pc, quantity, against, charged>>
        /\ \A b \in Openings : b # o => plan'[b] = plan[b] /\ phase'[b] = phase[b]
    BY <1>2 DEF PrepareOpening, CreateSubscription, Inv, TypeOK
  <2>2. BucketsOK' /\ HoldersOK'
    BY <1>1, <2>1 DEF Inv, BucketsOK, HoldersOK
  <2>3. RoomOK'
    BY <1>1, <2>1, RoomUnchanged
  <2> QED
    BY <2>2, <2>3 DEF Inv
<1>3. CASE CommitOpening(o)
  <2>1. /\ UNCHANGED <<plan, used, pc, quantity, against, charged>>
        /\ phase' = [phase EXCEPT ![o] = "open"]
        /\ \A b \in Openings : b # o => bucket'[b] = bucket[b]
        /\ bucket'[o] => plan[o] \in Metered
    BY <1>3 DEF CommitOpening, Inv, TypeOK
  <2>2. BucketsOK'
    BY <1>1, <2>1 DEF Inv, BucketsOK, TypeOK
  <2>3. HoldersOK'
    BY <1>1, <2>1 DEF Inv, HoldersOK, TypeOK
  <2>4. RoomOK'
    <3> SUFFICES ASSUME NEW b \in Openings, bucket'[b]
                 PROVE  Room(charged[b], quantity, Holders(against, b), MaxQuantity, Top(b))
      BY <2>1 DEF RoomOK, Holders, Top
    <3>1. CASE b = o
      <4>1. 0 <= Top(o)
        BY <2>1, <3>1, TopNat
      <4> QED
        BY <1>1, <3>1, <4>1 DEF Room
    <3>2. CASE b # o
      BY <2>1, <3>2 DEF Inv, RoomOK
    <3> QED
      BY <3>1, <3>2
  <2> QED
    BY <2>2, <2>3, <2>4 DEF Inv
<1> QED
  BY <1>2, <1>3

(* A request that only leaves charges nothing and holds nothing more.      *)
LEMMA LeaveStep ==
  ASSUME Inv, TypeOK', NEW s \in Slots, NEW l \in {"free", "rejecting"}, Leave(s, l),
         UNCHANGED <<billing, used, charged>>
  PROVE  Inv'
<1> USE DEF billing
<1>1. BucketsOK'
  BY DEF Inv, BucketsOK
<1>2. HoldersOK'
  BY DEF Inv, HoldersOK, TypeOK, Leave
<1>3. RoomOK'
  BY LeaveKeepsRoom DEF Inv, TypeOK
<1> QED
  BY <1>1, <1>2, <1>3 DEF Inv

(* The check admits a call only within what the bucket has left.           *)
LEMMA CheckStep ==
  ASSUME Inv, TypeOK', NEW s \in Slots, Check(s)
  PROVE  Inv'
<1> USE DEF billing, call, counts
<1>1. CASE Leave(s, "rejecting")
  BY <1>1, LeaveStep DEF Check
<1>2. ASSUME NEW b \in Openings, Newest(b, asked[s]), Allowed(quantity[s], b),
             Goto(s, "calling"), against' = [against EXCEPT ![s] = b],
             UNCHANGED quantity
      PROVE  Inv'
  <2>1. /\ UNCHANGED <<bucket, phase, plan, used, charged>>
        /\ pc[s] = "checking"
    BY DEF Check
  <2>2. bucket[b] /\ plan[b] \in Metered /\ charged[b] <= used[b]
    BY <1>2 DEF Newest, Buckets, Inv, BucketsOK
  <2>3. LimitOf[plan[b]] \in Nat
    BY <2>2, QuotaAssumption
  <2>4. charged[b] + quantity[s] <= LimitOf[plan[b]]
    <3>1. quantity[s] \in 1..MaxQuantity /\ used[b] \in Nat /\ charged[b] \in Nat
      BY DEF Inv, TypeOK
    <3> QED
      BY <1>2, <2>2, <2>3, <3>1 DEF Allowed
  <2>5. BucketsOK' /\ HoldersOK'
    BY <1>2, <2>1, <2>2 DEF Inv, BucketsOK, HoldersOK, TypeOK
  <2>6. RoomOK'
    <3> SUFFICES ASSUME NEW x \in Openings, bucket[x]
                 PROVE  Room(charged[x], quantity, Holders(against', x), MaxQuantity, Top(x))
      BY <1>2, <2>1 DEF RoomOK, Holders, Top
    <3>1. CASE x = b
      <4> DEFINE H == Holders(against', b)
      <4>1. s \in H /\ H \in SUBSET Slots
        BY <1>2 DEF Holders, Inv, TypeOK
      <4>2. quantity[s] \in Nat /\ charged[b] \in Nat
        BY DEF Inv, TypeOK
      <4> HIDE DEF H
      <4>3. Room(charged[b], quantity, H, MaxQuantity,
                 LimitOf[plan[b]] + (Cardinality(Slots) - 1) * MaxQuantity)
        BY <2>3, <2>4, <4>1, <4>2, RoomAfterAdmit
      <4> QED
        BY <3>1, <4>3 DEF Top, H
    <3>2. CASE x # b
      <4>1. against[s] = NoBucket
        BY <2>1 DEF Inv, HoldersOK
      <4>2. Holders(against', x) = Holders(against, x)
        BY <1>2, <3>2, <4>1, QuotaAssumption DEF Holders, Inv, TypeOK
      <4> QED
        BY <4>2 DEF Inv, RoomOK
    <3> QED
      BY <3>1, <3>2
  <2> QED
    BY <2>5, <2>6 DEF Inv
<1> QED
  BY <1>1, <1>2 DEF Check

LEMMA RecordStep ==
  ASSUME Inv, TypeOK', NEW s \in Slots, Record(s)
  PROVE  Inv'
<1> USE DEF billing, call, counts
<1>1. /\ quantity[s] \in Nat
      /\ \A b \in Openings : used[b] \in Nat /\ charged[b] \in Nat
      /\ Leave(s, "free") /\ UNCHANGED <<bucket, phase, plan>>
  BY QuotaAssumption DEF Inv, TypeOK, Record
<1>2. \A b \in Openings :
        \/ charged'[b] = charged[b] /\ used'[b] \in {used[b], used[b] + quantity[s]}
        \/ /\ b = against[s] /\ bucket[b]
           /\ charged'[b] = charged[b] + quantity[s] /\ used'[b] = used[b] + quantity[s]
  BY DEF Record, Charge, Buckets
<1>3. BucketsOK'
  BY <1>1, <1>2 DEF Inv, BucketsOK
<1>4. HoldersOK'
  BY <1>1 DEF Inv, HoldersOK, TypeOK, Leave
<1>5. RoomOK'
  BY <1>1, <1>2, LeaveKeepsRoom DEF TypeOK
<1> QED
  BY <1>3, <1>4, <1>5 DEF Inv

LEMMA AskStep ==
  ASSUME Inv, TypeOK', NEW s \in Slots, NEW q \in Quantities, Ask(s, q)
  PROVE  Inv'
<1> USE DEF billing, call, counts
<1>1. CASE Leave(s, "rejecting")
  BY <1>1, LeaveStep DEF Ask
<1>2. ASSUME NEW o \in Openings, EndsLast(o, now),
             Goto(s, IF plan[o] \in Metered THEN "checking" ELSE "calling"),
             quantity' = [quantity EXCEPT ![s] = q], UNCHANGED against
      PROVE  Inv'
  <2>1. UNCHANGED <<bucket, phase, plan, used, charged>> /\ against[s] = NoBucket
    BY DEF Ask, Inv, HoldersOK
  <2>2. BucketsOK' /\ HoldersOK'
    BY <1>2, <2>1 DEF Inv, BucketsOK, HoldersOK, TypeOK
  <2>3. \A x \in Slots : against[x] # NoBucket => quantity'[x] = quantity[x]
    BY <1>2, <2>1 DEF Inv, TypeOK
  <2>4. RoomOK'
    BY <1>2, <2>1, <2>3, RoomUnchanged
  <2> QED
    BY <2>2, <2>4 DEF Inv
<1> QED
  BY <1>1, <1>2 DEF Ask

LEMMA InvHolds == Spec => []Inv
<1>1. Init => Inv
  <2> SUFFICES ASSUME Init PROVE Inv
    OBVIOUS
  <2>1. TypeOK
    BY QuotaAssumption DEF Init, TypeOK
  <2> QED
    BY <2>1 DEF Init, Inv, BucketsOK, HoldersOK, RoomOK
<1>2. Inv /\ TypeOK' /\ [Next]_vars => Inv'
  <2> SUFFICES ASSUME Inv, TypeOK', [Next]_vars PROVE Inv'
    OBVIOUS
  <2> USE DEF billing, call, counts
  <2>1. ASSUME NEW o \in Openings,
               \/ \E p \in Plans, m \in Months : PrepareOpening(o, p, m)
               \/ \E p \in Plans, t \in Time, m \in Months : CreateSubscription(o, p, t, m)
               \/ CommitOpening(o)
        PROVE  Inv'
    BY <2>1, OpeningStep
  <2>2. ASSUME NEW s \in Slots, NEW q \in Quantities, Ask(s, q) PROVE Inv'
    BY <2>2, AskStep
  <2>3. ASSUME NEW s \in Slots, Check(s) PROVE Inv'
    BY <2>3, CheckStep
  <2>4. ASSUME NEW s \in Slots, Reject(s) \/ CallFails(s) \/ Die(s) PROVE Inv'
    <3>1. Leave(s, "free") /\ UNCHANGED <<billing, used, charged>>
      BY <2>4 DEF Reject, CallFails, Die
    <3> QED
      BY <3>1, LeaveStep
  <2>5. ASSUME NEW s \in Slots, CallSucceeds(s) PROVE Inv'
    <3>1. /\ UNCHANGED <<bucket, phase, plan, used, charged, quantity, against>>
          /\ pc' = [pc EXCEPT ![s] = "recording"]
      BY <2>5 DEF CallSucceeds
    <3>2. BucketsOK' /\ HoldersOK'
      BY <3>1 DEF Inv, BucketsOK, HoldersOK, TypeOK
    <3>3. RoomOK'
      BY <3>1, RoomUnchanged
    <3> QED
      BY <3>2, <3>3 DEF Inv
  <2>6. ASSUME NEW s \in Slots, Record(s) PROVE Inv'
    BY <2>6, RecordStep
  <2>7. ASSUME NEW q \in Quantities, RecordManually(q) PROVE Inv'
    <3>1. /\ UNCHANGED <<bucket, phase, plan, charged, quantity, against, pc>>
          /\ \A b \in Openings : used'[b] \in {used[b], used[b] + q}
      BY <2>7 DEF RecordManually, Charge
    <3>2. BucketsOK'
      BY <3>1 DEF Inv, BucketsOK, TypeOK
    <3>3. HoldersOK' /\ RoomOK'
      BY <3>1, RoomUnchanged DEF Inv, HoldersOK
    <3> QED
      BY <3>2, <3>3 DEF Inv
  <2>8. CASE Tick \/ UNCHANGED vars
    <3>1. UNCHANGED <<bucket, phase, plan, used, charged, quantity, against, pc>>
      BY <2>8 DEF Tick, vars
    <3>2. BucketsOK' /\ HoldersOK' /\ RoomOK'
      BY <3>1, RoomUnchanged DEF Inv, BucketsOK, HoldersOK
    <3> QED
      BY <3>2 DEF Inv
  <2> QED
    BY <2>1, <2>2, <2>3, <2>4, <2>5, <2>6, <2>7, <2>8 DEF Next, Billing, Serve
<1> QED
  BY <1>1, <1>2, TypeCorrect, PTL DEF Spec

(* However many calls run at once, what a bucket is charged by the calls   *)
(* it admitted exceeds its limit by at most the largest quantity for every *)
(* slot but one.                                                           *)
THEOREM BoundedOverrun == Spec => []OverrunBounded
<1>1. Inv => OverrunBounded
  <2> SUFFICES ASSUME Inv, NEW b \in Openings, bucket[b]
               PROVE  charged[b] <= Top(b)
    BY DEF OverrunBounded, Top
  <2> DEFINE H == Holders(against, b)
             top == Top(b)
  <2>1. Room(charged[b], quantity, H, MaxQuantity, top)
    BY DEF Inv, RoomOK
  <2>2. IsFiniteSet(H) /\ \A s \in H : quantity[s] \in 0..MaxQuantity
    BY HoldersFinite, QuotaAssumption DEF Inv, TypeOK
  <2>3. top \in Int
    BY TopNat DEF Inv, BucketsOK
  <2>4. charged[b] \in Nat /\ MaxQuantity \in Nat
    BY QuotaAssumption DEF Inv, TypeOK
  <2> HIDE DEF H, top
  <2>5. charged[b] <= top
    BY <2>1, <2>2, <2>3, <2>4, RoomBounds
  <2> QED
    BY <2>5 DEF top
<1> QED
  BY <1>1, InvHolds, PTL

-----------------------------------------------------------------------------
(* Ledger rows: one for each call that was answered, at most.              *)
Recording(f) == {s \in Slots : f[s] = "recording"}

(* A call that fails is never metered, and none is metered twice.          *)
THEOREM MeteredAtMostOnce == Spec => []MeteredOnce
<1>1. ASSUME NEW f
      PROVE  IsFiniteSet(Recording(f)) /\ Cardinality(Recording(f)) \in Nat
  BY FS_Subset, FS_CardinalityType, QuotaAssumption DEF Recording
<1>2. Init => MeteredOnce
  <2> SUFFICES ASSUME Init PROVE MeteredOnce
    OBVIOUS
  <2>1. {s \in Slots : pc[s] = "recording"} = {}
    BY DEF Init
  <2> QED
    BY <2>1, FS_EmptySet DEF Init, MeteredOnce
<1>3. TypeOK /\ MeteredOnce /\ [Next]_vars => MeteredOnce'
  <2> SUFFICES ASSUME TypeOK, ledger + Cardinality(Recording(pc)) <= logged, [Next]_vars
               PROVE  ledger' + Cardinality(Recording(pc')) <= logged'
    BY DEF MeteredOnce, Recording
  <2> USE DEF billing, call, counts
  <2>1. ledger \in Nat /\ logged \in Nat
    BY DEF TypeOK
  <2>2. ASSUME UNCHANGED <<ledger, logged, pc>>
        PROVE  ledger' + Cardinality(Recording(pc')) <= logged'
    BY <2>2
  <2>3. ASSUME NEW s \in Slots, NEW l \in {"free", "checking", "calling", "rejecting"},
               Goto(s, l), UNCHANGED <<ledger, logged>>
        PROVE  ledger' + Cardinality(Recording(pc')) <= logged'
    <3>1. Recording(pc') = Recording(pc) \ {s}
      BY <2>3 DEF Recording, TypeOK
    <3>2. IsFiniteSet(Recording(pc)) /\ Cardinality(Recording(pc)) \in Nat
      BY <1>1
    <3>3. Cardinality(Recording(pc')) <= Cardinality(Recording(pc))
      BY <3>1, <3>2, FS_RemoveElement
    <3>4. Cardinality(Recording(pc')) \in Nat
      BY <1>1
    <3> QED
      BY <2>1, <2>3, <3>2, <3>3, <3>4
  <2>4. ASSUME NEW s \in Slots, CallSucceeds(s)
        PROVE  ledger' + Cardinality(Recording(pc')) <= logged'
    <3>1. Recording(pc') = Recording(pc) \cup {s}
      BY <2>4 DEF Recording, TypeOK, CallSucceeds
    <3>2. logged' = logged + 1 /\ ledger' = ledger
      BY <2>4 DEF CallSucceeds
    <3> QED
      BY <1>1, <2>1, <3>1, <3>2, FS_AddElement
  <2>5. ASSUME NEW s \in Slots, Record(s)
        PROVE  ledger' + Cardinality(Recording(pc')) <= logged'
    <3>1. Recording(pc') = Recording(pc) \ {s} /\ s \in Recording(pc)
      BY <2>5 DEF Recording, TypeOK, Record, Leave
    <3>2. logged' = logged /\ ledger' = ledger + 1
      BY <2>5 DEF Record
    <3>3. IsFiniteSet(Recording(pc)) /\ Cardinality(Recording(pc)) \in Nat
      BY <1>1
    <3>4. Cardinality(Recording(pc')) = Cardinality(Recording(pc)) - 1
      BY <3>1, <3>3, FS_RemoveElement
    <3> QED
      BY <2>1, <3>2, <3>3, <3>4
  <2>6. ASSUME NEW s \in Slots,
               \/ \E q \in Quantities : Ask(s, q)
               \/ Check(s) \/ Reject(s) \/ CallFails(s) \/ Die(s)
        PROVE  ledger' + Cardinality(Recording(pc')) <= logged'
    <3>1. \E l \in {"free", "checking", "calling", "rejecting"} : Goto(s, l)
      BY <2>6 DEF Ask, Check, Reject, CallFails, Die, Leave
    <3>2. UNCHANGED <<ledger, logged>>
      BY <2>6 DEF Ask, Check, Reject, CallFails, Die
    <3> QED
      BY <3>1, <3>2, <2>3
  <2>7. CASE Billing \/ Tick \/ (\E q \in Quantities : RecordManually(q)) \/ UNCHANGED vars
    <3>1. UNCHANGED <<ledger, logged, pc>>
      BY <2>7 DEF Billing, PrepareOpening, CreateSubscription, CommitOpening, Tick,
                  RecordManually, vars
    <3> QED
      BY <3>1, <2>2
  <2> QED
    BY <2>4, <2>5, <2>6, <2>7 DEF Next, Serve
<1> QED
  BY <1>2, <1>3, TypeCorrect, PTL DEF Spec

-----------------------------------------------------------------------------
(* Periods: a call that is being served stands on a subscription and, if   *)
(* its plan has a limit, on a bucket, that held when it asked; and time    *)
(* has only gone forward since.                                            *)
PeriodOK(s) ==
  /\ asked[s] <= now
  /\ pc[s] \in {"checking", "calling", "recording"} =>
       /\ found[s] \in Openings /\ phase[found[s]] \in {"open", "bare"}
       /\ startAt[found[s]] <= asked[s] /\ asked[s] <= endAt[found[s]]
  /\ pc[s] \in {"calling", "recording"} /\ plan[found[s]] \in Metered =>
       against[s] # NoBucket
  /\ against[s] # NoBucket =>
       /\ against[s] \in Openings
       /\ startAt[against[s]] <= asked[s] /\ asked[s] <= endAt[against[s]]
  /\ pc[s] = "recording" => asked[s] <= recorded[s]

LEMMA PeriodsHold == Spec => [](\A s \in Slots : PeriodOK(s))
<1>1. Init => \A s \in Slots : PeriodOK(s)
  BY DEF Init, PeriodOK
<1>2. /\ Inv /\ TypeOK' /\ (\A s \in Slots : PeriodOK(s)) /\ [Next]_vars
      => (\A s \in Slots : PeriodOK(s))'
  <2> SUFFICES ASSUME Inv, TypeOK', \A s \in Slots : PeriodOK(s), [Next]_vars,
                      NEW x \in Slots
               PROVE  PeriodOK(x)'
    OBVIOUS
  <2> USE DEF billing, call, counts
  <2>0. PeriodOK(x) /\ TypeOK
    BY DEF Inv
  <2>1. ASSUME NEW o \in Openings,
               \/ \E p \in Plans, m \in Months : PrepareOpening(o, p, m)
               \/ \E p \in Plans, t \in Time, m \in Months : CreateSubscription(o, p, t, m)
               \/ CommitOpening(o)
        PROVE  PeriodOK(x)'
    <3>1. /\ UNCHANGED <<now, pc, asked, found, against, recorded>>
          /\ \A b \in Openings :
               phase[b] \in {"open", "bare"} =>
                 /\ phase'[b] = phase[b] /\ plan'[b] = plan[b]
                 /\ startAt'[b] = startAt[b] /\ endAt'[b] = endAt[b]
      BY <2>0, <2>1 DEF PrepareOpening, CreateSubscription, CommitOpening, TypeOK
    <3>2. against[x] # NoBucket => phase[against[x]] = "open"
      BY <2>0 DEF Inv, HoldersOK, BucketsOK, PeriodOK
    <3>3. pc[x] \in {"free", "checking", "rejecting"} \/ pc[x] \in {"calling", "recording"}
      BY <2>0 DEF TypeOK
    <3> QED
      BY <2>0, <3>1, <3>2, <3>3 DEF PeriodOK
  <2>2. ASSUME NEW s \in Slots, NEW q \in Quantities, Ask(s, q) PROVE PeriodOK(x)'
    <3>1. UNCHANGED <<now, phase, plan, startAt, endAt>> /\ against[s] = NoBucket
      BY <2>2 DEF Ask, Inv, HoldersOK
    <3>2. now \in Nat
      BY <2>0 DEF TypeOK
    <3>3. CASE x # s
      BY <2>0, <2>2, <3>1, <3>3 DEF PeriodOK, Ask, Leave, TypeOK
    <3>4. CASE x = s /\ Leave(s, "rejecting")
      BY <2>0, <3>1, <3>2, <3>4 DEF PeriodOK, Leave, TypeOK
    <3>5. ASSUME NEW o \in Openings, EndsLast(o, now), x = s,
                 Goto(s, IF plan[o] \in Metered THEN "checking" ELSE "calling"),
                 asked' = [asked EXCEPT ![s] = now],
                 found' = [found EXCEPT ![s] = o],
                 UNCHANGED <<against, recorded>>
          PROVE  PeriodOK(x)'
      <4>1. phase[o] \in {"open", "bare"} /\ startAt[o] <= now /\ now <= endAt[o]
        BY <3>5 DEF EndsLast, Subscribed, Covers
      <4> QED
        BY <2>0, <3>1, <3>2, <3>5, <4>1 DEF PeriodOK, TypeOK
    <3> QED
      BY <2>2, <3>3, <3>4, <3>5 DEF Ask
  <2>3. ASSUME NEW s \in Slots, Check(s) PROVE PeriodOK(x)'
    <3>1. UNCHANGED <<now, phase, plan, startAt, endAt>>
      BY <2>3 DEF Check
    <3>2. CASE x # s
      BY <2>0, <2>3, <3>1, <3>2 DEF PeriodOK, Check, Leave, TypeOK
    <3>3. CASE x = s /\ Leave(s, "rejecting")
      BY <2>0, <3>1, <3>3 DEF PeriodOK, Leave, TypeOK
    <3>4. ASSUME NEW b \in Openings, Newest(b, asked[s]), x = s,
                 Goto(s, "calling"), against' = [against EXCEPT ![s] = b],
                 UNCHANGED <<quantity, asked, found, recorded>>
          PROVE  PeriodOK(x)'
      <4>1. startAt[b] <= asked[s] /\ asked[s] <= endAt[b]
        BY <3>4 DEF Newest, Buckets, Covers
      <4>2. pc[s] = "checking" /\ b # NoBucket
        BY <2>3, QuotaAssumption DEF Check
      <4> QED
        BY <2>0, <3>1, <3>4, <4>1, <4>2 DEF PeriodOK, TypeOK
    <3> QED
      BY <2>3, <3>2, <3>3, <3>4 DEF Check
  <2>4. ASSUME NEW s \in Slots, Leave(s, "free"), UNCHANGED <<now, phase, plan, startAt, endAt>>
        PROVE  PeriodOK(x)'
    BY <2>0, <2>4 DEF PeriodOK, Leave, TypeOK
  <2>5. ASSUME NEW s \in Slots, CallSucceeds(s) PROVE PeriodOK(x)'
    <3>1. /\ UNCHANGED <<now, phase, plan, startAt, endAt, asked, found, against>>
          /\ pc[s] = "calling"
          /\ pc' = [pc EXCEPT ![s] = "recording"]
          /\ recorded' = [recorded EXCEPT ![s] = now]
      BY <2>5 DEF CallSucceeds
    <3> QED
      BY <2>0, <3>1 DEF PeriodOK, TypeOK
  <2>6. ASSUME NEW q \in Quantities, RecordManually(q) PROVE PeriodOK(x)'
    BY <2>0, <2>6 DEF PeriodOK, RecordManually
  <2>7. CASE Tick
    BY <2>0, <2>7 DEF PeriodOK, Tick, TypeOK
  <2>8. CASE UNCHANGED vars
    BY <2>0, <2>8 DEF PeriodOK, vars
  <2> QED
    BY <2>1, <2>2, <2>3, <2>4, <2>5, <2>6, <2>7, <2>8
    DEF Next, Billing, Serve, Reject, CallFails, Die, Record
<1> QED
  BY <1>1, <1>2, InvHolds, TypeCorrect, PTL DEF Spec

(* A call is admitted by a subscription and a bucket that held when it     *)
(* asked.                                                                  *)
THEOREM AdmittedByLivePeriods == Spec => []AdmittedInPeriod
<1>1. Inv /\ (\A s \in Slots : PeriodOK(s)) => AdmittedInPeriod
  BY DEF AdmittedInPeriod, Admitted, PeriodOK, Inv, HoldersOK
<1> QED
  BY <1>1, InvHolds, PeriodsHold, PTL

(* What a bucket admitted it is charged, unless its period ended meanwhile. *)
THEOREM NotLostInPeriod == Spec => ChargedInPeriod
<1>1. /\ Inv /\ (\A s \in Slots : PeriodOK(s)) /\ [Next]_vars
      => [\A s \in Slots, b \in Openings :
            Record(s) /\ against[s] = b /\ recorded[s] <= endAt[b]
              => used'[b] = used[b] + quantity[s]]_vars
  <2> SUFFICES ASSUME Inv, \A s \in Slots : PeriodOK(s),
                      NEW s \in Slots, NEW b \in Openings,
                      Record(s), against[s] = b, recorded[s] <= endAt[b]
               PROVE  used'[b] = used[b] + quantity[s]
    OBVIOUS
  <2>1. b # NoBucket /\ bucket[b]
    BY QuotaAssumption DEF Inv, HoldersOK
  <2>2. startAt[b] <= asked[s] /\ asked[s] <= recorded[s]
    BY <2>1 DEF PeriodOK, Record
  <2>3. startAt[b] \in Nat /\ asked[s] \in Nat /\ recorded[s] \in Nat
    BY DEF Inv, TypeOK
  <2>4. b \in Buckets(recorded[s])
    BY <2>1, <2>2, <2>3 DEF Buckets, Covers
  <2> QED
    BY <2>4 DEF Record, Charge
<1> QED
  BY <1>1, InvHolds, PeriodsHold, PTL DEF Spec, ChargedInPeriod

(* No two buckets share a period, and every opening with a limit has one   *)
(* of its period, its own or an earlier one.                               *)
THEOREM BucketsAreUnique == Spec => []OneBucketPerPeriod
<1>1. Init => OneBucketPerPeriod
  BY DEF Init, OneBucketPerPeriod
<1>2. Inv /\ OneBucketPerPeriod /\ [Next]_vars => OneBucketPerPeriod'
  <2> SUFFICES ASSUME Inv, OneBucketPerPeriod, [Next]_vars PROVE OneBucketPerPeriod'
    OBVIOUS
  <2> USE DEF billing, call, counts
  <2>0. /\ TypeOK
        /\ \A b \in Openings : bucket[b] => phase[b] = "open"
    BY DEF Inv, BucketsOK
  <2>1. ASSUME NEW o \in Openings,
               \/ \E p \in Plans, m \in Months : PrepareOpening(o, p, m)
               \/ \E p \in Plans, t \in Time, m \in Months : CreateSubscription(o, p, t, m)
        PROVE  OneBucketPerPeriod'
    <3>1. /\ UNCHANGED bucket /\ ~bucket[o] /\ phase'[o] # "open"
          /\ \A b \in Openings : b # o =>
               /\ phase'[b] = phase[b] /\ plan'[b] = plan[b]
               /\ startAt'[b] = startAt[b] /\ endAt'[b] = endAt[b]
      BY <2>0, <2>1 DEF PrepareOpening, CreateSubscription, TypeOK
    <3> QED
      BY <3>1 DEF OneBucketPerPeriod
  <2>2. ASSUME NEW o \in Openings, CommitOpening(o) PROVE OneBucketPerPeriod'
    <3>1. /\ UNCHANGED <<plan, startAt, endAt>>
          /\ ~bucket[o]
          /\ phase' = [phase EXCEPT ![o] = "open"]
          /\ bucket' = [bucket EXCEPT ![o] = plan[o] \in Metered /\ ~PeriodTaken(o)]
      BY <2>0, <2>2 DEF CommitOpening
    <3>2. CASE bucket'[o]
      <4>1. ~PeriodTaken(o)
        BY <2>0, <3>1, <3>2 DEF TypeOK
      <4> QED
        BY <2>0, <3>1, <3>2, <4>1 DEF OneBucketPerPeriod, PeriodTaken, TypeOK
    <3>3. CASE ~bucket'[o]
      <4>1. UNCHANGED bucket
        BY <2>0, <3>1, <3>3 DEF TypeOK
      <4>2. plan[o] \in Metered => PeriodTaken(o)
        BY <2>0, <3>1, <3>3 DEF TypeOK
      <4> QED
        BY <2>0, <3>1, <4>1, <4>2 DEF OneBucketPerPeriod, PeriodTaken, TypeOK
    <3> QED
      BY <3>2, <3>3
  <2>3. ASSUME UNCHANGED <<phase, plan, startAt, endAt, bucket>> PROVE OneBucketPerPeriod'
    BY <2>3 DEF OneBucketPerPeriod
  <2>4. ASSUME NEW s \in Slots, Serve(s) PROVE OneBucketPerPeriod'
    BY <2>3, <2>4
    DEF Serve, Ask, Check, Reject, CallFails, CallSucceeds, Record, Die
  <2>5. CASE Tick \/ (\E q \in Quantities : RecordManually(q)) \/ UNCHANGED vars
    BY <2>3, <2>5 DEF Tick, RecordManually, vars
  <2> QED
    BY <2>1, <2>2, <2>4, <2>5 DEF Next, Billing
<1> QED
  BY <1>1, <1>2, InvHolds, PTL DEF Spec

(* What is charged and what is metered stays within bounds.                *)
THEOREM UsageStaysBounded == Spec => []UsageIsBounded
  BY BoundedOverrun, MeteredAtMostOnce, PTL DEF UsageIsBounded

(* The check in front of the provider call is exact when nothing comes     *)
(* between it and the record: calls served one at a time never charge a    *)
(* bucket beyond its limit, though calls die and periods overlap.          *)
THEOREM SerialNeverOverruns ==
  ASSUME Cardinality(Slots) = 1
  PROVE  Spec => [](\A b \in Openings : bucket[b] => charged[b] <= LimitOf[plan[b]])
<1>1. TypeOK /\ BucketsOK /\ OverrunBounded
        => \A b \in Openings : bucket[b] => charged[b] <= LimitOf[plan[b]]
  <2> SUFFICES ASSUME TypeOK, BucketsOK, OverrunBounded, NEW b \in Openings, bucket[b]
               PROVE  charged[b] <= LimitOf[plan[b]]
    OBVIOUS
  <2>1. LimitOf[plan[b]] \in Nat /\ charged[b] \in Nat /\ MaxQuantity \in Nat
    BY QuotaAssumption DEF BucketsOK, TypeOK
  <2>2. charged[b] <= LimitOf[plan[b]] + (1 - 1) * MaxQuantity
    BY DEF OverrunBounded
  <2> QED
    BY <2>1, <2>2
<1>2. Inv => TypeOK /\ BucketsOK
  BY DEF Inv
<1> QED
  BY <1>1, <1>2, InvHolds, BoundedOverrun, PTL

(* Each period has one bucket, and calls are admitted in periods that hold. *)
THEOREM PeriodsCount == Spec => []PeriodsMean
  BY BucketsAreUnique, AdmittedByLivePeriods, PTL DEF PeriodsMean

=============================================================================
