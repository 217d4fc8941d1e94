---------------------------- MODULE QuotaMetering ----------------------------
(***************************************************************************)
(* Metered entitlements of one tenant and one feature: subscriptions and   *)
(* quota buckets are opened by the billing service, open-API calls are     *)
(* admitted against a bucket (UsageService.checkEntitlement), answered by  *)
(* the AI provider and only then recorded (UsageService.record), all by    *)
(* AiCenterService.openAiCall.  Many calls run at once; between the check  *)
(* and the record lies the whole provider call.                            *)
(*                                                                         *)
(* A slot is a request being served; it takes another request when it is   *)
(* free again.  Time is a clock shared by the servers and the database.    *)
(* The catalogue of plans does not change; the feature is a metered one,   *)
(* and a plan grants it with a limit, without one, or not at all.          *)
(***************************************************************************)
EXTENDS Integers, FiniteSets

CONSTANTS
  Slots,        \* calls that may be in flight at once
  Openings,     \* requests that open or create a subscription
  Plans,        \* plans
  Metered,      \* plans that grant the feature with a limit ...
  Unmetered,    \* ... and without one (quotaLimit null)
  LimitOf,      \* the quotaLimit of a metered plan
  MaxQuantity,  \* bound: quantity of a call
  Months,       \* terms a subscription may be opened for
  NoBucket,     \* the entitlement needs no bucket
  MaxTime,      \* bound: the clock
  MaxLogs,      \* bound: calls the provider answers
  MaxManual     \* bound: manual records

ASSUME QuotaAssumption ==
  /\ IsFiniteSet(Slots) /\ Slots # {}
  /\ NoBucket \notin Openings
  /\ Plans # {}
  /\ Metered \subseteq Plans /\ Unmetered \subseteq Plans
  /\ Metered \cap Unmetered = {}
  /\ LimitOf \in [Metered -> Nat]
  /\ MaxQuantity \in Nat \ {0}
  /\ Months \subseteq Nat
  /\ MaxTime \in Nat /\ MaxLogs \in Nat /\ MaxManual \in Nat

VARIABLES
  now,        \* the clock
  phase,      \* an opening: none, preparing, open, or bare (no quota rows)
  plan,       \* its plan
  startAt,    \* the period of its subscription, and of its bucket
  endAt,
  bucket,     \* whether it inserted a quota bucket
  made,       \* the createdAt of its bucket
  used,       \* quota_buckets.used
  pc,         \* where the call in a slot stands
  quantity,   \* how much it asks for
  asked,      \* the time checkEntitlement read at its start
  found,      \* the opening of the subscription it selected
  against,    \* the bucket that admitted it, or NoBucket
  recorded,   \* the time record read at its start
  logged,     \* how many calls were logged as succeeded
  ledger,     \* how many of them have a usage_ledger row
  manual,     \* usage recorded by an administrator
  charged     \* what a bucket was charged by the calls it admitted

billing == <<phase, plan, startAt, endAt, bucket, made>>
call    == <<pc, quantity, asked, found, against, recorded>>
counts  == <<logged, ledger, manual, charged>>
vars    == <<now, billing, used, call, counts>>

Time == 0..MaxTime

Goto(s, l) == pc' = [pc EXCEPT ![s] = l]

(* The rest of the request uses none of its local variables.               *)
Leave(s, l) ==
  /\ Goto(s, l)
  /\ quantity' = [quantity EXCEPT ![s] = 1]
  /\ asked' = [asked EXCEPT ![s] = 0]
  /\ found' = [found EXCEPT ![s] = NoBucket]
  /\ against' = [against EXCEPT ![s] = NoBucket]
  /\ recorded' = [recorded EXCEPT ![s] = 0]

-----------------------------------------------------------------------------
(* openSubscriptionForPlan reads the clock, then the plan's features.      *)
PrepareOpening(o, p, m) ==
  /\ phase[o] = "none"
  /\ phase' = [phase EXCEPT ![o] = "preparing"]
  /\ plan' = [plan EXCEPT ![o] = p]
  /\ startAt' = [startAt EXCEPT ![o] = now]
  /\ endAt' = [endAt EXCEPT ![o] = now + m]
  /\ UNCHANGED <<now, bucket, made, used, call, counts>>

(* The unique key of quota_buckets: tenant, feature, metric and period.    *)
SlipPeriodTaken(o) == FALSE

PeriodTaken(o) ==
  \E b \in Openings : bucket[b] /\ startAt[b] = startAt[o] /\ endAt[b] = endAt[o]

(* The database transaction inserts the subscription and, for a plan with  *)
(* a limit, the bucket; a bucket of the same period is skipped.  Its       *)
(* createdAt is a moment of the transaction.                               *)
CommitOpening(o) ==
  /\ phase[o] = "preparing"
  /\ phase' = [phase EXCEPT ![o] = "open"]
  /\ bucket' = [bucket EXCEPT ![o] = plan[o] \in Metered /\ ~PeriodTaken(o)]
  /\ \E t \in startAt[o]..now : made' = [made EXCEPT ![o] = t]
  /\ UNCHANGED <<now, plan, startAt, endAt, used, call, counts>>

(* createSubscription inserts a subscription of any period and no bucket.  *)
CreateSubscription(o, p, t, m) ==
  /\ phase[o] = "none"
  /\ phase' = [phase EXCEPT ![o] = "bare"]
  /\ plan' = [plan EXCEPT ![o] = p]
  /\ startAt' = [startAt EXCEPT ![o] = t]
  /\ endAt' = [endAt EXCEPT ![o] = t + m]
  /\ UNCHANGED <<now, bucket, made, used, call, counts>>

-----------------------------------------------------------------------------
SlipStrictCovers(o, t) == startAt[o] <= t /\ t < endAt[o]

(* Both ends of a period belong to it.                                     *)
Covers(o, t) == startAt[o] <= t /\ t <= endAt[o]

Subscribed(t) == {o \in Openings : phase[o] \in {"open", "bare"} /\ Covers(o, t)}
Buckets(t)    == {o \in Openings : bucket[o] /\ Covers(o, t)}

EndsLast(o, t) == o \in Subscribed(t) /\ \A x \in Subscribed(t) : endAt[x] <= endAt[o]

(* The entitlement check reads the clock and the subscription that ends    *)
(* last.  Without one, or when its plan does not grant the feature, the    *)
(* call is rejected; without a limit it is admitted.                       *)
Ask(s, q) ==
  /\ pc[s] = "free"
  /\ \/ /\ Subscribed(now) = {}
        /\ Leave(s, "rejecting")
     \/ \E o \in Openings :
          /\ EndsLast(o, now)
          /\ IF plan[o] \in Metered \cup Unmetered
             THEN /\ Goto(s, IF plan[o] \in Metered THEN "checking" ELSE "calling")
                  /\ quantity' = [quantity EXCEPT ![s] = q]
                  /\ asked' = [asked EXCEPT ![s] = now]
                  /\ found' = [found EXCEPT ![s] = o]
                  /\ UNCHANGED <<against, recorded>>
             ELSE Leave(s, "rejecting")
  /\ UNCHANGED <<now, billing, used, counts>>

Newest(b, t) == b \in Buckets(t) /\ \A x \in Buckets(t) : made[x] <= made[b]

SlipAllowed(q, b) == q <= LimitOf[plan[b]]

(* quantity <= max(limit - used, 0)                                        *)
Allowed(q, b) ==
  LET left == LimitOf[plan[b]] - used[b]
  IN  q <= (IF left > 0 THEN left ELSE 0)

(* It then reads the newest bucket whose period holds the time read above. *)
Check(s) ==
  /\ pc[s] = "checking"
  /\ \/ /\ Buckets(asked[s]) = {}
        /\ Leave(s, "rejecting")
     \/ \E b \in Openings :
          /\ Newest(b, asked[s])
          /\ IF Allowed(quantity[s], b)
             THEN /\ Goto(s, "calling")
                  /\ against' = [against EXCEPT ![s] = b]
                  /\ UNCHANGED <<quantity, asked, found, recorded>>
             ELSE Leave(s, "rejecting")
  /\ UNCHANGED <<now, billing, used, counts>>

(* The rejection is logged, usage.quota.exceeded is sent and the request   *)
(* is refused.                                                             *)
Reject(s) ==
  /\ pc[s] = "rejecting"
  /\ Leave(s, "free")
  /\ UNCHANGED <<now, billing, used, counts>>

(* No route, no model, or the provider fails: the failure is logged and    *)
(* nothing is recorded.                                                    *)
SlipCallFails(s) ==
  /\ pc[s] = "calling"
  /\ Goto(s, "recording")
  /\ recorded' = [recorded EXCEPT ![s] = now]
  /\ UNCHANGED <<now, billing, used, quantity, asked, found, against, counts>>

CallFails(s) ==
  /\ pc[s] = "calling"
  /\ Leave(s, "free")
  /\ UNCHANGED <<now, billing, used, counts>>

(* The provider answers: the call is logged as succeeded, and record reads *)
(* the clock.                                                              *)
CallSucceeds(s) ==
  /\ pc[s] = "calling"
  /\ logged < MaxLogs
  /\ logged' = logged + 1
  /\ recorded' = [recorded EXCEPT ![s] = now]
  /\ Goto(s, "recording")
  /\ UNCHANGED <<now, billing, used, quantity, asked, found, against,
                 ledger, manual, charged>>

SlipCharge(t, q) == [b \in Openings |-> IF b \in Buckets(t) THEN used[b] - q ELSE used[b]]

(* Every bucket whose period holds time t is charged.                      *)
Charge(t, q) == [b \in Openings |-> IF b \in Buckets(t) THEN used[b] + q ELSE used[b]]

(* The ledger row and the buckets change in one database transaction.      *)
Record(s) ==
  /\ pc[s] = "recording"
  /\ used' = Charge(recorded[s], quantity[s])
  /\ ledger' = ledger + 1
  /\ charged' = [b \in Openings |->
                   IF b = against[s] /\ b \in Buckets(recorded[s])
                   THEN charged[b] + quantity[s] ELSE charged[b]]
  /\ Leave(s, "free")
  /\ UNCHANGED <<now, billing, logged, manual>>

(* POST usage/ledger records without a check.                              *)
RecordManually(q) ==
  /\ manual < MaxManual
  /\ manual' = manual + 1
  /\ used' = Charge(now, q)
  /\ UNCHANGED <<now, billing, call, logged, ledger, charged>>

(* A call dies wherever it is: the server stops, or the database fails.    *)
Die(s) ==
  /\ pc[s] # "free"
  /\ Leave(s, "free")
  /\ UNCHANGED <<now, billing, used, counts>>

Tick ==
  /\ now < MaxTime
  /\ now' = now + 1
  /\ UNCHANGED <<billing, used, call, counts>>

-----------------------------------------------------------------------------
Init ==
  /\ now      = 0
  /\ phase    = [o \in Openings |-> "none"]
  /\ plan     = [o \in Openings |-> CHOOSE p \in Plans : TRUE]
  /\ startAt  = [o \in Openings |-> 0]
  /\ endAt    = [o \in Openings |-> 0]
  /\ bucket   = [o \in Openings |-> FALSE]
  /\ made     = [o \in Openings |-> 0]
  /\ used     = [o \in Openings |-> 0]
  /\ pc       = [s \in Slots |-> "free"]
  /\ quantity = [s \in Slots |-> 1]
  /\ asked    = [s \in Slots |-> 0]
  /\ found    = [s \in Slots |-> NoBucket]
  /\ against  = [s \in Slots |-> NoBucket]
  /\ recorded = [s \in Slots |-> 0]
  /\ logged   = 0
  /\ ledger   = 0
  /\ manual   = 0
  /\ charged  = [o \in Openings |-> 0]

Quantities == 1..MaxQuantity

Billing ==
  \E o \in Openings :
    \/ \E p \in Plans, m \in Months : PrepareOpening(o, p, m)
    \/ \E p \in Plans, t \in Time, m \in Months : CreateSubscription(o, p, t, m)
    \/ CommitOpening(o)

Serve(s) ==
  \/ \E q \in Quantities : Ask(s, q)
  \/ Check(s)
  \/ Reject(s)
  \/ CallFails(s)
  \/ CallSucceeds(s)
  \/ Record(s)
  \/ Die(s)

Next ==
  \/ Billing
  \/ \E s \in Slots : Serve(s)
  \/ \E q \in Quantities : RecordManually(q)
  \/ Tick

Spec == Init /\ [][Next]_vars

-----------------------------------------------------------------------------
TypeOK ==
  /\ now      \in Nat
  /\ phase    \in [Openings -> {"none", "preparing", "open", "bare"}]
  /\ plan     \in [Openings -> Plans]
  /\ startAt  \in [Openings -> Nat]
  /\ endAt    \in [Openings -> Nat]
  /\ bucket   \in [Openings -> BOOLEAN]
  /\ made     \in [Openings -> Nat]
  /\ used     \in [Openings -> Nat]
  /\ pc       \in [Slots -> {"free", "checking", "calling", "recording", "rejecting"}]
  /\ quantity \in [Slots -> Quantities]
  /\ asked    \in [Slots -> Nat]
  /\ found    \in [Slots -> Openings \cup {NoBucket}]
  /\ against  \in [Slots -> Openings \cup {NoBucket}]
  /\ recorded \in [Slots -> Nat]
  /\ {logged, ledger, manual} \subseteq Nat
  /\ charged  \in [Openings -> Nat]

Admitted == {s \in Slots : pc[s] \in {"calling", "recording"}}

(* The race between the check and the record can overrun a bucket, but not *)
(* by more than the other calls in flight can ask for: a bucket is charged *)
(* by the calls it admitted at most its limit and (slots - 1) * quantity.  *)
OverrunBounded ==
  \A b \in Openings :
    bucket[b] => charged[b] <= LimitOf[plan[b]] + (Cardinality(Slots) - 1) * MaxQuantity

(* Only answered calls are metered, and none of them twice: ledger rows    *)
(* and calls about to write one never outnumber the calls logged as        *)
(* succeeded.  A call that dies between the two stays without a row.       *)
MeteredOnce ==
  ledger + Cardinality({s \in Slots : pc[s] = "recording"}) <= logged

(* What is charged and what is metered stays within what the check and the *)
(* provider let through.                                                   *)
UsageIsBounded == OverrunBounded /\ MeteredOnce

(* A call is admitted by a subscription and, unless its plan is without a  *)
(* limit, by a bucket, both of which held the moment it asked.             *)
AdmittedInPeriod ==
  \A s \in Admitted :
    /\ found[s] \in Openings /\ phase[found[s]] \in {"open", "bare"}
    /\ startAt[found[s]] <= asked[s] /\ asked[s] <= endAt[found[s]]
    /\ plan[found[s]] \in Metered =>
         /\ against[s] \in Openings /\ bucket[against[s]]
         /\ startAt[against[s]] <= asked[s] /\ asked[s] <= endAt[against[s]]

(* The buckets of two openings never share a period, so that no usage is   *)
(* charged twice for one period; and no opening with a limit goes without  *)
(* a bucket of its period.                                                 *)
OneBucketPerPeriod ==
  /\ \A a, b \in Openings :
       bucket[a] /\ bucket[b] /\ startAt[a] = startAt[b] /\ endAt[a] = endAt[b] => a = b
  /\ \A o \in Openings :
       phase[o] = "open" /\ plan[o] \in Metered =>
         \E b \in Openings : bucket[b] /\ startAt[b] = startAt[o] /\ endAt[b] = endAt[o]

(* Periods mean what they say: each has one bucket, and who is admitted is *)
(* admitted in a period that holds.                                        *)
PeriodsMean == OneBucketPerPeriod /\ AdmittedInPeriod

(* Usage is not lost inside a period: recording a call charges the bucket  *)
(* that admitted it, unless the period of the bucket ended in between.     *)
ChargedInPeriod ==
  [][\A s \in Slots, b \in Openings :
       Record(s) /\ against[s] = b /\ recorded[s] <= endAt[b]
         => used'[b] = used[b] + quantity[s]]_vars

=============================================================================
