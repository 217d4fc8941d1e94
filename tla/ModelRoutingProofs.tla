-------------------------- MODULE ModelRoutingProofs --------------------------
(***************************************************************************)
(* Theorems about ModelRouting, for any set of providers, models, routes,  *)
(* tenants and request bodies and any number of handlers.                  *)
(*                                                                         *)
(* The argument: every write marks all the other handlers as overtaken.    *)
(* So what a handler that is not overtaken has checked still holds when    *)
(* it writes (ChecksHold), and each property follows from the checks of    *)
(* the one request that writes.                                            *)
(***************************************************************************)
EXTENDS ModelRouting, TLAPS

(* The kind of a body tells which fields it has.                           *)
LEMMA AskKinds ==
  ASSUME NEW a \in Asks
  PROVE  \/ a \in NewProviderAsks /\ a.kind = "newProvider"
         \/ a \in ProviderAsks /\ a.kind = "provider"
         \/ a \in NewModelAsks /\ a.kind = "newModel"
         \/ a \in ModelAsks /\ a.kind = "model"
         \/ a \in NewRouteAsks /\ a.kind = "newRoute"
         \/ a \in RouteAsks /\ a.kind = "route"
  BY RoutingAssumption DEF NewProviderAsks, ProviderAsks, NewModelAsks, ModelAsks,
     NewRouteAsks, RouteAsks

(* A step of requests that writes nothing.                                 *)
Reads(r) ==
  \/ \E a \in Asks : Begin(r, a)
  \/ CheckProvider(r)
  \/ Count(r)
  \/ CheckPrimary(r)
  \/ CheckFallback(r)
  \/ Find(r)
  \/ Fail(r)

CallSteps(c) ==
  \/ \E t \in Tenants : ResolveRoute(c, t)
  \/ ReadModel(c)
  \/ ReadProvider(c)
  \/ EndCall(c)

LEMMA Steps ==
  ASSUME Next
  PROVE  \/ \E r \in Requests : Reads(r)
         \/ \E r \in Requests : Write(r)
         \/ \E c \in Calls : CallSteps(c)
  BY DEF Next, Reads, CallSteps

LEMMA NoRowType == NoRow \in RouteRow /\ NoAsk \in Asks
  BY RoutingAssumption DEF NoRow, NoAsk, RouteRow, Scopes

LEMMA NoCallType == NoCall \in CallRow
  BY RoutingAssumption DEF NoCall, CallRow, ModelRow

(* What a route request writes has the types of a route's columns.         *)
LEMMA RouteFields ==
  ASSUME TypeOK, NEW r \in Requests, ask[r].kind \in {"newRoute", "route"}
  PROVE  /\ Primary(r) \in Models
         /\ Fallback(r) \in Models \cup {NoModel}
         /\ ask[r].kind = "newRoute" => NewScope(ask[r]) \in Scopes
         /\ ask[r].kind = "route" => MovedScope(r) \in Scopes
         /\ ask[r].kind = "route" => TargetStatus(ask[r], seen[r]) \in Statuses \cup {"absent"}
  <1>1. ask[r] \in Asks /\ seen[r] \in RouteRow
    BY DEF TypeOK
  <1>2. \/ ask[r] \in NewRouteAsks /\ ask[r].kind = "newRoute"
        \/ ask[r] \in RouteAsks /\ ask[r].kind = "route"
    BY <1>1, AskKinds
  <1>3. CASE ask[r] \in NewRouteAsks /\ ask[r].kind = "newRoute"
    BY <1>1, <1>3, RoutingAssumption
       DEF NewRouteAsks, Primary, Fallback, NewScope, NamesTenant, Scopes, Admins
  <1>4. CASE ask[r] \in RouteAsks /\ ask[r].kind = "route"
    BY <1>1, <1>4, RoutingAssumption
       DEF RouteAsks, RouteRow, Primary, Fallback, MovedScope, NewScope, NamesTenant, TargetStatus,
           Scopes, Admins
  <1> QED
    BY <1>2, <1>3, <1>4

-----------------------------------------------------------------------------
(* Type correctness.                                                       *)

LEMMA TypeInit == Init => TypeOK
  BY NoRowType, NoCallType, RoutingAssumption
     DEF Init, TypeOK, ProviderRow, ModelRow, Handlers, Stages

LEMMA TypeLeave ==
  ASSUME TypeOK, NEW r \in Requests, Leave(r)
  PROVE  /\ pc' \in [Handlers -> Stages]
         /\ ask' \in [Requests -> Asks]
         /\ row' \in [Requests -> Routes \cup {NoRoute}]
         /\ seen' \in [Requests -> RouteRow]
  BY NoRowType DEF TypeOK, Leave, Goto, Handlers, Stages

LEMMA TypeEnd ==
  ASSUME TypeOK, NEW r \in Requests, End(r)
  PROVE  TypeOK'
  <1>1. Leave(r)
    BY DEF End
  <1> QED
    BY <1>1, TypeLeave DEF TypeOK, End, Handlers

LEMMA TypeGoOn ==
  ASSUME TypeOK, NEW r \in Requests, NEW l \in Stages, GoOn(r, l)
  PROVE  TypeOK'
  BY DEF TypeOK, GoOn, Goto

LEMMA TypeBegin ==
  ASSUME TypeOK, NEW r \in Requests, NEW a \in Asks, Begin(r, a)
  PROVE  TypeOK'
  <1>1. Start(a) \in Stages
    BY AskKinds DEF Start, ProviderStart, ModelStart, RouteStart, Stages
  <1>2. pc' \in [Handlers -> Stages]
    BY <1>1 DEF TypeOK, Begin, Goto
  <1>3. a.kind = "route" => a.id \in Routes
    BY AskKinds DEF RouteAsks
  <1>4. row' \in [Requests -> Routes \cup {NoRoute}] /\ seen' \in [Requests -> RouteRow]
    BY <1>3 DEF TypeOK, Begin
  <1>5. ask' \in [Requests -> Asks]
    BY DEF TypeOK, Begin
  <1> QED
    BY <1>2, <1>4, <1>5 DEF TypeOK, Begin

LEMMA TypeReads ==
  ASSUME TypeOK, NEW r \in Requests, Reads(r)
  PROVE  TypeOK'
  <1> USE DEF Stages
  <1>1. CASE \E a \in Asks : Begin(r, a)
    BY <1>1, TypeBegin
  <1>2. CASE CheckProvider(r)
    BY <1>2, TypeEnd, TypeGoOn DEF CheckProvider
  <1>3. CASE Count(r)
    BY <1>3, TypeEnd, TypeGoOn DEF Count
  <1>4. CASE CheckPrimary(r)
    BY <1>4, TypeEnd, TypeGoOn DEF CheckPrimary, Checked
  <1>5. CASE CheckFallback(r)
    BY <1>5, TypeEnd, TypeGoOn DEF CheckFallback, Checked
  <1>6. CASE Find(r)
    BY <1>6 DEF Find, Existing, InScope, TypeOK, Goto
  <1>7. CASE Fail(r)
    BY <1>7, TypeEnd DEF Fail
  <1> QED
    BY <1>1, <1>2, <1>3, <1>4, <1>5, <1>6, <1>7 DEF Reads

LEMMA TypeDone ==
  ASSUME TypeOK, NEW r \in Requests, Done(r)
  PROVE  /\ pc' \in [Handlers -> Stages]
         /\ ask' \in [Requests -> Asks]
         /\ row' \in [Requests -> Routes \cup {NoRoute}]
         /\ seen' \in [Requests -> RouteRow]
         /\ call' = call
         /\ overtaken' \in [Handlers -> BOOLEAN]
  BY TypeLeave DEF Done, Overtake

LEMMA TypeWrite ==
  ASSUME TypeOK, NEW r \in Requests, Write(r)
  PROVE  TypeOK'
  <1>1. ask[r] \in Asks /\ row[r] \in Routes \cup {NoRoute}
    BY DEF TypeOK
  <1>2. CASE WriteProvider(r)
    <2>1. ask[r] \in NewProviderAsks \cup ProviderAsks
      BY <1>1, <1>2, AskKinds DEF WriteProvider
    <2>2. provider' \in [Providers -> ProviderRow]
      BY <1>2, <2>1 DEF WriteProvider, TypeOK, NewProviderAsks, ProviderAsks, ProviderRow
    <2> QED
      BY <1>2, <2>2, TypeDone DEF WriteProvider, TypeOK
  <1>3. CASE WriteNewModel(r)
    <2>1. ask[r] \in NewModelAsks
      BY <1>1, <1>3, AskKinds DEF WriteNewModel
    <2>2. model' \in [Models -> ModelRow]
      BY <1>3, <2>1 DEF WriteNewModel, TypeOK, NewModelAsks, ModelRow
    <2> QED
      BY <1>3, <2>2, TypeDone DEF WriteNewModel, TypeOK
  <1>4. CASE WriteModel(r)
    <2>1. ask[r] \in ModelAsks
      BY <1>1, <1>4, AskKinds DEF WriteModel
    <2>2. model' \in [Models -> ModelRow]
      BY <1>4, <2>1 DEF WriteModel, TypeOK, ModelAsks, ModelRow
    <2> QED
      BY <1>4, <2>2, TypeDone DEF WriteModel, TypeOK
  <1>5. CASE UpdateFound(r)
    <2>1. ask[r] \in NewRouteAsks
      BY <1>1, <1>5, AskKinds DEF UpdateFound
    <2>2. row[r] \in Routes
      BY <1>1, <1>5 DEF UpdateFound
    <2>3. route[row[r]] \in RouteRow
      BY <2>2 DEF TypeOK
    <2>4. Updated(route[row[r]], ask[r]) \in RouteRow
      BY <2>1, <2>3 DEF NewRouteAsks, RouteRow, Updated
    <2>5. route' \in [Routes -> RouteRow]
      BY <1>5, <2>4 DEF TypeOK, UpdateFound
    <2> QED
      BY <1>5, <2>5, TypeDone DEF UpdateFound, TypeOK
  <1>6. CASE \E x \in Routes : CreateRoute(r, x)
    <2>1. PICK x \in Routes : CreateRoute(r, x)
      BY <1>6
    <2>2. ask[r] \in NewRouteAsks
      BY <1>1, <2>1, AskKinds DEF CreateRoute
    <2>3. route' \in [Routes -> RouteRow]
      BY <2>1, <2>2, RouteFields DEF CreateRoute, TypeOK, NewRouteAsks, RouteRow
    <2> QED
      BY <2>1, <2>3, TypeDone DEF CreateRoute, TypeOK
  <1>7. CASE WriteRoute(r)
    <2>1. route' \in [Routes -> RouteRow]
      BY <1>7, RouteFields DEF WriteRoute, TypeOK, RouteRow
    <2> QED
      BY <1>7, <2>1, TypeDone DEF WriteRoute, TypeOK
  <1> QED
    BY <1>2, <1>3, <1>4, <1>5, <1>6, <1>7 DEF Write

LEMMA TypeCall ==
  ASSUME TypeOK, NEW c \in Calls, CallSteps(c)
  PROVE  TypeOK'
  <1>1. CASE \E t \in Tenants : ResolveRoute(c, t)
    <2>1. PICK t \in Tenants : ResolveRoute(c, t)
      BY <1>1
    <2>2. \A x \in Best(t) : route[x].primary \in Models
      BY DEF Best, ActiveIn, InScope, TypeOK, RouteRow
    <2>3. pc' \in [Handlers -> Stages]
      BY <2>1 DEF ResolveRoute, Goto, TypeOK, Stages
    <2>4. t \in Tenants \cup {Platform}
      OBVIOUS
    <2>5. \A m \in Models : /\ [NoCall EXCEPT !.tenant = t, !.model = m] \in CallRow
                           /\ [NoCall EXCEPT !.tenant = t, !.outcome = "refused"] \in CallRow
      BY <2>4, NoCallType DEF CallRow
    <2>6. call' \in [Calls -> CallRow]
      <3>1. \E new \in CallRow : call' = [call EXCEPT ![c] = new]
        <4>1. CASE call' = [call EXCEPT ![c] = [NoCall EXCEPT !.tenant = t, !.outcome = "refused"]]
          BY <2>5, <4>1, RoutingAssumption
        <4>2. ASSUME NEW x \in Best(t),
                     call' = [call EXCEPT ![c] = [NoCall EXCEPT !.tenant = t,
                                                                !.model = route[x].primary]]
              PROVE  \E new \in CallRow : call' = [call EXCEPT ![c] = new]
          <5>1. [NoCall EXCEPT !.tenant = t, !.model = route[x].primary] \in CallRow
            BY <2>2, <2>5
          <5> QED
            BY <4>2, <5>1
        <4> QED
          BY <2>1, <4>1, <4>2 DEF ResolveRoute
      <3> QED
        BY <3>1 DEF TypeOK
    <2> QED
      BY <2>1, <2>3, <2>6 DEF ResolveRoute, TypeOK
  <1>2. CASE ReadModel(c)
    BY <1>2 DEF ReadModel, Goto, TypeOK, Stages, CallRow
  <1>3. CASE ReadProvider(c)
    BY <1>3 DEF ReadProvider, Goto, TypeOK, Stages, CallRow
  <1>4. CASE EndCall(c)
    BY <1>4, NoCallType DEF EndCall, Goto, TypeOK, Stages
  <1> QED
    BY <1>1, <1>2, <1>3, <1>4 DEF CallSteps

LEMMA TypeStep == TypeOK /\ [Next]_vars => TypeOK'
  <1> SUFFICES ASSUME TypeOK, [Next]_vars PROVE TypeOK'
    OBVIOUS
  <1>1. CASE Next
    BY <1>1, Steps, TypeReads, TypeWrite, TypeCall
  <1>2. CASE UNCHANGED vars
    BY <1>2 DEF vars, TypeOK
  <1> QED
    BY <1>1, <1>2

(* Every variable keeps its type.                                          *)
THEOREM TypeCorrect == Spec => []TypeOK
  BY TypeInit, TypeStep, PTL DEF Spec

-----------------------------------------------------------------------------
(* What a handler that is not overtaken knows of the catalogue.            *)

FreshProvider(r) ==
  (ask[r].kind = "provider" /\ pc[r] = "write" /\ ask[r].status \in Off)
    => ~ProviderInUse(ask[r].id)

FreshModel(r) ==
  /\ (ask[r].kind = "newModel" /\ pc[r] = "write") => provider[ask[r].of] = "active"
  /\ ask[r].kind = "model" =>
       /\ (pc[r] \in {"count", "write"} /\ ask[r].of # Keep)
            => (ask[r].of = model[ask[r].id].of \/ provider[ask[r].of] = "active")
       /\ (pc[r] = "write" /\ ask[r].status \in Off) => ~ModelInUse(ask[r].id)

FreshNewRoute(r) ==
  ask[r].kind = "newRoute" =>
    /\ pc[r] \in {"fallback", "find", "write"} => IsActive(ask[r].primary)
    /\ pc[r] = "write" => IF row[r] = NoRoute THEN InScope(NewScope(ask[r])) = {}
                          ELSE row[r] \in InScope(NewScope(ask[r]))

FreshRoute(r) ==
  (ask[r].kind = "route" /\ pc[r] # "idle") =>
    /\ row[r] = ask[r].id
    /\ seen[r] = route[ask[r].id]
    /\ RouteAccess(ask[r])
    /\ (pc[r] \in {"fallback", "write"} /\ TargetStatus(ask[r], seen[r]) = "active")
         => IsActive(Primary(r))

FreshFallback(r) ==
  (\/ ask[r].kind = "newRoute" /\ pc[r] \in {"find", "write"}
   \/ ask[r].kind = "route" /\ pc[r] = "write" /\ TargetStatus(ask[r], seen[r]) = "active")
    => Fallback(r) = NoModel \/ IsActive(Fallback(r))

(* Each kind of request passes its own stages only.                        *)
StageFits(r) ==
  /\ pc[r] = "provider" => ask[r].kind \in {"newModel", "model"}
  /\ pc[r] = "count" => ask[r].kind \in {"provider", "model"}
  /\ pc[r] \in {"primary", "fallback"} => ask[r].kind \in {"newRoute", "route"}
  /\ pc[r] = "find" => ask[r].kind = "newRoute"

Fresh(r) ==
  /\ StageFits(r)
  /\ FreshProvider(r)
  /\ FreshModel(r)
  /\ FreshNewRoute(r)
  /\ FreshRoute(r)
  /\ FreshFallback(r)

ChecksHold == \A r \in Requests : overtaken[r] \/ Fresh(r)

LEMMA IdleIsFresh ==
  ASSUME NEW r \in Requests, pc[r] = "idle"
  PROVE  Fresh(r)
  BY DEF Fresh, StageFits, FreshProvider, FreshModel, FreshNewRoute, FreshRoute, FreshFallback

Catalogue == <<provider, model, route>>

LEMMA StaysFresh ==
  ASSUME NEW r \in Requests, Fresh(r), Catalogue' = Catalogue,
         pc'[r] = pc[r], ask'[r] = ask[r], row'[r] = row[r], seen'[r] = seen[r]
  PROVE  Fresh(r)'
  <1> USE DEF Catalogue
  <1>0. StageFits(r)'
    BY DEF Fresh, StageFits
  <1>1. FreshProvider(r)'
    BY DEF Fresh, FreshProvider, ProviderInUse
  <1>2. FreshModel(r)'
    BY DEF Fresh, FreshModel, ModelInUse
  <1>3. FreshNewRoute(r)'
    BY DEF Fresh, FreshNewRoute, IsActive, InScope, NewScope
  <1>4. FreshRoute(r)'
    BY DEF Fresh, FreshRoute, IsActive, RouteAccess, TargetStatus, Primary
  <1>5. FreshFallback(r)'
    BY DEF Fresh, FreshFallback, IsActive, TargetStatus, Fallback
  <1> QED
    BY <1>0, <1>1, <1>2, <1>3, <1>4, <1>5 DEF Fresh

(* A handler's own read leaves the others alone.                           *)
LEMMA ReadsLeaveOthers ==
  ASSUME TypeOK, NEW r \in Requests, Reads(r)
  PROVE  /\ Catalogue' = Catalogue
         /\ \A q \in Requests \ {r} :
              /\ pc'[q] = pc[q] /\ ask'[q] = ask[q] /\ row'[q] = row[q] /\ seen'[q] = seen[q]
              /\ overtaken'[q] = overtaken[q]
  <1> USE DEF Catalogue, TypeOK
  <1>1. CASE \E a \in Asks : Begin(r, a)
    BY <1>1 DEF Begin, Goto
  <1>2. CASE End(r)
    BY <1>2 DEF End, Leave, Goto
  <1>3. CASE \E l \in Stages : GoOn(r, l)
    BY <1>3 DEF GoOn, Goto
  <1>4. CASE Find(r)
    BY <1>4 DEF Find, Goto
  <1>5. \/ \E a \in Asks : Begin(r, a)
        \/ End(r)
        \/ \E l \in Stages : GoOn(r, l)
        \/ Find(r)
    BY DEF Reads, CheckProvider, Count, CheckPrimary, CheckFallback, Fail, Checked, Stages
  <1> QED
    BY <1>1, <1>2, <1>3, <1>4, <1>5

LEMMA BeginIsFresh ==
  ASSUME TypeOK, NEW r \in Requests, NEW a \in Asks, Begin(r, a)
  PROVE  Fresh(r)'
  <1>1. /\ pc'[r] = Start(a) /\ ask'[r] = a
        /\ Catalogue' = Catalogue
        /\ a.kind = "route" => row'[r] = a.id /\ seen'[r] = route[a.id]
    BY DEF Begin, Goto, TypeOK, Catalogue, Handlers
  <1> USE <1>1 DEF Catalogue
  <1>2. FreshProvider(r)'
    BY DEF FreshProvider, Start, ProviderStart
  <1>3. FreshModel(r)'
    BY DEF FreshModel, Start, ModelStart
  <1>4. FreshNewRoute(r)'
    BY DEF FreshNewRoute, Start
  <1>5. FreshRoute(r)'
    <2>1. a.kind = "route" => RouteAccess(a)' /\ TargetStatus(a, route[a.id]) = TargetStatus(a, seen[r])'
      BY DEF Begin, Found, RouteAccess, TargetStatus
    <2> QED
      BY <2>1 DEF FreshRoute, Start, RouteStart, TargetStatus
  <1>6. StageFits(r)'
    BY AskKinds DEF StageFits, Start, ProviderStart, ModelStart, RouteStart
  <1>7. FreshFallback(r)'
    BY DEF FreshFallback, Start, RouteStart, TargetStatus
  <1> QED
    BY <1>2, <1>3, <1>4, <1>5, <1>6, <1>7 DEF Fresh

LEMMA CheckIsFresh ==
  ASSUME TypeOK, NEW r \in Requests, Fresh(r),
         CheckProvider(r) \/ Count(r) \/ CheckPrimary(r) \/ CheckFallback(r)
  PROVE  Fresh(r)'
  <1>1. ask[r] \in Asks
    BY DEF TypeOK
  <1>2. CASE End(r)
    <2>1. pc'[r] = "idle"
      BY <1>2 DEF End, Leave, Goto, TypeOK, Handlers
    <2> QED
      BY <2>1 DEF Fresh, StageFits, FreshProvider, FreshModel, FreshNewRoute, FreshRoute, FreshFallback
  <1>3. CASE ~End(r)
    <2> DEFINE l == pc'[r]
    <2>1. /\ Catalogue' = Catalogue /\ ask' = ask /\ row' = row /\ seen' = seen
      BY <1>3 DEF CheckProvider, Count, CheckPrimary, CheckFallback, GoOn, Catalogue
    <2>2. \/ /\ pc[r] = "provider" /\ l \in {"count", "write"}
             /\ provider[ask[r].of] = "active"
             /\ ask[r].kind = "model" /\ ask[r].status \in Off => l = "count"
             /\ l = "count" => ask[r].kind = "model"
          \/ /\ pc[r] = "count" /\ l = "write"
             /\ ask[r].kind = "provider" => ~ProviderInUse(ask[r].id)
             /\ ask[r].kind = "model" => ~ModelInUse(ask[r].id)
          \/ /\ pc[r] = "primary" /\ l \in {"fallback", "write", "find"}
             /\ IsActive(Primary(r))
             /\ l # "fallback" => Fallback(r) = NoModel
             /\ l = "write" => ask[r].kind = "route"
             /\ l = "find" => ask[r].kind # "route"
          \/ /\ pc[r] = "fallback" /\ l \in {"write", "find"}
             /\ IsActive(Fallback(r))
             /\ l = "write" => ask[r].kind = "route"
             /\ l = "find" => ask[r].kind # "route"
      BY <1>3 DEF CheckProvider, Count, CheckPrimary, CheckFallback, GoOn, Goto, Checked,
                  TypeOK, Handlers
    <2> USE <2>1, <2>2 DEF Catalogue
    <2>7. StageFits(r)'
      BY DEF Fresh, StageFits
    <2>3. FreshProvider(r)'
      BY DEF Fresh, StageFits, FreshProvider, ProviderInUse
    <2>4. FreshModel(r)'
      BY DEF Fresh, StageFits, FreshModel, ModelInUse
    <2>5. FreshNewRoute(r)'
      <3>1. ask[r].kind = "newRoute" => ask[r].primary # Keep
        BY <1>1, AskKinds, RoutingAssumption DEF NewRouteAsks
      <3> QED
        BY <3>1 DEF Fresh, StageFits, FreshNewRoute, IsActive, Primary
    <2>6. FreshRoute(r)'
      BY DEF Fresh, StageFits, FreshRoute, IsActive, RouteAccess, TargetStatus, Primary
    <2>8. FreshFallback(r)'
      BY DEF Fresh, StageFits, FreshFallback, IsActive, TargetStatus, Fallback
    <2> QED
      BY <2>3, <2>4, <2>5, <2>6, <2>7, <2>8 DEF Fresh
  <1> QED
    BY <1>2, <1>3

LEMMA FindIsFresh ==
  ASSUME TypeOK, NEW r \in Requests, Fresh(r), Find(r)
  PROVE  Fresh(r)'
  <1>1. /\ pc[r] = "find" /\ pc'[r] = "write" /\ ask'[r] = ask[r] /\ seen'[r] = seen[r]
        /\ Catalogue' = Catalogue
        /\ ask[r].kind = "newRoute"
    BY DEF Find, Goto, TypeOK, Catalogue, Handlers, Fresh, StageFits
  <1>2. IF row'[r] = NoRoute THEN InScope(NewScope(ask[r])) = {}
        ELSE row'[r] \in InScope(NewScope(ask[r]))
    BY RoutingAssumption DEF Find, Existing, TypeOK, InScope
  <1> QED
    BY <1>1, <1>2 DEF Catalogue, Fresh, StageFits, FreshProvider, FreshModel, FreshNewRoute,
       FreshRoute, FreshFallback, IsActive, InScope, NewScope, Fallback, TargetStatus

LEMMA ChecksInit == Init => ChecksHold
  BY IdleIsFresh DEF Init, ChecksHold, Handlers

LEMMA ChecksReads ==
  ASSUME TypeOK, ChecksHold, NEW r \in Requests, Reads(r)
  PROVE  ChecksHold'
  <1>1. ASSUME NEW q \in Requests \ {r}
        PROVE  overtaken'[q] \/ Fresh(q)'
    BY <1>1, ReadsLeaveOthers, StaysFresh DEF ChecksHold
  <1>2. overtaken'[r] \/ Fresh(r)'
    <2>1. CASE \E a \in Asks : Begin(r, a)
      BY <2>1, BeginIsFresh
    <2>2. CASE Fail(r)
      <3>1. pc'[r] = "idle"
        BY <2>2 DEF Fail, End, Leave, Goto, TypeOK, Handlers
      <3> QED
        BY <3>1 DEF Fresh, StageFits, FreshProvider, FreshModel, FreshNewRoute, FreshRoute, FreshFallback
    <2>3. CASE Find(r)
      <3>1. overtaken' = overtaken
        BY <2>3 DEF Find
      <3> QED
        BY <2>3, <3>1, FindIsFresh DEF ChecksHold
    <2>4. CASE CheckProvider(r) \/ Count(r) \/ CheckPrimary(r) \/ CheckFallback(r)
      <3>1. CASE End(r)
        <4>1. pc'[r] = "idle"
          BY <3>1 DEF End, Leave, Goto, TypeOK, Handlers
        <4> QED
          BY <4>1 DEF Fresh, StageFits, FreshProvider, FreshModel, FreshNewRoute, FreshRoute, FreshFallback
      <3>2. CASE ~End(r)
        <4>1. overtaken' = overtaken
          BY <2>4, <3>2 DEF CheckProvider, Count, CheckPrimary, CheckFallback, GoOn
        <4> QED
          BY <2>4, <4>1, CheckIsFresh DEF ChecksHold
      <3> QED
        BY <3>1, <3>2
    <2> QED
      BY <2>1, <2>2, <2>3, <2>4 DEF Reads
  <1> QED
    BY <1>1, <1>2 DEF ChecksHold

(* After a write everybody else is overtaken or idle.                      *)
LEMMA ChecksWrite ==
  ASSUME TypeOK, NEW r \in Requests, Write(r)
  PROVE  ChecksHold'
  <1>1. Done(r)
    BY DEF Write, WriteProvider, WriteNewModel, WriteModel, UpdateFound, CreateRoute, WriteRoute
  <1>2. \A q \in Requests : pc'[q] = "idle" \/ overtaken'[q]
    BY <1>1 DEF Done, Leave, Overtake, Goto, TypeOK, Handlers
  <1>3. ASSUME NEW q \in Requests, pc'[q] = "idle" PROVE Fresh(q)'
    BY <1>3 DEF Fresh, StageFits, FreshProvider, FreshModel, FreshNewRoute, FreshRoute, FreshFallback
  <1> QED
    BY <1>2, <1>3 DEF ChecksHold

LEMMA ChecksCall ==
  ASSUME TypeOK, ChecksHold, NEW c \in Calls, CallSteps(c)
  PROVE  ChecksHold'
  <1>1. Catalogue' = Catalogue /\ ask' = ask /\ row' = row /\ seen' = seen
    BY DEF CallSteps, ResolveRoute, ReadModel, ReadProvider, EndCall, Catalogue
  <1>2. \A r \in Requests : pc'[r] = pc[r] /\ overtaken'[r] = overtaken[r]
    BY RoutingAssumption DEF CallSteps, ResolveRoute, ReadModel, ReadProvider, EndCall, Goto,
       TypeOK, Handlers
  <1> QED
    BY <1>1, <1>2, StaysFresh DEF ChecksHold

LEMMA ChecksStep == TypeOK /\ ChecksHold /\ [Next]_vars => ChecksHold'
  <1> SUFFICES ASSUME TypeOK, ChecksHold, [Next]_vars PROVE ChecksHold'
    OBVIOUS
  <1>1. CASE Next
    BY <1>1, Steps, ChecksReads, ChecksWrite, ChecksCall
  <1>2. CASE UNCHANGED vars
    BY <1>2, StaysFresh DEF vars, ChecksHold, Catalogue
  <1> QED
    BY <1>1, <1>2

-----------------------------------------------------------------------------
(* Only a write changes the catalogue, and it ends its request.            *)
LEMMA WriteEnds ==
  ASSUME TypeOK, NEW r \in Requests, Write(r)
  PROVE  /\ Ends(r)
         /\ \A q \in Requests \ {r} : ~Ends(q)
         /\ \/ overtaken[r]
            \/ ChecksHold => Fresh(r)
  <1>1. Done(r)
    BY DEF Write, WriteProvider, WriteNewModel, WriteModel, UpdateFound, CreateRoute, WriteRoute
  <1> QED
    BY <1>1 DEF Done, Leave, Goto, Ends, TypeOK, Handlers, ChecksHold

LEMMA NoWriteNoChange ==
  ASSUME TypeOK, [Next]_vars, ~\E r \in Requests : Write(r)
  PROVE  Catalogue' = Catalogue
  <1>1. CASE \E r \in Requests : Reads(r)
    BY <1>1, ReadsLeaveOthers
  <1>2. CASE \E c \in Calls : CallSteps(c)
    BY <1>2 DEF CallSteps, ResolveRoute, ReadModel, ReadProvider, EndCall, Catalogue
  <1>3. CASE UNCHANGED vars
    BY <1>3 DEF vars, Catalogue
  <1> QED
    BY <1>1, <1>2, <1>3, Steps

(* A write of a row that neither is nor comes to be of tenant u changes    *)
(* what u is offered only if u has no active route of its own, and the row *)
(* is of no other tenant.                                                  *)
LEMMA OtherScopes ==
  ASSUME TypeOK, NEW u \in Tenants, NEW x \in Routes, NEW new \in RouteRow,
         route' = [route EXCEPT ![x] = new], new.scope # u,
         route[x].status = "absent" \/ route[x].scope # u,
         \/ ActiveIn(u) # {}
         \/ /\ new.scope \in Tenants
            /\ route[x].status = "absent" \/ route[x].scope \in Tenants
  PROVE  Offered(u)' = Offered(u)
  <1>1. \A y \in Routes : y # x => route'[y] = route[y]
    BY DEF TypeOK
  <1>2. route'[x] = new
    BY DEF TypeOK
  <1>3. ActiveIn(u)' = ActiveIn(u) /\ x \notin ActiveIn(u)
    BY <1>1, <1>2 DEF ActiveIn, InScope
  <1>4. CASE ActiveIn(u) # {}
    <2>1. Best(u) = ActiveIn(u) /\ Best(u)' = ActiveIn(u) /\ ActiveIn(u) \subseteq Routes
      BY <1>3, <1>4 DEF Best, ActiveIn, InScope
    <2> QED
      BY <1>1, <1>3, <2>1 DEF Offered
  <1>5. CASE /\ new.scope \in Tenants
             /\ route[x].status = "absent" \/ route[x].scope \in Tenants
    <2>1. "app" \notin Tenants /\ "global" \notin Tenants
      BY RoutingAssumption
    <2>2. \A s \in {"app", "global"} : ActiveIn(s)' = ActiveIn(s) /\ x \notin ActiveIn(s)
      BY <1>1, <1>2, <1>5, <2>1 DEF ActiveIn, InScope
    <2>3. Best(u)' = Best(u) /\ x \notin Best(u) /\ Best(u) \subseteq Routes
      BY <1>3, <2>2 DEF Best, ActiveIn, InScope
    <2> QED
      BY <1>1, <2>3 DEF Offered
  <1> QED
    BY <1>4, <1>5

(* The routes such a request reads and writes are of the context of its    *)
(* administrator, or of the tenant that the body names.                    *)
LEMMA RouteWrites ==
  ASSUME TypeOK, NEW r \in Requests, Write(r), Fresh(r),
         ask[r].kind \in {"newRoute", "route"}, ask[r].by # Platform,
         NEW u \in Tenants, ask[r].by # u,
         ask[r].by = "app" => ask[r].scope # u /\ ActiveIn(u) # {}
  PROVE  Offered(u)' = Offered(u)
  <1>1. ask[r] \in Asks /\ seen[r] \in RouteRow
    BY DEF TypeOK
  <1>2. ask[r].by \in Tenants \cup {"app"} /\ "app" \notin Tenants
    BY <1>1, AskKinds, RoutingAssumption DEF NewRouteAsks, RouteAsks, Admins
  <1>3. pc[r] = "write"
    BY DEF Write, WriteProvider, WriteNewModel, WriteModel, UpdateFound, CreateRoute,
       WriteRoute, Done
  <1>4. /\ NewScope(ask[r]) # u
        /\ ActiveIn(u) # {} \/ (ask[r].by \in Tenants /\ NewScope(ask[r]) \in Tenants)
    BY <1>2 DEF NewScope, NamesTenant
  <1>5. CASE UpdateFound(r)
    <2>1. row[r] \in InScope(NewScope(ask[r]))
      BY <1>3, <1>5 DEF UpdateFound, Fresh, FreshNewRoute
    <2>2. ask[r] \in NewRouteAsks /\ row[r] \in Routes /\ route[row[r]] \in RouteRow
      BY <1>1, <1>5, <2>1, AskKinds DEF UpdateFound, InScope, TypeOK
    <2>3. /\ Updated(route[row[r]], ask[r]) \in RouteRow
          /\ Updated(route[row[r]], ask[r]).scope = route[row[r]].scope
      BY <2>2 DEF Updated, NewRouteAsks, RouteRow
    <2>4. route[row[r]].scope = NewScope(ask[r])
      BY <2>1 DEF InScope
    <2>5. route' = [route EXCEPT ![row[r]] = Updated(route[row[r]], ask[r])]
      BY <1>5 DEF UpdateFound
    <2> QED
      BY <1>4, <2>2, <2>3, <2>4, <2>5, OtherScopes
  <1>6. ASSUME NEW x \in Routes, CreateRoute(r, x)
        PROVE  Offered(u)' = Offered(u)
    <2> DEFINE new == [status |-> ask[r].status, scope |-> NewScope(ask[r]),
                       primary |-> ask[r].primary, fallback |-> Fallback(r)]
    <2>1. ask[r] \in NewRouteAsks
      BY <1>1, <1>6, AskKinds DEF CreateRoute
    <2>2. new \in RouteRow /\ new.scope = NewScope(ask[r])
      BY <2>1, RouteFields DEF NewRouteAsks, RouteRow
    <2>3. route' = [route EXCEPT ![x] = new] /\ route[x].status = "absent"
      BY <1>6 DEF CreateRoute
    <2> HIDE DEF new
    <2> QED
      BY <1>4, <2>2, <2>3, OtherScopes
  <1>7. CASE WriteRoute(r)
    <2> DEFINE new == [status |-> TargetStatus(ask[r], seen[r]), scope |-> MovedScope(r),
                       primary |-> Primary(r), fallback |-> Fallback(r)]
    <2>1. ask[r] \in RouteAsks /\ row[r] = ask[r].id /\ row[r] \in Routes
      BY <1>1, <1>3, <1>7, AskKinds DEF WriteRoute, RouteAsks, Fresh, FreshRoute
    <2>2. route[row[r]].scope = ask[r].by /\ seen[r].scope = ask[r].by
      BY <1>3, <1>7, <2>1 DEF WriteRoute, Fresh, FreshRoute, RouteAccess
    <2>3. new \in RouteRow /\ new.scope \in {ask[r].by, NewScope(ask[r])}
      BY <1>7, <2>2, RouteFields DEF WriteRoute, RouteRow, MovedScope
    <2>4. route' = [route EXCEPT ![row[r]] = new]
      BY <1>7 DEF WriteRoute
    <2> HIDE DEF new
    <2> QED
      BY <1>4, <2>1, <2>2, <2>3, <2>4, OtherScopes
  <1> QED
    BY <1>5, <1>6, <1>7 DEF Write, WriteProvider, WriteNewModel, WriteModel

(* An administrator who is not of the platform, and not overtaken, changes *)
(* what AI calls are served with only for the tenant one acts in; or, in   *)
(* the context of the app, for a tenant the body names or one without an   *)
(* active route of its own.                                                *)
THEOREM TenantsKeptApart == Spec => TenantsApart
  <1> DEFINE Apart ==
        \A r \in Requests, t \in Tenants :
          (/\ Ends(r)
           /\ ask[r].kind \in {"newRoute", "route"}
           /\ ask[r].by # Platform
           /\ ~overtaken[r]
           /\ Offered(t)' # Offered(t))
            => \/ ask[r].by = t
               \/ ask[r].by = "app" /\ (ask[r].scope = t \/ ActiveIn(t) = {})
  <1>1. TypeOK /\ ChecksHold /\ [Next]_vars => [Apart]_vars
    <2> SUFFICES ASSUME TypeOK, ChecksHold, [Next]_vars,
                        NEW r \in Requests, NEW t \in Tenants, Ends(r),
                        ask[r].kind \in {"newRoute", "route"}, ask[r].by # Platform,
                        ~overtaken[r], ask[r].by # t,
                        ask[r].by = "app" => ask[r].scope # t /\ ActiveIn(t) # {}
                 PROVE  Offered(t)' = Offered(t)
      OBVIOUS
    <2>1. CASE \E q \in Requests : Write(q)
      BY <2>1, WriteEnds, RouteWrites
    <2>2. CASE ~\E q \in Requests : Write(q)
      BY <2>2, NoWriteNoChange DEF Catalogue, Offered, Best, ActiveIn, InScope
    <2> QED
      BY <2>1, <2>2
  <1> QED
    BY <1>1, TypeInit, TypeStep, ChecksInit, ChecksStep, PTL DEF Spec, TenantsApart

-----------------------------------------------------------------------------
(* Rows are never deleted, so what was once found active exists for good,  *)
(* overtaken or not.                                                       *)

Exists(m) == model[m].status # "absent"

NamesExist(r) ==
  /\ StageFits(r)
  /\ (ask[r].kind = "newModel" /\ pc[r] = "write") => provider[ask[r].of] # "absent"
  /\ (ask[r].kind = "model" /\ pc[r] # "idle") => Exists(ask[r].id)
  /\ (ask[r].kind = "model" /\ pc[r] \in {"count", "write"} /\ ask[r].of # Keep)
       => provider[ask[r].of] # "absent"
  /\ (ask[r].kind = "newRoute" /\ pc[r] \in {"fallback", "find", "write"})
       => Exists(ask[r].primary)
  /\ (/\ ask[r].kind = "route" /\ pc[r] \in {"fallback", "write"}
      /\ TargetStatus(ask[r], seen[r]) = "active")
       => Exists(Primary(r))

RowsExist ==
  /\ \A m \in Models : Exists(m) => provider[model[m].of] # "absent"
  /\ \A x \in Routes : route[x].status = "active" => Exists(route[x].primary)

NothingMissing == RowsExist /\ \A r \in Requests : NamesExist(r)

LEMMA NothingMissingInit == Init => NothingMissing
  BY DEF Init, NothingMissing, RowsExist, NamesExist, StageFits, Exists, NoRow, Handlers

(* What exists goes on existing.                                           *)
LEMMA NamesStay ==
  ASSUME NEW r \in Requests, NamesExist(r), TypeOK,
         pc'[r] = pc[r], ask'[r] = ask[r], seen'[r] = seen[r],
         \A p \in Providers : provider[p] # "absent" => provider'[p] # "absent",
         \A m \in Models : Exists(m) => Exists(m)'
  PROVE  NamesExist(r)'
  <1>1. ask[r] \in Asks /\ seen[r] \in RouteRow
    BY DEF TypeOK
  <1>2. /\ ask[r].kind = "newModel" => ask[r].of \in Providers
        /\ ask[r].kind = "model" => ask[r].id \in Models /\ ask[r].of \in Providers \cup {Keep}
        /\ ask[r].kind = "newRoute" => ask[r].primary \in Models
        /\ ask[r].kind = "route" => Primary(r) \in Models
    BY <1>1, AskKinds, RouteFields DEF NewModelAsks, ModelAsks, NewRouteAsks
  <1>3. Primary(r)' = Primary(r) /\ TargetStatus(ask[r], seen[r])' = TargetStatus(ask[r], seen[r])
    BY DEF Primary, TargetStatus
  <1> QED
    BY <1>2, <1>3 DEF NamesExist, StageFits

LEMMA IdleNamesExist ==
  ASSUME NEW r \in Requests, pc'[r] = "idle"
  PROVE  NamesExist(r)'
  BY DEF NamesExist, StageFits

LEMMA EndIsIdle ==
  ASSUME TypeOK, NEW r \in Requests, End(r)
  PROVE  pc'[r] = "idle"
  BY DEF End, Leave, Goto, TypeOK, Handlers

LEMMA NamesReads ==
  ASSUME TypeOK, NothingMissing, NEW r \in Requests, Reads(r)
  PROVE  NothingMissing'
  <1>1. Catalogue' = Catalogue
    BY ReadsLeaveOthers
  <1>2. RowsExist'
    BY <1>1 DEF NothingMissing, RowsExist, Exists, Catalogue
  <1>3. ASSUME NEW q \in Requests \ {r} PROVE NamesExist(q)'
    BY <1>1, <1>3, ReadsLeaveOthers, NamesStay DEF NothingMissing, Catalogue, Exists
  <1>4. NamesExist(r)'
    <2>1. ASSUME NEW a \in Asks, Begin(r, a) PROVE NamesExist(r)'
      <3>1. pc'[r] = Start(a) /\ ask'[r] = a /\ Found(a)
        BY <2>1 DEF Begin, Goto, TypeOK, Handlers
      <3>2. a.kind = "model" => a.id \in Models
        BY AskKinds DEF ModelAsks
      <3>3. StageFits(r)'
        BY <3>1, AskKinds DEF StageFits, Start, ProviderStart, ModelStart, RouteStart
      <3>4. model' = model /\ provider' = provider
        BY <1>1 DEF Catalogue
      <3>5. a.kind = "newModel" => Start(a) # "write"
        BY DEF Start
      <3>6. a.kind = "model" =>
              /\ Exists(a.id)
              /\ (Start(a) \in {"count", "write"} /\ a.of # Keep) => provider[a.of] # "absent"
        BY <3>1, <3>2 DEF Start, ModelStart, Found, Exists, NothingMissing, RowsExist
      <3>7. /\ a.kind = "newRoute" => Start(a) = "primary"
            /\ a.kind = "route" /\ Start(a) = "write"
                 => TargetStatus(a, route[a.id]) # "active"
            /\ a.kind = "route" => Start(a) # "fallback" /\ seen'[r] = route[a.id]
        BY <2>1 DEF Start, RouteStart, Begin, TypeOK
      <3> QED
        BY <3>1, <3>3, <3>4, <3>5, <3>6, <3>7 DEF NamesExist, Exists, TargetStatus
    <2>2. CASE End(r)
      BY <2>2, EndIsIdle, IdleNamesExist
    <2>3. CASE Find(r)
      BY <2>3 DEF Find, Goto, TypeOK, Handlers, NothingMissing, NamesExist, StageFits, Exists
    <2>4. CASE /\ CheckProvider(r) \/ Count(r) \/ CheckPrimary(r) \/ CheckFallback(r)
               /\ ~End(r)
      <3> DEFINE l == pc'[r]
      <3>1. /\ ask' = ask /\ seen' = seen
        BY <2>4 DEF CheckProvider, Count, CheckPrimary, CheckFallback, GoOn
      <3>2. \/ /\ pc[r] = "provider" /\ l \in {"count", "write"}
               /\ provider[ask[r].of] # "absent"
               /\ l = "count" => ask[r].kind = "model"
            \/ pc[r] = "count" /\ l = "write"
            \/ /\ pc[r] = "primary" /\ l \in {"fallback", "write", "find"}
               /\ Exists(Primary(r))
               /\ l = "write" => ask[r].kind = "route"
               /\ l = "find" => ask[r].kind # "route"
            \/ /\ pc[r] = "fallback" /\ l \in {"write", "find"}
               /\ l = "write" => ask[r].kind = "route"
               /\ l = "find" => ask[r].kind # "route"
        BY <2>4 DEF CheckProvider, Count, CheckPrimary, CheckFallback, GoOn, Goto, Checked,
                    TypeOK, Handlers, IsActive, Exists
      <3>3. NamesExist(r) /\ model' = model /\ provider' = provider
        BY <1>1 DEF NothingMissing, Catalogue
      <3>4. ask[r].kind = "newRoute" => Primary(r) = ask[r].primary
        <4>1. ask[r] \in Asks
          BY DEF TypeOK
        <4> QED
          BY <4>1, AskKinds, RoutingAssumption DEF NewRouteAsks, Primary
      <3>5. StageFits(r)'
        BY <3>1, <3>2, <3>3 DEF NamesExist, StageFits
      <3> QED
        BY <3>1, <3>2, <3>3, <3>4, <3>5
           DEF NamesExist, StageFits, Exists, TargetStatus, Primary
    <2> QED
      BY <2>1, <2>2, <2>3, <2>4 DEF Reads, Fail
  <1> QED
    BY <1>2, <1>3, <1>4 DEF NothingMissing

(* What a write does to the catalogue, by the kind of its request.         *)
LEMMA Effects ==
  ASSUME TypeOK, NEW r \in Requests, Write(r)
  PROVE  /\ pc[r] = "write"
         /\ \/ /\ ask[r] \in NewProviderAsks /\ ask[r].kind = "newProvider"
               /\ provider[ask[r].id] = "absent"
               /\ provider' = [provider EXCEPT ![ask[r].id] = ask[r].status]
               /\ model' = model /\ route' = route
            \/ /\ ask[r] \in ProviderAsks /\ ask[r].kind = "provider"
               /\ provider' = IF ask[r].status = Keep THEN provider
                              ELSE [provider EXCEPT ![ask[r].id] = ask[r].status]
               /\ model' = model /\ route' = route
            \/ ask[r] \in NewModelAsks /\ WriteNewModel(r)
            \/ ask[r] \in ModelAsks /\ WriteModel(r)
            \/ ask[r] \in NewRouteAsks /\ UpdateFound(r)
            \/ ask[r] \in NewRouteAsks /\ \E x \in Routes : CreateRoute(r, x)
            \/ ask[r] \in RouteAsks /\ WriteRoute(r)
  <1>1. ask[r] \in Asks
    BY DEF TypeOK
  <1>2. CASE WriteProvider(r)
    <2>1. Keep \notin Statuses
      BY RoutingAssumption
    <2> QED
      BY <1>1, <1>2, <2>1, AskKinds DEF WriteProvider, Done, NewProviderAsks
  <1>3. CASE WriteNewModel(r) \/ WriteModel(r) \/ UpdateFound(r)
             \/ (\E x \in Routes : CreateRoute(r, x)) \/ WriteRoute(r)
    BY <1>1, <1>3, AskKinds
       DEF WriteNewModel, WriteModel, UpdateFound, CreateRoute, WriteRoute, Done
  <1> QED
    BY <1>2, <1>3 DEF Write

LEMMA WriteKeeps ==
  ASSUME TypeOK, NEW r \in Requests, Write(r)
  PROVE  /\ \A p \in Providers : provider[p] # "absent" => provider'[p] # "absent"
         /\ \A m \in Models : Exists(m) => Exists(m)'
  <1>1. Keep \notin Statuses /\ "absent" \notin Statuses
    BY RoutingAssumption DEF Statuses
  <1>2. CASE model' = model
    BY <1>1, <1>2, Effects DEF TypeOK, NewProviderAsks, ProviderAsks, Exists,
       UpdateFound, CreateRoute, WriteRoute, WriteNewModel, WriteModel
  <1>3. CASE WriteNewModel(r) /\ ask[r] \in NewModelAsks
    BY <1>1, <1>3 DEF WriteNewModel, TypeOK, Exists, NewModelAsks
  <1>4. CASE WriteModel(r) /\ ask[r] \in ModelAsks
    BY <1>1, <1>4 DEF WriteModel, TypeOK, Exists, ModelAsks
  <1> QED
    BY <1>2, <1>3, <1>4, Effects DEF UpdateFound, CreateRoute, WriteRoute

(* A route that a write makes active names an existing model.              *)
LEMMA RowsExistWrite ==
  ASSUME TypeOK, NothingMissing, NEW r \in Requests, Write(r)
  PROVE  RowsExist'
  <1>1. /\ \A p \in Providers : provider[p] # "absent" => provider'[p] # "absent"
        /\ \A m \in Models : Exists(m) => Exists(m)'
    BY WriteKeeps
  <1>2. pc[r] = "write" /\ NamesExist(r) /\ RowsExist
    BY Effects DEF NothingMissing
  <1>3. \A m \in Models : Exists(m)' => provider'[model'[m].of] # "absent"
    <2>1. \A m \in Models : model[m].of \in Providers
      BY DEF TypeOK, ModelRow
    <2>2. CASE model' = model
      BY <1>1, <1>2, <2>1, <2>2 DEF RowsExist, Exists
    <2>3. CASE ask[r] \in NewModelAsks /\ WriteNewModel(r)
      <3>1. provider' = provider /\ provider[ask[r].of] # "absent"
        BY <1>2, <2>3 DEF WriteNewModel, NamesExist
      <3> QED
        BY <1>2, <2>3, <3>1 DEF WriteNewModel, RowsExist, Exists, TypeOK
    <2>4. CASE ask[r] \in ModelAsks /\ WriteModel(r)
      <3>1. provider' = provider /\ Exists(ask[r].id)
            /\ (ask[r].of # Keep => provider[ask[r].of] # "absent")
        BY <1>2, <2>4 DEF WriteModel, NamesExist
      <3> QED
        BY <1>2, <2>4, <3>1 DEF WriteModel, RowsExist, Exists, TypeOK
    <2> QED
      BY <2>2, <2>3, <2>4, Effects DEF UpdateFound, CreateRoute, WriteRoute
  <1>4. ASSUME NEW x \in Routes, route'[x].status = "active"
        PROVE  model'[route'[x].primary].status # "absent"
    <2>1. \A y \in Routes : route[y].primary \in Models
      BY DEF TypeOK, RouteRow
    <2>2. CASE route'[x] = route[x]
      BY <1>1, <1>2, <1>4, <2>1, <2>2 DEF RowsExist, Exists
    <2>3. CASE ask[r] \in NewRouteAsks /\ UpdateFound(r) /\ route'[x] # route[x]
      <3>1. x = row[r] /\ route'[x] = Updated(route[x], ask[r]) /\ route[x] \in RouteRow
        BY <2>3 DEF UpdateFound, TypeOK
      <3>2. route'[x].primary = ask[r].primary /\ ask[r].primary \in Models
        BY <2>3, <3>1 DEF Updated, RouteRow, NewRouteAsks
      <3> QED
        BY <1>1, <1>2, <2>3, <3>2 DEF UpdateFound, NamesExist, Exists
    <2>4. CASE ask[r] \in NewRouteAsks /\ (\E y \in Routes : CreateRoute(r, y))
               /\ route'[x] # route[x]
      <3>1. route'[x].primary = ask[r].primary /\ ask[r].primary \in Models
        BY <2>4 DEF CreateRoute, TypeOK, NewRouteAsks
      <3> QED
        BY <1>1, <1>2, <2>4, <3>1 DEF CreateRoute, NamesExist, Exists
    <2>5. CASE ask[r] \in RouteAsks /\ WriteRoute(r) /\ route'[x] # route[x]
      <3>1. /\ route'[x].primary = Primary(r)
            /\ route'[x].status = TargetStatus(ask[r], seen[r])
        BY <2>5 DEF WriteRoute, TypeOK
      <3>2. Primary(r) \in Models
        BY <2>5, RouteFields DEF WriteRoute
      <3> QED
        BY <1>1, <1>2, <1>4, <2>5, <3>1, <3>2 DEF WriteRoute, NamesExist, Exists
    <2> QED
      BY <2>2, <2>3, <2>4, <2>5, Effects DEF WriteNewModel, WriteModel
  <1> QED
    BY <1>3, <1>4 DEF RowsExist, Exists

LEMMA NamesWrite ==
  ASSUME TypeOK, NothingMissing, NEW r \in Requests, Write(r)
  PROVE  NothingMissing'
  <1>1. Done(r)
    BY DEF Write, WriteProvider, WriteNewModel, WriteModel, UpdateFound, CreateRoute, WriteRoute
  <1>2. \A q \in Requests \ {r} : pc'[q] = pc[q] /\ ask'[q] = ask[q] /\ seen'[q] = seen[q]
    BY <1>1 DEF Done, Leave, Goto, TypeOK, Handlers
  <1>3. pc'[r] = "idle"
    BY <1>1 DEF Done, Leave, Goto, TypeOK, Handlers
  <1> QED
    BY <1>2, <1>3, IdleNamesExist, NamesStay, WriteKeeps, RowsExistWrite DEF NothingMissing

LEMMA NothingMissingStep ==
  TypeOK /\ NothingMissing /\ [Next]_vars => NothingMissing'
  <1> SUFFICES ASSUME TypeOK, NothingMissing, [Next]_vars PROVE NothingMissing'
    OBVIOUS
  <1>1. CASE \E r \in Requests : Reads(r)
    BY <1>1, NamesReads
  <1>2. CASE \E r \in Requests : Write(r)
    BY <1>2, NamesWrite
  <1>3. CASE (\E c \in Calls : CallSteps(c)) \/ UNCHANGED vars
    <2>1. Catalogue' = Catalogue /\ ask' = ask /\ seen' = seen
      BY <1>3 DEF CallSteps, ResolveRoute, ReadModel, ReadProvider, EndCall, Catalogue, vars
    <2>2. \A r \in Requests : pc'[r] = pc[r]
      BY <1>3, RoutingAssumption DEF CallSteps, ResolveRoute, ReadModel, ReadProvider, EndCall,
         Goto, TypeOK, Handlers, vars
    <2> QED
      BY <2>1, <2>2, NamesStay DEF NothingMissing, RowsExist, Exists, Catalogue
  <1> QED
    BY <1>1, <1>2, <1>3, Steps

-----------------------------------------------------------------------------
(* What one write, not overtaken, may not do.                              *)

LEMMA WriteDangles ==
  ASSUME TypeOK, NothingMissing, NEW r \in Requests, Write(r), Fresh(r),
         NEW x \in Routes, Dangling(x)'
  PROVE  Dangling(x)
  <1>1. pc[r] = "write" /\ RowsExist
    BY Effects DEF NothingMissing
  <1>2. route[x] \in RouteRow /\ route[x].primary \in Models
    BY DEF TypeOK, RouteRow
  <1>3. CASE model' = model /\ route' = route
    BY <1>3 DEF Dangling
  <1>4. CASE ask[r] \in NewModelAsks /\ WriteNewModel(r)
    <2>1. route' = route /\ route[x].status = "active" /\ Exists(route[x].primary)
      BY <1>1, <1>4 DEF WriteNewModel, Dangling, RowsExist
    <2> QED
      BY <1>2, <1>4, <2>1 DEF WriteNewModel, Dangling, Exists, TypeOK
  <1>5. CASE ask[r] \in ModelAsks /\ WriteModel(r)
    <2>1. route' = route /\ ask[r].kind = "model"
      BY <1>5 DEF WriteModel
    <2>2. CASE ask[r].status \in Off
      <3>1. ~ModelInUse(ask[r].id)
        BY <1>1, <2>1, <2>2 DEF Fresh, FreshModel
      <3>2. route[x].primary # ask[r].id
        BY <2>1, <3>1 DEF ModelInUse, Dangling
      <3> QED
        BY <1>2, <1>5, <2>1, <3>2 DEF WriteModel, Dangling, TypeOK
    <2>3. CASE ask[r].status \notin Off
      BY <1>2, <1>5, <2>1, <2>3 DEF WriteModel, Dangling, TypeOK
    <2> QED
      BY <2>2, <2>3
  <1>6. CASE ask[r] \in NewRouteAsks /\ UpdateFound(r)
    <2>1. model' = model /\ IsActive(ask[r].primary)
      BY <1>1, <1>6 DEF UpdateFound, Fresh, FreshNewRoute
    <2>2. route'[x] = route[x] \/ route'[x] = Updated(route[x], ask[r])
      BY <1>6 DEF UpdateFound, TypeOK
    <2>3. Updated(route[x], ask[r]).primary = ask[r].primary
      BY <1>2 DEF Updated, RouteRow
    <2> QED
      BY <2>1, <2>2, <2>3 DEF Dangling, IsActive, Off
  <1>7. CASE ask[r] \in NewRouteAsks /\ \E y \in Routes : CreateRoute(r, y)
    <2>1. model' = model /\ IsActive(ask[r].primary)
      BY <1>1, <1>7 DEF CreateRoute, Fresh, FreshNewRoute
    <2>2. route'[x] = route[x] \/ route'[x].primary = ask[r].primary
      BY <1>7 DEF CreateRoute, TypeOK
    <2> QED
      BY <2>1, <2>2 DEF Dangling, IsActive, Off
  <1>8. CASE ask[r] \in RouteAsks /\ WriteRoute(r)
    <2>1. model' = model /\ (TargetStatus(ask[r], seen[r]) = "active" => IsActive(Primary(r)))
      BY <1>1, <1>8 DEF WriteRoute, Fresh, FreshRoute
    <2>2. \/ route'[x] = route[x]
          \/ /\ route'[x].primary = Primary(r)
             /\ route'[x].status = TargetStatus(ask[r], seen[r])
      BY <1>8 DEF WriteRoute, TypeOK
    <2> QED
      BY <2>1, <2>2 DEF Dangling, IsActive, Off
  <1> QED
    BY <1>3, <1>4, <1>5, <1>6, <1>7, <1>8, Effects

LEMMA WriteOrphans ==
  ASSUME TypeOK, NothingMissing, NEW r \in Requests, Write(r), Fresh(r),
         NEW m \in Models, Orphan(m)', ~Orphan(m)
  PROVE  ask[r].kind = "model" /\ ask[r].id = m /\ model[m].status \in Off
  <1>1. pc[r] = "write" /\ RowsExist /\ NamesExist(r)
    BY Effects DEF NothingMissing
  <1>2. model[m].of \in Providers /\ model[m].status \in Statuses \cup {"absent"}
    BY DEF TypeOK, ModelRow
  <1>3. CASE /\ ask[r] \in NewProviderAsks /\ provider[ask[r].id] = "absent"
             /\ provider' = [provider EXCEPT ![ask[r].id] = ask[r].status]
             /\ model' = model
    <2>1. Exists(m)
      BY <1>3 DEF Orphan, Exists
    <2>2. provider[model[m].of] # "absent"
      BY <1>1, <2>1 DEF RowsExist
    <2> QED
      BY <1>2, <1>3, <2>2 DEF Orphan, TypeOK
  <1>4. CASE /\ ask[r] \in ProviderAsks /\ ask[r].kind = "provider"
             /\ provider' = IF ask[r].status = Keep THEN provider
                            ELSE [provider EXCEPT ![ask[r].id] = ask[r].status]
             /\ model' = model
    <2>1. provider' # provider
      BY <1>4 DEF Orphan
    <2>2. provider' = [provider EXCEPT ![ask[r].id] = ask[r].status]
      BY <1>4, <2>1
    <2>3. model[m].of = ask[r].id /\ ask[r].status \in Off
      BY <1>2, <1>4, <2>2 DEF Orphan, TypeOK
    <2>4. ~ProviderInUse(ask[r].id)
      BY <1>1, <1>4, <2>3 DEF Fresh, FreshProvider
    <2> QED
      BY <1>4, <2>3, <2>4 DEF ProviderInUse, Orphan
  <1>5. CASE ask[r] \in NewModelAsks /\ WriteNewModel(r)
    <2>1. provider' = provider /\ provider[ask[r].of] = "active"
      BY <1>1, <1>5 DEF WriteNewModel, Fresh, FreshModel
    <2>2. model'[m] = model[m] \/ model'[m].of = ask[r].of
      BY <1>5 DEF WriteNewModel, TypeOK
    <2> QED
      BY <2>1, <2>2 DEF Orphan, Off
  <1>6. CASE ask[r] \in ModelAsks /\ WriteModel(r)
    <2>1. provider' = provider /\ ask[r].kind = "model" /\ Exists(ask[r].id)
      BY <1>1, <1>6 DEF WriteModel, NamesExist
    <2>2. ask[r].of # Keep => ask[r].of = model[ask[r].id].of \/ provider[ask[r].of] = "active"
      BY <1>1, <2>1 DEF Fresh, FreshModel
    <2>3. m = ask[r].id
      BY <1>6, <2>1 DEF WriteModel, Orphan, TypeOK
    <2>4. /\ model'[m].of = IF ask[r].of = Keep THEN model[m].of ELSE ask[r].of
          /\ provider[model'[m].of] \in Off
      BY <1>6, <2>1, <2>3 DEF WriteModel, Orphan, TypeOK
    <2>5. model'[m].of = model[m].of
      BY <2>2, <2>3, <2>4 DEF Off
    <2>6. model[m].status \notin {"active", "inactive"} /\ model[m].status # "absent"
      BY <2>1, <2>3, <2>4, <2>5 DEF Orphan, Exists
    <2> QED
      BY <1>2, <2>1, <2>3, <2>6 DEF Off, Statuses
  <1>7. CASE provider' = provider /\ model' = model
    BY <1>7 DEF Orphan
  <1> QED
    BY <1>3, <1>4, <1>5, <1>6, <1>7, Effects DEF UpdateFound, CreateRoute, WriteRoute

LEMMA WriteTwins ==
  ASSUME TypeOK, NEW r \in Requests, Write(r), Fresh(r),
         NEW s \in Scopes, Twins(s)', ~Twins(s)
  PROVE  ask[r].kind = "route" /\ MovedScope(r) = s
  <1>1. pc[r] = "write" /\ ask[r] \in Asks
    BY Effects DEF TypeOK
  <1>2. CASE route' = route
    BY <1>2 DEF Twins, InScope
  <1>3. CASE ask[r] \in NewRouteAsks /\ UpdateFound(r)
    <2>1. row[r] \in Routes /\ route[row[r]].status # "absent" /\ ask[r].kind = "newRoute"
      BY <1>1, <1>3 DEF UpdateFound, Fresh, FreshNewRoute, InScope
    <2>2. Updated(route[row[r]], ask[r]).scope = route[row[r]].scope
      BY <2>1 DEF Updated, TypeOK, RouteRow
    <2>3. \A x \in Routes : route'[x].scope = route[x].scope
                            /\ (route[x].status = "absent" => route'[x].status = "absent")
      BY <1>3, <2>1, <2>2 DEF UpdateFound, TypeOK
    <2> QED
      BY <2>3 DEF Twins, InScope
  <1>4. ASSUME ask[r] \in NewRouteAsks, NEW x \in Routes, CreateRoute(r, x)
        PROVE  FALSE
    <2>1. InScope(NewScope(ask[r])) = {}
      BY <1>1, <1>4 DEF CreateRoute, Fresh, FreshNewRoute
    <2>2. /\ route'[x].scope = NewScope(ask[r])
          /\ \A y \in Routes \ {x} : route'[y] = route[y]
      BY <1>4 DEF CreateRoute, TypeOK
    <2>3. PICK y, z \in Routes : /\ y # z
                                 /\ route'[y].status # "absent" /\ route'[y].scope = s
                                 /\ route'[z].status # "absent" /\ route'[z].scope = s
      BY DEF Twins, InScope
    <2> QED
      BY <2>1, <2>2, <2>3 DEF InScope, Twins
  <1>5. CASE ask[r] \in RouteAsks /\ WriteRoute(r)
    <2>1. row[r] = ask[r].id /\ row[r] \in Routes
      BY <1>1, <1>5 DEF WriteRoute, Fresh, FreshRoute, RouteAsks
    <2>2. /\ route'[row[r]].scope = MovedScope(r)
          /\ \A y \in Routes \ {row[r]} : route'[y] = route[y]
      BY <1>5, <2>1 DEF WriteRoute, TypeOK
    <2>3. PICK y, z \in Routes : /\ y # z
                                 /\ route'[y].status # "absent" /\ route'[y].scope = s
                                 /\ route'[z].status # "absent" /\ route'[z].scope = s
      BY DEF Twins, InScope
    <2>4. ~(y \in InScope(s) /\ z \in InScope(s))
      BY <2>3 DEF Twins
    <2>5. route'[row[r]].scope = s
      BY <2>2, <2>3, <2>4 DEF InScope
    <2> QED
      BY <1>5, <2>2, <2>5 DEF WriteRoute
  <1> QED
    BY <1>2, <1>3, <1>4, <1>5, Effects DEF WriteNewModel, WriteModel

LEMMA WriteStaleFallback ==
  ASSUME TypeOK, NEW r \in Requests, Write(r), Fresh(r),
         NEW x \in Routes, StaleFallback(x)', ~StaleFallback(x)
  PROVE  ask[r].kind = "newRoute" /\ ask[r].fallback = Keep /\ row[r] = x
  <1>1. pc[r] = "write"
    BY Effects
  <1>2. route[x] \in RouteRow /\ "absent" \notin Statuses /\ Keep \notin Statuses
    BY RoutingAssumption DEF TypeOK, Statuses
  <1>3. CASE model' = model /\ route' = route
    BY <1>3 DEF StaleFallback
  <1>4. CASE ask[r] \in NewModelAsks /\ WriteNewModel(r)
    BY <1>2, <1>4 DEF WriteNewModel, StaleFallback, TypeOK, RouteRow, NewModelAsks
  <1>5. CASE ask[r] \in ModelAsks /\ WriteModel(r)
    <2>1. route' = route /\ ask[r].kind = "model" /\ route[x].fallback \in Models
      BY <1>2, <1>5 DEF WriteModel, StaleFallback, RouteRow
    <2>2. CASE ask[r].status \in Off
      <3>1. ~ModelInUse(ask[r].id)
        BY <1>1, <2>1, <2>2 DEF Fresh, FreshModel
      <3>2. route[x].fallback # ask[r].id
        BY <2>1, <3>1 DEF ModelInUse, StaleFallback
      <3> QED
        BY <1>5, <2>1, <3>2 DEF WriteModel, StaleFallback, TypeOK
    <2>3. CASE ask[r].status \notin Off
      BY <1>2, <1>5, <2>1, <2>3 DEF WriteModel, StaleFallback, TypeOK, ModelAsks
    <2> QED
      BY <2>2, <2>3
  <1>6. CASE ask[r] \in NewRouteAsks /\ UpdateFound(r)
    <2>1. /\ model' = model /\ ask[r].kind = "newRoute"
          /\ Fallback(r) = NoModel \/ IsActive(Fallback(r))
      BY <1>1, <1>6 DEF UpdateFound, Fresh, FreshFallback
    <2>2. route'[x] = route[x] \/ (row[r] = x /\ route'[x] = Updated(route[x], ask[r]))
      BY <1>6 DEF UpdateFound, TypeOK
    <2>3. ask[r].fallback # Keep => Updated(route[x], ask[r]).fallback = Fallback(r)
      BY <1>2 DEF Updated, RouteRow, Fallback
    <2> QED
      BY <2>1, <2>2, <2>3 DEF StaleFallback, IsActive, Off
  <1>7. CASE ask[r] \in NewRouteAsks /\ \E y \in Routes : CreateRoute(r, y)
    <2>1. model' = model /\ (Fallback(r) = NoModel \/ IsActive(Fallback(r)))
      BY <1>1, <1>7 DEF CreateRoute, Fresh, FreshFallback
    <2>2. route'[x] = route[x] \/ route'[x].fallback = Fallback(r)
      BY <1>7 DEF CreateRoute, TypeOK
    <2> QED
      BY <2>1, <2>2 DEF StaleFallback, IsActive, Off
  <1>8. CASE ask[r] \in RouteAsks /\ WriteRoute(r)
    <2>1. /\ model' = model
          /\ TargetStatus(ask[r], seen[r]) = "active"
               => Fallback(r) = NoModel \/ IsActive(Fallback(r))
      BY <1>1, <1>8 DEF WriteRoute, Fresh, FreshFallback
    <2>2. \/ route'[x] = route[x]
          \/ /\ route'[x].fallback = Fallback(r)
             /\ route'[x].status = TargetStatus(ask[r], seen[r])
      BY <1>8 DEF WriteRoute, TypeOK
    <2> QED
      BY <2>1, <2>2 DEF StaleFallback, IsActive, Off
  <1> QED
    BY <1>3, <1>4, <1>5, <1>6, <1>7, <1>8, Effects

(* An active route never comes to name a disabled model unless requests    *)
(* overlapped.                                                             *)
THEOREM NoDangling == Spec => DanglingOnlyByRace
  <1> DEFINE Dangles ==
        \A x \in Routes :
          Dangling(x)' /\ ~Dangling(x) => \E r \in Requests : Ends(r) /\ overtaken[r]
  <1>1. TypeOK /\ ChecksHold /\ NothingMissing /\ [Next]_vars => [Dangles]_vars
    <2> SUFFICES ASSUME TypeOK, ChecksHold, NothingMissing, [Next]_vars,
                        NEW x \in Routes, Dangling(x)', ~Dangling(x)
                 PROVE  \E r \in Requests : Ends(r) /\ overtaken[r]
      OBVIOUS
    <2>1. CASE \E r \in Requests : Write(r)
      BY <2>1, WriteEnds, WriteDangles
    <2>2. CASE ~\E r \in Requests : Write(r)
      BY <2>2, NoWriteNoChange DEF Catalogue, Dangling
    <2> QED
      BY <2>1, <2>2
  <1> QED
    BY <1>1, TypeInit, TypeStep, ChecksInit, ChecksStep, NothingMissingInit,
       NothingMissingStep, PTL DEF Spec, DanglingOnlyByRace

(* A model in use never comes to belong to a disabled provider unless      *)
(* requests overlapped or the model was activated again.                   *)
THEOREM NoOrphans == Spec => OrphanOnlyByRace
  <1> DEFINE Orphans ==
        \A m \in Models :
          Orphan(m)' /\ ~Orphan(m) =>
            \E r \in Requests :
              /\ Ends(r)
              /\ \/ overtaken[r]
                 \/ ask[r].kind = "model" /\ ask[r].id = m /\ model[m].status \in Off
  <1>1. TypeOK /\ ChecksHold /\ NothingMissing /\ [Next]_vars => [Orphans]_vars
    <2> SUFFICES ASSUME TypeOK, ChecksHold, NothingMissing, [Next]_vars,
                        NEW m \in Models, Orphan(m)', ~Orphan(m)
                 PROVE  \E r \in Requests :
                          /\ Ends(r)
                          /\ \/ overtaken[r]
                             \/ ask[r].kind = "model" /\ ask[r].id = m /\ model[m].status \in Off
      OBVIOUS
    <2>1. CASE \E r \in Requests : Write(r)
      BY <2>1, WriteEnds, WriteOrphans
    <2>2. CASE ~\E r \in Requests : Write(r)
      BY <2>2, NoWriteNoChange DEF Catalogue, Orphan
    <2> QED
      BY <2>1, <2>2
  <1> QED
    BY <1>1, TypeInit, TypeStep, ChecksInit, ChecksStep, NothingMissingInit,
       NothingMissingStep, PTL DEF Spec, OrphanOnlyByRace

(* Two routes for one scope come only from overlapping requests or a move. *)
THEOREM NoTwins == Spec => TwinsOnlyByRace
  <1> DEFINE Twinned ==
        \A s \in Scopes :
          Twins(s)' /\ ~Twins(s) =>
            \E r \in Requests :
              Ends(r) /\ (overtaken[r] \/ (ask[r].kind = "route" /\ MovedScope(r) = s))
  <1>1. TypeOK /\ ChecksHold /\ [Next]_vars => [Twinned]_vars
    <2> SUFFICES ASSUME TypeOK, ChecksHold, [Next]_vars,
                        NEW s \in Scopes, Twins(s)', ~Twins(s)
                 PROVE  \E r \in Requests :
                          /\ Ends(r)
                          /\ overtaken[r] \/ (ask[r].kind = "route" /\ MovedScope(r) = s)
      OBVIOUS
    <2>1. CASE \E r \in Requests : Write(r)
      BY <2>1, WriteEnds, WriteTwins
    <2>2. CASE ~\E r \in Requests : Write(r)
      BY <2>2, NoWriteNoChange DEF Catalogue, Twins, InScope
    <2> QED
      BY <2>1, <2>2
  <1> QED
    BY <1>1, TypeInit, TypeStep, ChecksInit, ChecksStep, PTL DEF Spec, TwinsOnlyByRace

(* A fallback model that is not active is named by an active route only    *)
(* after a race, or because createRoute kept it.                           *)
THEOREM NoStaleFallback == Spec => StaleFallbackOnlyByRace
  <1> DEFINE Stale ==
        \A x \in Routes :
          StaleFallback(x)' /\ ~StaleFallback(x) =>
            \E r \in Requests :
              /\ Ends(r)
              /\ \/ overtaken[r]
                 \/ ask[r].kind = "newRoute" /\ ask[r].fallback = Keep /\ row[r] = x
  <1>1. TypeOK /\ ChecksHold /\ [Next]_vars => [Stale]_vars
    <2> SUFFICES ASSUME TypeOK, ChecksHold, [Next]_vars,
                        NEW x \in Routes, StaleFallback(x)', ~StaleFallback(x)
                 PROVE  \E r \in Requests :
                          /\ Ends(r)
                          /\ \/ overtaken[r]
                             \/ ask[r].kind = "newRoute" /\ ask[r].fallback = Keep /\ row[r] = x
      OBVIOUS
    <2>1. CASE \E r \in Requests : Write(r)
      BY <2>1, WriteEnds, WriteStaleFallback
    <2>2. CASE ~\E r \in Requests : Write(r)
      BY <2>2, NoWriteNoChange DEF Catalogue, StaleFallback
    <2> QED
      BY <2>1, <2>2
  <1> QED
    BY <1>1, TypeInit, TypeStep, ChecksInit, ChecksStep, PTL DEF Spec, StaleFallbackOnlyByRace

(* The catalogue is damaged by races only, or in the three ways the        *)
(* property names.                                                         *)
THEOREM NoDamage == Spec => DamageOnlyByRace
  BY NoDangling, NoOrphans, NoTwins, NoStaleFallback, PTL DEF DamageOnlyByRace

-----------------------------------------------------------------------------
(* Requests nobody overtook take effect at once: the refinement of         *)
(* AtomicCatalogue.                                                        *)

(* The row a request found goes on existing, overtaken or not.             *)
RowStays(r) ==
  pc[r] # "idle" =>
    /\ ask[r].kind = "provider" => provider[ask[r].id] # "absent"
    /\ ask[r].kind = "route" =>
         row[r] = ask[r].id /\ route[row[r]].status # "absent" /\ seen[r].status # "absent"

RowsStay == \A r \in Requests : RowStays(r)

LEMMA RowsStayInit == Init => RowsStay
  BY DEF Init, RowsStay, RowStays, Handlers

(* No write removes a route.                                               *)
LEMMA WriteKeepsRoutes ==
  ASSUME TypeOK, RowsStay, NEW r \in Requests, Write(r),
         NEW x \in Routes, route[x].status # "absent"
  PROVE  route'[x].status # "absent"
  <1>1. "absent" \notin Statuses /\ route[x] \in RouteRow /\ pc[r] = "write"
    BY Effects DEF TypeOK, Statuses
  <1>2. CASE route' = route
    BY <1>2
  <1>3. CASE ask[r] \in NewRouteAsks /\ UpdateFound(r)
    <2>1. route'[x] = route[x] \/ route'[x] = Updated(route[x], ask[r])
      BY <1>3 DEF UpdateFound, TypeOK
    <2>2. Updated(route[x], ask[r]).status \in Statuses
      BY <1>1, <1>3 DEF Updated, RouteRow, NewRouteAsks
    <2> QED
      BY <1>1, <2>1, <2>2
  <1>4. CASE ask[r] \in NewRouteAsks /\ \E y \in Routes : CreateRoute(r, y)
    BY <1>1, <1>4 DEF CreateRoute, TypeOK, NewRouteAsks
  <1>5. CASE ask[r] \in RouteAsks /\ WriteRoute(r)
    <2>1. TargetStatus(ask[r], seen[r]) # "absent"
      BY <1>1, <1>5 DEF WriteRoute, RowsStay, RowStays, TargetStatus, RouteAsks
    <2>2. route'[x] = route[x] \/ route'[x].status = TargetStatus(ask[r], seen[r])
      BY <1>5 DEF WriteRoute, TypeOK
    <2> QED
      BY <2>1, <2>2
  <1> QED
    BY <1>2, <1>3, <1>4, <1>5, Effects DEF WriteNewModel, WriteModel

(* A request keeps its row as long as nobody removes any.                  *)
LEMMA RowStaysPut ==
  ASSUME TypeOK, NEW r \in Requests, RowStays(r),
         pc'[r] = pc[r], ask'[r] = ask[r], row'[r] = row[r], seen'[r] = seen[r],
         \A p \in Providers : provider[p] # "absent" => provider'[p] # "absent",
         \A x \in Routes : route[x].status # "absent" => route'[x].status # "absent"
  PROVE  RowStays(r)'
  <1>1. ask[r] \in Asks
    BY DEF TypeOK
  <1>2. /\ ask[r].kind = "provider" => ask[r].id \in Providers
        /\ ask[r].kind = "route" => ask[r].id \in Routes
    BY <1>1, AskKinds DEF ProviderAsks, RouteAsks
  <1> QED
    BY <1>2 DEF RowStays

LEMMA RowsStayReads ==
  ASSUME TypeOK, NothingMissing, RowsStay, NEW r \in Requests, Reads(r)
  PROVE  RowsStay'
  <1>1. provider' = provider /\ route' = route
    BY ReadsLeaveOthers DEF Catalogue
  <1>2. ASSUME NEW q \in Requests \ {r} PROVE RowStays(q)'
    BY <1>1, ReadsLeaveOthers, RowStaysPut DEF RowsStay
  <1>3. RowStays(r)'
    <2>1. ASSUME NEW a \in Asks, Begin(r, a) PROVE RowStays(r)'
      <3>1. /\ ask'[r] = a /\ Found(a)
            /\ a.kind = "route" => row'[r] = a.id /\ seen'[r] = route[a.id]
        BY <2>1 DEF Begin, TypeOK
      <3>2. /\ a.kind = "provider" => provider[a.id] # "absent"
            /\ a.kind = "route" => route[a.id].status # "absent"
        BY <3>1 DEF Found
      <3> QED
        BY <1>1, <3>1, <3>2 DEF RowStays
    <2>2. CASE End(r)
      BY <2>2, EndIsIdle DEF RowStays
    <2>3. CASE Find(r)
      <3>1. ask[r].kind = "newRoute" /\ ask'[r] = ask[r]
        BY <2>3 DEF Find, NothingMissing, NamesExist, StageFits
      <3> QED
        BY <3>1 DEF RowStays
    <2>4. CASE \E l \in Stages : GoOn(r, l) /\ pc[r] # "idle"
      BY <1>1, <2>4 DEF GoOn, Goto, RowsStay, RowStays
    <2> QED
      BY <2>1, <2>2, <2>3, <2>4
         DEF Reads, CheckProvider, Count, CheckPrimary, CheckFallback, Fail, Checked, Stages
  <1> QED
    BY <1>2, <1>3 DEF RowsStay

LEMMA RowsStayStep ==
  TypeOK /\ NothingMissing /\ RowsStay /\ [Next]_vars => RowsStay'
  <1> SUFFICES ASSUME TypeOK, NothingMissing, RowsStay, [Next]_vars PROVE RowsStay'
    OBVIOUS
  <1>1. CASE \E r \in Requests : Reads(r)
    BY <1>1, RowsStayReads
  <1>2. ASSUME NEW r \in Requests, Write(r) PROVE RowsStay'
    <2>1. Done(r)
      BY <1>2 DEF Write, WriteProvider, WriteNewModel, WriteModel, UpdateFound, CreateRoute,
                  WriteRoute
    <2>2. /\ pc'[r] = "idle"
          /\ \A q \in Requests \ {r} :
               pc'[q] = pc[q] /\ ask'[q] = ask[q] /\ row'[q] = row[q] /\ seen'[q] = seen[q]
      BY <2>1 DEF Done, Leave, Goto, TypeOK, Handlers
    <2>3. RowStays(r)'
      BY <2>2 DEF RowStays
    <2>4. ASSUME NEW q \in Requests \ {r} PROVE RowStays(q)'
      BY <1>2, <2>2, RowStaysPut, WriteKeeps, WriteKeepsRoutes DEF RowsStay
    <2> QED
      BY <2>3, <2>4 DEF RowsStay
  <1>3. CASE (\E c \in Calls : CallSteps(c)) \/ UNCHANGED vars
    <2>1. /\ provider' = provider /\ route' = route
          /\ ask' = ask /\ row' = row /\ seen' = seen
      BY <1>3 DEF CallSteps, ResolveRoute, ReadModel, ReadProvider, EndCall, vars
    <2>2. \A r \in Requests : pc'[r] = pc[r]
      BY <1>3, RoutingAssumption DEF CallSteps, ResolveRoute, ReadModel, ReadProvider, EndCall,
         Goto, TypeOK, Handlers, vars
    <2> QED
      BY <2>1, <2>2, RowStaysPut DEF RowsStay
  <1> QED
    BY <1>1, <1>2, <1>3, Steps

(* The write of a request that is not overtaken is its atomic request.     *)
LEMMA ProvidersAtOnce ==
  ASSUME TypeOK, RowsStay, NEW r \in Requests, Write(r), Fresh(r), WriteProvider(r)
  PROVE  Atomic!NewProvider(ask[r]) \/ Atomic!ChangeProvider(ask[r])
  <1>1. ask[r] \in Asks /\ pc[r] = "write" /\ Keep \notin Statuses
    BY Effects, RoutingAssumption DEF TypeOK
  <1>2. CASE ask[r].kind = "newProvider"
    <2>1. ask[r].status # Keep
      BY <1>1, <1>2, AskKinds DEF NewProviderAsks
    <2> QED
      BY <1>2, <2>1 DEF WriteProvider, Atomic!NewProvider
  <1>3. CASE ask[r].kind = "provider"
    <2>1. provider[ask[r].id] # "absent"
      BY <1>1, <1>3 DEF RowsStay, RowStays
    <2>2. ask[r].status \in Off => ~ProviderInUse(ask[r].id)
      BY <1>1, <1>3 DEF Fresh, FreshProvider
    <2>3. provider' = [provider EXCEPT ![ask[r].id] = Atomic!Or(ask[r].status, @)]
      BY <1>3 DEF WriteProvider, TypeOK, Atomic!Or
    <2> QED
      BY <1>3, <2>1, <2>2, <2>3
         DEF WriteProvider, Atomic!ChangeProvider, Atomic!Off, Off, ProviderInUse
  <1> QED
    BY <1>2, <1>3 DEF WriteProvider

LEMMA ModelsAtOnce ==
  ASSUME TypeOK, NothingMissing, NEW r \in Requests, Write(r), Fresh(r),
         WriteNewModel(r) \/ WriteModel(r)
  PROVE  Atomic!NewModel(ask[r]) \/ Atomic!ChangeModel(ask[r])
  <1>1. pc[r] = "write"
    BY Effects
  <1>2. CASE WriteNewModel(r)
    BY <1>1, <1>2 DEF WriteNewModel, Fresh, FreshModel, Atomic!NewModel
  <1>3. CASE WriteModel(r)
    <2>1. Exists(ask[r].id)
      BY <1>1, <1>3 DEF WriteModel, NothingMissing, NamesExist
    <2>2. /\ ask[r].of # Keep => ask[r].of = model[ask[r].id].of \/ provider[ask[r].of] = "active"
          /\ ask[r].status \in Off => ~ModelInUse(ask[r].id)
      BY <1>1, <1>3 DEF WriteModel, Fresh, FreshModel
    <2> QED
      BY <1>3, <2>1, <2>2
         DEF WriteModel, Atomic!ChangeModel, Atomic!Off, Off, Atomic!Or, ModelInUse, Exists
  <1> QED
    BY <1>2, <1>3

LEMMA NewRoutesAtOnce ==
  ASSUME TypeOK, NEW r \in Requests, Write(r), Fresh(r),
         UpdateFound(r) \/ \E x \in Routes : CreateRoute(r, x)
  PROVE  \E x \in Routes : Atomic!SetRoute(ask[r], x)
  <1>1. /\ pc[r] = "write" /\ ask[r] \in Asks /\ ask[r].kind = "newRoute"
        /\ NoRoute \notin Routes /\ row[r] \in Routes \cup {NoRoute}
    BY Effects, RoutingAssumption DEF TypeOK, UpdateFound, CreateRoute
  <1>2. IsActive(ask[r].primary) /\ (Fallback(r) = NoModel \/ IsActive(Fallback(r)))
    BY <1>1 DEF Fresh, FreshNewRoute, FreshFallback
  <1>3. ask[r].fallback \notin {NoModel, Keep} => IsActive(ask[r].fallback)
    BY <1>2 DEF Fallback
  <1> DEFINE s == NewScope(ask[r])
  <1>4. InScope(s) = Atomic!InScope(s)
    BY DEF InScope, Atomic!InScope
  <1>5. CASE UpdateFound(r)
    <2>1. row[r] \in InScope(s)
      BY <1>1, <1>5 DEF UpdateFound, Fresh, FreshNewRoute
    <2>2. row[r] \in Routes /\ route[row[r]] \in RouteRow /\ route[row[r]].scope = s
      BY <2>1 DEF InScope, TypeOK
    <2>3. Updated(route[row[r]], ask[r]) =
            [status   |-> ask[r].status, scope |-> s, primary |-> ask[r].primary,
             fallback |-> Atomic!Or(ask[r].fallback, route[row[r]].fallback)]
      <3> DEFINE new == Updated(route[row[r]], ask[r])
      <3>1. ask[r] \in NewRouteAsks
        BY <1>1, AskKinds
      <3>2. new \in RouteRow
        BY <2>2, <3>1 DEF Updated, RouteRow, NewRouteAsks
      <3>3. /\ new.status = ask[r].status /\ new.scope = s /\ new.primary = ask[r].primary
            /\ new.fallback = Atomic!Or(ask[r].fallback, route[row[r]].fallback)
        BY <2>2 DEF Updated, RouteRow, Atomic!Or
      <3> HIDE DEF new
      <3>4. new = [status   |-> new.status, scope |-> new.scope, primary |-> new.primary,
                   fallback |-> new.fallback]
        BY <3>2 DEF RouteRow
      <3> QED
        BY <3>3, <3>4 DEF new
    <2>4. Atomic!SetRoute(ask[r], row[r])
      BY <1>1, <1>2, <1>3, <1>4, <1>5, <2>1, <2>3
         DEF UpdateFound, Atomic!SetRoute, Atomic!IsActive, IsActive, NewScope,
             NamesTenant, Atomic!Scope
    <2> QED
      BY <2>2, <2>4
  <1>6. ASSUME NEW x \in Routes, CreateRoute(r, x)
        PROVE  Atomic!SetRoute(ask[r], x)
    <2>1. InScope(s) = {}
      BY <1>1, <1>6 DEF CreateRoute, Fresh, FreshNewRoute
    <2>2. Fallback(r) = Atomic!Or(ask[r].fallback, NoModel)
      BY <1>1 DEF Fallback, Atomic!Or
    <2> QED
      BY <1>1, <1>2, <1>3, <1>4, <1>6, <2>1, <2>2
         DEF CreateRoute, Atomic!SetRoute, Atomic!IsActive, IsActive, NewScope,
             NamesTenant, Atomic!Scope
  <1> QED
    BY <1>5, <1>6

LEMMA RoutesAtOnce ==
  ASSUME TypeOK, RowsStay, NEW r \in Requests, Write(r), Fresh(r), WriteRoute(r)
  PROVE  Atomic!ChangeRoute(ask[r])
  <1>1. pc[r] = "write" /\ ask[r] \in RouteAsks /\ ask[r].kind = "route"
    BY Effects, AskKinds DEF WriteRoute, TypeOK
  <1>2. /\ row[r] = ask[r].id /\ ask[r].id \in Routes
        /\ seen[r] = route[ask[r].id]
        /\ RouteAccess(ask[r])
        /\ route[ask[r].id].status # "absent"
    BY <1>1 DEF Fresh, FreshRoute, RowsStay, RowStays, RouteAsks
  <1> DEFINE old == route[ask[r].id]
  <1>3. /\ TargetStatus(ask[r], seen[r]) = Atomic!Or(ask[r].status, old.status)
        /\ Primary(r) = Atomic!Or(ask[r].primary, old.primary)
        /\ Fallback(r) = Atomic!Or(ask[r].fallback, old.fallback)
    BY <1>1, <1>2 DEF TargetStatus, Primary, Fallback, Atomic!Or
  <1>4. MovedScope(r) = Atomic!NewScope(ask[r], old)
    BY <1>2 DEF MovedScope, NewScope, NamesTenant, Atomic!NewScope, Atomic!Scope, RouteAccess
  <1>5. TargetStatus(ask[r], seen[r]) = "active" =>
          IsActive(Primary(r)) /\ (Fallback(r) = NoModel \/ IsActive(Fallback(r)))
    BY <1>1 DEF Fresh, FreshRoute, FreshFallback
  <1>6. MovedScope(r) \in Tenants => InScope(MovedScope(r)) \subseteq {ask[r].id}
    BY <1>2 DEF WriteRoute, Taken
  <1>7. \A z : InScope(z) = Atomic!InScope(z)
    BY DEF InScope, Atomic!InScope
  <1> QED
    BY <1>1, <1>2, <1>3, <1>4, <1>5, <1>6, <1>7
       DEF WriteRoute, Atomic!ChangeRoute, Atomic!IsActive, IsActive, RouteAccess

LEMMA WriteAtOnce ==
  ASSUME TypeOK, NothingMissing, RowsStay, NEW r \in Requests, Write(r), Fresh(r)
  PROVE  Atomic!Next
  <1>1. ask[r] \in Asks
    BY DEF TypeOK
  <1> QED
    BY <1>1, ProvidersAtOnce, ModelsAtOnce, NewRoutesAtOnce, RoutesAtOnce DEF Write, Atomic!Next

(* Every request nobody overtook is the atomic request with its body.      *)
THEOREM RequestsAtOnce == Spec => CatalogueKept
  <1> DEFINE Kept == \/ UNCHANGED <<provider, model, route>>
                     \/ Atomic!Next
                     \/ \E r \in Requests : Ends(r) /\ overtaken[r]
  <1>1. TypeOK /\ ChecksHold /\ NothingMissing /\ RowsStay /\ [Next]_vars => [Kept]_vars
    <2> SUFFICES ASSUME TypeOK, ChecksHold, NothingMissing, RowsStay, [Next]_vars
                 PROVE  Kept
      OBVIOUS
    <2>1. CASE \E r \in Requests : Write(r)
      BY <2>1, WriteEnds, WriteAtOnce
    <2>2. CASE ~\E r \in Requests : Write(r)
      BY <2>2, NoWriteNoChange DEF Catalogue
    <2> QED
      BY <2>1, <2>2
  <1>2. Init => Atomic!Init
    BY DEF Init, Atomic!Init, NoRow
  <1> QED
    BY <1>1, <1>2, TypeInit, TypeStep, ChecksInit, ChecksStep, NothingMissingInit,
       NothingMissingStep, RowsStayInit, RowsStayStep, PTL DEF Spec, CatalogueKept

(* One administrator's request at a time, whatever the AI calls do.        *)
OneRequest == \A q, r \in Requests : q = r

LEMMA NobodyOvertakes ==
  ASSUME OneRequest, TypeOK, \A r \in Requests : ~overtaken[r], [Next]_vars
  PROVE  \A r \in Requests : ~overtaken'[r]
  <1>1. CASE \E r \in Requests : Write(r)
    <2>1. PICK r \in Requests : Write(r)
      BY <1>1
    <2>2. Done(r)
      BY <2>1 DEF Write, WriteProvider, WriteNewModel, WriteModel, UpdateFound, CreateRoute,
                  WriteRoute
    <2> QED
      BY <2>2 DEF Done, Overtake, OneRequest, Handlers
  <1>2. CASE \E r \in Requests : Reads(r)
    <2>1. PICK r \in Requests : Reads(r)
      BY <1>2
    <2>2. overtaken' = overtaken \/ overtaken' = [overtaken EXCEPT ![r] = FALSE]
      BY <2>1 DEF Reads, Begin, CheckProvider, Count, CheckPrimary, CheckFallback, Find, Fail,
                  GoOn, End
    <2> QED
      BY <2>2 DEF TypeOK, Handlers
  <1>3. CASE (\E c \in Calls : CallSteps(c)) \/ UNCHANGED vars
    BY <1>3, RoutingAssumption
       DEF CallSteps, ResolveRoute, ReadModel, ReadProvider, EndCall, vars, TypeOK, Handlers
  <1> QED
    BY <1>1, <1>2, <1>3, Steps

(* If administrators' requests come one at a time, the catalogue behaves   *)
(* as its atomic specification: only overlapping requests break it.        *)
THEOREM SerialCatalogue ==
  ASSUME OneRequest
  PROVE  Spec => Atomic!Spec
  <1> DEFINE Undisturbed == \A r \in Requests : ~overtaken[r]
  <1>1. Init => Undisturbed /\ Atomic!Init
    BY DEF Init, Handlers, Atomic!Init, NoRow
  <1>2. TypeOK /\ Undisturbed /\ [Next]_vars => Undisturbed'
    BY NobodyOvertakes
  <1>3. TypeOK /\ ChecksHold /\ NothingMissing /\ RowsStay /\ Undisturbed /\ [Next]_vars
          => [Atomic!Next]_(Atomic!catalogue)
    <2> SUFFICES ASSUME TypeOK, ChecksHold, NothingMissing, RowsStay, Undisturbed, [Next]_vars
                 PROVE  Atomic!Next \/ UNCHANGED <<provider, model, route>>
      BY DEF Atomic!catalogue
    <2>1. CASE \E r \in Requests : Write(r)
      BY <2>1, WriteAtOnce DEF ChecksHold
    <2>2. CASE ~\E r \in Requests : Write(r)
      BY <2>2, NoWriteNoChange DEF Catalogue
    <2> QED
      BY <2>1, <2>2
  <1> QED
    BY <1>1, <1>2, <1>3, TypeInit, TypeStep, ChecksInit, ChecksStep, NothingMissingInit,
       NothingMissingStep, RowsStayInit, RowsStayStep, PTL DEF Spec, Atomic!Spec

(* What the atomic catalogue keeps: an active route names a model that is  *)
(* there and is not switched off.                                          *)
CatalogueType ==
  /\ provider \in [Providers -> ProviderRow]
  /\ model \in [Models -> ModelRow]
  /\ route \in [Routes -> RouteRow]

RouteServes(x) ==
  route[x].status = "active" => model[route[x].primary].status \notin Off \cup {"absent"}

RoutesServe == \A x \in Routes : RouteServes(x)

LEMMA AtomicType ==
  ASSUME CatalogueType, NEW a \in Asks,
         \/ Atomic!NewProvider(a) \/ Atomic!ChangeProvider(a)
         \/ Atomic!NewModel(a) \/ Atomic!ChangeModel(a)
         \/ \E x \in Routes : Atomic!SetRoute(a, x)
         \/ Atomic!ChangeRoute(a)
  PROVE  CatalogueType'
  <1> USE DEF CatalogueType, Atomic!Or
  <1>1. CASE Atomic!NewProvider(a)
    BY <1>1, AskKinds DEF Atomic!NewProvider, NewProviderAsks, ProviderRow
  <1>2. CASE Atomic!ChangeProvider(a)
    <2>1. a \in ProviderAsks
      BY <1>2, AskKinds DEF Atomic!ChangeProvider
    <2> QED
      BY <1>2, <2>1 DEF Atomic!ChangeProvider, ProviderAsks, ProviderRow
  <1>3. CASE Atomic!NewModel(a)
    BY <1>3, AskKinds DEF Atomic!NewModel, NewModelAsks, ModelRow
  <1>4. CASE Atomic!ChangeModel(a)
    <2>1. a \in ModelAsks
      BY <1>4, AskKinds DEF Atomic!ChangeModel
    <2> QED
      BY <1>4, <2>1 DEF Atomic!ChangeModel, ModelAsks, ModelRow
  <1>5. ASSUME NEW x \in Routes, Atomic!SetRoute(a, x) PROVE CatalogueType'
    <2>1. a \in NewRouteAsks
      BY <1>5, AskKinds DEF Atomic!SetRoute
    <2>2. Atomic!Scope(a) \in Scopes
      BY <2>1 DEF Atomic!Scope, NewRouteAsks, Admins, Scopes
    <2>3. route[x].fallback \in Models \cup {NoModel}
      BY DEF RouteRow
    <2> QED
      BY <1>5, <2>1, <2>2, <2>3 DEF Atomic!SetRoute, NewRouteAsks, RouteRow
  <1>6. CASE Atomic!ChangeRoute(a)
    <2>1. a \in RouteAsks
      BY <1>6, AskKinds DEF Atomic!ChangeRoute
    <2>2. route[a.id] \in RouteRow
      BY <2>1 DEF RouteAsks
    <2>3. Atomic!NewScope(a, route[a.id]) \in Scopes
      BY <2>1, <2>2 DEF Atomic!NewScope, Atomic!Scope, RouteAsks, RouteRow, Scopes, Admins
    <2> QED
      BY <1>6, <2>1, <2>2, <2>3 DEF Atomic!ChangeRoute, RouteAsks, RouteRow
  <1> QED
    BY <1>1, <1>2, <1>3, <1>4, <1>5, <1>6

LEMMA AtomicServes ==
  ASSUME CatalogueType, RoutesServe, NEW a \in Asks,
         \/ Atomic!NewProvider(a) \/ Atomic!ChangeProvider(a)
         \/ Atomic!NewModel(a) \/ Atomic!ChangeModel(a)
         \/ \E x \in Routes : Atomic!SetRoute(a, x)
         \/ Atomic!ChangeRoute(a)
  PROVE  RoutesServe'
  <1> USE DEF CatalogueType, RoutesServe, RouteServes
  <1>1. CASE Atomic!NewProvider(a) \/ Atomic!ChangeProvider(a)
    BY <1>1 DEF Atomic!NewProvider, Atomic!ChangeProvider
  <1>2. CASE Atomic!NewModel(a)
    <2>1. \A m \in Models : model[m].status # "absent" => model'[m] = model[m]
      BY <1>2 DEF Atomic!NewModel
    <2> QED
      BY <1>2, <2>1 DEF Atomic!NewModel, RouteRow
  <1>3. CASE Atomic!ChangeModel(a)
    <2>1. a \in ModelAsks /\ Keep \notin Statuses
      BY <1>3, AskKinds, RoutingAssumption DEF Atomic!ChangeModel
    <2>2. ASSUME NEW m \in Models
          PROVE  \/ model'[m] = model[m]
                 \/ m = a.id /\ model'[m].status = Atomic!Or(a.status, model[m].status)
      <3>1. PICK f : model' = [model EXCEPT ![a.id] =
                       [status |-> Atomic!Or(a.status, model[a.id].status), of |-> f]]
        BY <1>3 DEF Atomic!ChangeModel
      <3> QED
        BY <3>1
    <2>3. \A x \in Routes : /\ route[x].primary \in Models
                            /\ route'[x] = route[x]
      BY <1>3 DEF Atomic!ChangeModel, RouteRow
    <2> QED
      BY <1>3, <2>1, <2>2, <2>3
         DEF Atomic!ChangeModel, Atomic!Or, Atomic!Off, Off, ModelAsks, Statuses
  <1>4. ASSUME NEW x \in Routes, Atomic!SetRoute(a, x) PROVE RoutesServe'
    <2>1. /\ model' = model /\ model[a.primary].status = "active"
          /\ \A y \in Routes : route'[y] = route[y] \/ route'[y].primary = a.primary
      BY <1>4 DEF Atomic!SetRoute, Atomic!IsActive
    <2> QED
      BY <2>1 DEF Off
  <1>5. CASE Atomic!ChangeRoute(a)
    <2>1. /\ model' = model
          /\ \A y \in Routes :
               \/ route'[y] = route[y]
               \/ route'[y].status = "active" => model[route'[y].primary].status = "active"
      BY <1>5 DEF Atomic!ChangeRoute, Atomic!IsActive
    <2> QED
      BY <2>1 DEF Off
  <1> QED
    BY <1>1, <1>2, <1>3, <1>4, <1>5

(* If checks and write are one step, no active route ever names a disabled *)
(* or archived model as its primary one.                                   *)
THEOREM AtomicNeverDangles == Atomic!Spec => [](\A x \in Routes : ~Dangling(x))
  <1>1. Atomic!Init => CatalogueType /\ RoutesServe
    <2> SUFFICES ASSUME Atomic!Init PROVE CatalogueType /\ RoutesServe
      OBVIOUS
    <2>1. provider \in [Providers -> ProviderRow] /\ model \in [Models -> ModelRow]
      BY RoutingAssumption DEF Atomic!Init, ProviderRow, ModelRow
    <2>2. route = [x \in Routes |-> NoRow]
      BY DEF Atomic!Init, NoRow
    <2>3. NoRow \in RouteRow /\ NoRow.status = "absent"
      BY NoRowType DEF NoRow
    <2> QED
      BY <2>1, <2>2, <2>3 DEF CatalogueType, RoutesServe, RouteServes
  <1>2. CatalogueType /\ RoutesServe /\ [Atomic!Next]_(Atomic!catalogue)
          => (CatalogueType /\ RoutesServe)'
    BY AtomicType, AtomicServes
       DEF Atomic!Next, Atomic!catalogue, CatalogueType, RoutesServe, RouteServes
  <1>3. RoutesServe => \A x \in Routes : ~Dangling(x)
    BY DEF RoutesServe, RouteServes, Dangling
  <1> QED
    BY <1>1, <1>2, <1>3, PTL DEF Atomic!Spec

(* So a single administrator at a time never leaves an active route with a *)
(* disabled or archived model.                                             *)
THEOREM SerialNeverDangles ==
  ASSUME OneRequest
  PROVE  Spec => [](\A x \in Routes : ~Dangling(x))
  BY SerialCatalogue, AtomicNeverDangles, PTL

-----------------------------------------------------------------------------
(* AI calls.                                                               *)

CallKnows(c) ==
  /\ pc[c] \in {"model", "provider"} => WellChosen(c)
  /\ pc[c] = "provider" => call[c].row = model[call[c].model]
  /\ pc[c] = "ended" =>
       IF call[c].outcome = "sent" THEN WellChosen(c) /\ Usable(call[c].model)
       ELSE \/ \A s \in {call[c].tenant, "app", "global"} : ActiveIn(s) = {}
            \/ WellChosen(c) /\ ~Usable(call[c].model)

CallsKnow == \A c \in Calls : overtaken[c] \/ CallKnows(c)

LEMMA CallsKnowInit == Init => CallsKnow
  BY DEF Init, CallsKnow, CallKnows, Handlers

LEMMA CallKnowsStays ==
  ASSUME NEW c \in Calls, CallKnows(c), Catalogue' = Catalogue,
         pc'[c] = pc[c], call'[c] = call[c]
  PROVE  CallKnows(c)'
  BY DEF CallKnows, WellChosen, Has, ActiveIn, InScope, Usable, IsActive, Catalogue

LEMMA CallsKnowCall ==
  ASSUME TypeOK, CallsKnow, NEW c \in Calls, CallSteps(c)
  PROVE  CallsKnow'
  <1>1. Catalogue' = Catalogue
    BY DEF CallSteps, ResolveRoute, ReadModel, ReadProvider, EndCall, Catalogue
  <1>2. ASSUME NEW d \in Calls \ {c} PROVE overtaken'[d] \/ CallKnows(d)'
    <2>1. pc'[d] = pc[d] /\ call'[d] = call[d] /\ overtaken'[d] = overtaken[d]
      BY DEF CallSteps, ResolveRoute, ReadModel, ReadProvider, EndCall, Goto, TypeOK, Handlers
    <2> QED
      BY <1>1, <2>1, CallKnowsStays DEF CallsKnow
  <1>3. overtaken'[c] \/ CallKnows(c)'
    <2>1. ASSUME NEW t \in Tenants, ResolveRoute(c, t) PROVE CallKnows(c)'
      <3>1. CASE Best(t) = {} /\ pc'[c] = "ended" /\ call'[c].tenant = t
                 /\ call'[c].outcome = "refused"
        <4>1. \A s \in {t, "app", "global"} : ActiveIn(s) = {}
          BY <3>1 DEF Best
        <4>2. \A s \in {t, "app", "global"} : ActiveIn(s)' = {}
          BY <1>1, <4>1 DEF Catalogue, ActiveIn, InScope
        <4> QED
          BY <3>1, <4>2 DEF CallKnows
      <3>2. ASSUME NEW x \in Best(t), pc'[c] = "model", call'[c].tenant = t,
                   call'[c].model = route[x].primary
            PROVE  CallKnows(c)'
        <4>1. \A s : ActiveIn(s)' = ActiveIn(s)
          BY <1>1 DEF Catalogue, ActiveIn, InScope
        <4>2. x \in Routes /\ route' = route
          BY <1>1 DEF Best, ActiveIn, InScope, Catalogue
        <4>3. WellChosen(c)'
          <5>1. \/ x \in ActiveIn(t)
                \/ ActiveIn(t) = {} /\ x \in ActiveIn("app")
                \/ ActiveIn(t) = {} /\ ActiveIn("app") = {} /\ x \in ActiveIn("global")
            BY DEF Best
          <5> QED
            BY <3>2, <4>1, <4>2, <5>1 DEF WellChosen, Has
        <4> QED
          BY <3>2, <4>3 DEF CallKnows
      <3>3. \A m \in Models :
              /\ [NoCall EXCEPT !.tenant = t, !.model = m].tenant = t
              /\ [NoCall EXCEPT !.tenant = t, !.model = m].model = m
              /\ [NoCall EXCEPT !.tenant = t, !.outcome = "refused"].tenant = t
              /\ [NoCall EXCEPT !.tenant = t, !.outcome = "refused"].outcome = "refused"
        BY DEF NoCall
      <3>4. \A new : call' = [call EXCEPT ![c] = new] => call'[c] = new
        BY DEF TypeOK
      <3>5. \A x \in Best(t) : route[x].primary \in Models
        BY DEF Best, ActiveIn, InScope, TypeOK, RouteRow
      <3>6. \A l : Goto(c, l) => pc'[c] = l
        BY DEF Goto, TypeOK, Handlers
      <3>7. CASE /\ Best(t) = {}
                 /\ call' = [call EXCEPT ![c] = [NoCall EXCEPT !.tenant = t, !.outcome = "refused"]]
                 /\ Goto(c, "ended")
        BY <3>1, <3>3, <3>4, <3>6, <3>7, RoutingAssumption
      <3>8. ASSUME NEW x \in Best(t),
                   call' = [call EXCEPT ![c] = [NoCall EXCEPT !.tenant = t,
                                                              !.model = route[x].primary]],
                   Goto(c, "model")
            PROVE  CallKnows(c)'
        BY <3>2, <3>3, <3>4, <3>5, <3>6, <3>8
      <3> QED
        BY <2>1, <3>7, <3>8 DEF ResolveRoute
    <2>2. CASE ReadModel(c)
      <3>1. /\ pc[c] = "model" /\ pc'[c] = "provider" /\ overtaken' = overtaken
            /\ call'[c].tenant = call[c].tenant /\ call'[c].model = call[c].model
            /\ call'[c].row = model[call[c].model]
        BY <2>2 DEF ReadModel, Goto, TypeOK, Handlers, CallRow
      <3> QED
        BY <1>1, <3>1 DEF CallsKnow, CallKnows, WellChosen, Has, ActiveIn, InScope, Catalogue
    <2>3. CASE ReadProvider(c)
      <3>1. /\ pc[c] = "provider" /\ pc'[c] = "ended" /\ overtaken' = overtaken
            /\ call'[c].tenant = call[c].tenant /\ call'[c].model = call[c].model
            /\ call'[c].outcome = IF provider[call[c].row.of] = "active"
                                     /\ call[c].row.status = "active"
                                  THEN "sent" ELSE "refused"
        BY <2>3 DEF ReadProvider, Goto, TypeOK, Handlers, CallRow
      <3>2. \A s : ActiveIn(s)' = ActiveIn(s)
        BY <1>1 DEF Catalogue, ActiveIn, InScope
      <3>3. CASE ~overtaken[c]
        <4>1. WellChosen(c) /\ call[c].row = model[call[c].model]
          BY <3>1, <3>3 DEF CallsKnow, CallKnows
        <4>2. WellChosen(c)'
          BY <1>1, <3>1, <3>2, <4>1 DEF WellChosen, Has, Catalogue
        <4>3. Usable(call[c].model) <=> call'[c].outcome = "sent"
          BY <3>1, <4>1 DEF Usable, IsActive
        <4>4. model' = model /\ provider' = provider
          BY <1>1 DEF Catalogue
        <4>5. Usable(call[c].model) <=> model'[call'[c].model].status = "active"
                                         /\ provider'[model'[call'[c].model].of] = "active"
          BY <3>1, <4>4 DEF Usable, IsActive
        <4> QED
          BY <3>1, <4>2, <4>3, <4>5 DEF CallKnows, Usable, IsActive
      <3> QED
        BY <3>1, <3>3
    <2>4. CASE EndCall(c)
      BY <2>4 DEF EndCall, Goto, TypeOK, Handlers, CallKnows
    <2> QED
      BY <2>1, <2>2, <2>3, <2>4 DEF CallSteps
  <1> QED
    BY <1>2, <1>3 DEF CallsKnow

LEMMA CallsKnowStep == TypeOK /\ CallsKnow /\ [Next]_vars => CallsKnow'
  <1> SUFFICES ASSUME TypeOK, CallsKnow, [Next]_vars PROVE CallsKnow'
    OBVIOUS
  <1>1. CASE \E c \in Calls : CallSteps(c)
    BY <1>1, CallsKnowCall
  <1>2. ASSUME NEW r \in Requests, Reads(r) PROVE CallsKnow'
    <2>1. Catalogue' = Catalogue
      BY <1>2, ReadsLeaveOthers
    <2>2. call' = call
      BY <1>2 DEF Reads, Begin, CheckProvider, Count, CheckPrimary, CheckFallback, Find, Fail,
         End, GoOn
    <2>3. \A c \in Calls : pc'[c] = pc[c] /\ overtaken'[c] = overtaken[c]
      BY <1>2, RoutingAssumption DEF Reads, Begin, CheckProvider, Count, CheckPrimary,
         CheckFallback, Find, Fail, End, GoOn, Leave, Goto, TypeOK, Handlers
    <2> QED
      BY <2>1, <2>2, <2>3, CallKnowsStays DEF CallsKnow
  <1>3. ASSUME NEW r \in Requests, Write(r) PROVE CallsKnow'
    <2>1. Done(r)
      BY <1>3 DEF Write, WriteProvider, WriteNewModel, WriteModel, UpdateFound, CreateRoute,
         WriteRoute
    <2>2. \A c \in Calls : pc'[c] = "idle" \/ overtaken'[c]
      BY <2>1, RoutingAssumption DEF Done, Leave, Overtake, Goto, TypeOK, Handlers
    <2> QED
      BY <2>2 DEF CallsKnow, CallKnows
  <1>4. CASE UNCHANGED vars
    BY <1>4, CallKnowsStays DEF vars, CallsKnow, Catalogue
  <1> QED
    BY <1>1, <1>2, <1>3, <1>4, Steps

(* An AI call that nobody overtook ends as the catalogue says.             *)
THEOREM CallsFollowCatalogue == Spec => []UndisturbedCallsAgree
  <1>1. TypeOK /\ CallsKnow => UndisturbedCallsAgree
    BY DEF CallsKnow, CallKnows, UndisturbedCallsAgree
  <1> QED
    BY <1>1, TypeInit, TypeStep, CallsKnowInit, CallsKnowStep, PTL DEF Spec
===============================================================================
