----------------------------- MODULE ModelRouting -----------------------------
(***************************************************************************)
(* The catalogue of AI providers, models and routes (AiCenterService) and  *)
(* the way an AI call finds its model in it.                               *)
(*                                                                         *)
(* An administrator's request reads what its change depends on, one await  *)
(* after another, and then writes one row; nothing locks what it read, so  *)
(* requests overtake each other.  Rows are never deleted.                  *)
(*                                                                         *)
(* There is one app and one route key.  A route's scope is the tenant it   *)
(* is for, or the app (tenantId is null), or global (both are null).       *)
(* An administrator acts in the context of a tenant, or of the whole app   *)
(* (tenantId is null), which switchContext gives to whoever is a member of *)
(* one of its tenants, and which admits them with the permissions they     *)
(* have there; or has a role of the platform.                              *)
(* Requests for an id that does not exist are refused before they read     *)
(* anything else, and are left out.                                        *)
(***************************************************************************)
EXTENDS Naturals, FiniteSets

CONSTANTS
  Providers,    \* providers that may exist
  Models,       \* models that may exist
  Routes,       \* the ids of routes
  Tenants,      \* tenants of the app
  Platform,     \* an administrator of the platform, whatever the context
  Requests,     \* handlers of administrators' requests
  Calls,        \* handlers of AI calls
  Asks,         \* the request bodies administrators may send
  NoModel,      \* a model id that is null
  NoRoute,      \* no row found
  Keep,         \* a field the body does not have
  MaxInFlight   \* bound: requests and calls at once

Statuses == {"active", "inactive", "disabled", "archived"}
Off      == {"disabled", "archived"}
Scopes   == Tenants \cup {"app", "global"}
Admins   == Tenants \cup {"app", Platform}

ProviderRow == Statuses \cup {"absent"}
ModelRow    == [status : Statuses \cup {"absent"}, of : Providers]
RouteRow    == [status   : Statuses \cup {"absent"},
                scope    : Scopes,
                primary  : Models,
                fallback : Models \cup {NoModel}]

CallRow     == [tenant : Tenants \cup {Platform}, model : Models, row : ModelRow,
                outcome : {"none", "sent", "refused"}]

NewProviderAsks == [kind : {"newProvider"}, id : Providers, status : Statuses]
ProviderAsks    == [kind : {"provider"}, id : Providers, status : Statuses \cup {Keep}]
NewModelAsks    == [kind : {"newModel"}, id : Models, of : Providers, status : Statuses]
ModelAsks       == [kind : {"model"}, id : Models, of : Providers \cup {Keep},
                    status : Statuses \cup {Keep}]
NewRouteAsks    == [kind : {"newRoute"}, by : Admins, scope : Scopes, primary : Models,
                    fallback : Models \cup {NoModel, Keep}, status : Statuses]
RouteAsks       == [kind : {"route"}, by : Admins, id : Routes,
                    scope : Tenants \cup {"app", Keep}, primary : Models \cup {Keep},
                    fallback : Models \cup {NoModel, Keep}, status : Statuses \cup {Keep}]

ASSUME RoutingAssumption ==
  /\ Providers # {} /\ Models # {}
  /\ Asks # {}
  /\ Asks \subseteq NewProviderAsks \cup ProviderAsks \cup NewModelAsks
                      \cup ModelAsks \cup NewRouteAsks \cup RouteAsks
  /\ Keep \notin Statuses \cup Providers \cup Models \cup Scopes \cup {NoModel}
  /\ NoModel \notin Models /\ NoRoute \notin Routes
  /\ Platform \notin Scopes
  /\ Tenants \cap {"app", "global"} = {}
  /\ Requests \cap Calls = {}
  /\ MaxInFlight \in Nat

VARIABLES
  provider,   \* the status of a provider
  model,      \* a model: its status and its provider
  route,      \* a route: status, scope, primary and fallback model
  pc,         \* where the handler of a request or a call stands
  ask,        \* the body of a request
  row,        \* the route row a request works on
  seen,       \* that row, as the request read it
  call,       \* what a call has found out: its tenant, model and outcome
  overtaken   \* history: somebody wrote since this request or call began

vars == <<provider, model, route, pc, ask, row, seen, call, overtaken>>

Handlers == Requests \cup Calls
InFlight == {h \in Handlers : pc[h] # "idle"}

IsActive(m) == model[m].status = "active"

Goto(h, l) == pc' = [pc EXCEPT ![h] = l]

NoAsk == CHOOSE a \in Asks : TRUE

NoRow == [status   |-> "absent",
          scope    |-> "global",
          primary  |-> CHOOSE m \in Models : TRUE,
          fallback |-> NoModel]

(* The handler of a request returns.                                       *)
Leave(r) ==
  /\ Goto(r, "idle")
  /\ ask'  = [ask EXCEPT ![r] = NoAsk]
  /\ row'  = [row EXCEPT ![r] = NoRoute]
  /\ seen' = [seen EXCEPT ![r] = NoRow]

(* The handler of h changes what others may have read.                     *)
Overtake(h) ==
  overtaken' = [g \in Handlers |-> g # h /\ pc[g] # "idle"]

-----------------------------------------------------------------------------
(* Where a request goes after its first read.                              *)
ProviderStart(a) == IF a.status \in Off THEN "count" ELSE "write"

ModelStart(a) ==
  IF a.of # Keep /\ a.of # model[a.id].of THEN "provider"
  ELSE IF a.status \in Off THEN "count" ELSE "write"

(* updateRoute validates models only if the route is to be active.         *)
TargetStatus(a, x) == IF a.status = Keep THEN x.status ELSE a.status

RouteStart(a) ==
  IF TargetStatus(a, route[a.id]) = "active" THEN "primary" ELSE "write"

SlipRouteAccess(a) == TRUE

(* assertRouteAccess: the route must be of the very context one acts in.   *)
RouteAccess(a) == a.by = Platform \/ route[a.id].scope = a.by

Found(a) ==
  CASE a.kind = "provider" -> provider[a.id] # "absent"
    [] a.kind = "model"    -> model[a.id].status # "absent"
    [] a.kind = "route"    -> route[a.id].status # "absent" /\ RouteAccess(a)
    [] OTHER -> TRUE

Start(a) ==
  CASE a.kind = "newProvider" -> "write"
    [] a.kind = "provider"    -> ProviderStart(a)
    [] a.kind = "newModel"    -> "provider"
    [] a.kind = "model"       -> ModelStart(a)
    [] a.kind = "newRoute"    -> "primary"
    [] a.kind = "route"       -> RouteStart(a)

(* A request arrives and reads the row it is about.                        *)
Begin(r, a) ==
  /\ pc[r] = "idle"
  /\ Cardinality(InFlight) < MaxInFlight
  /\ Found(a)
  /\ ask' = [ask EXCEPT ![r] = a]
  /\ Goto(r, Start(a))
  /\ IF a.kind = "route"
     THEN row' = [row EXCEPT ![r] = a.id] /\ seen' = [seen EXCEPT ![r] = route[a.id]]
     ELSE UNCHANGED <<row, seen>>
  /\ UNCHANGED <<provider, model, route, call, overtaken>>

(* A refused request, or one whose write failed, changed nothing.          *)
End(r) ==
  /\ Leave(r)
  /\ overtaken' = [overtaken EXCEPT ![r] = FALSE]
  /\ UNCHANGED <<provider, model, route, call>>

GoOn(r, l) ==
  /\ Goto(r, l)
  /\ UNCHANGED <<provider, model, route, ask, row, seen, call, overtaken>>

(* createModel, and updateModel when the model gets another provider       *)
CheckProvider(r) ==
  /\ pc[r] = "provider"
  /\ IF provider[ask[r].of] # "active" THEN End(r)
     ELSE IF ask[r].kind = "model" /\ ask[r].status \in Off THEN GoOn(r, "count")
     ELSE GoOn(r, "write")

SlipProviderInUse(p) ==
  \E m \in Models : model[m].of = p /\ model[m].status = "active"

(* assertProviderCanBeDisabled *)
ProviderInUse(p) ==
  \E m \in Models : model[m].of = p /\ model[m].status \in {"active", "inactive"}

SlipModelInUse(m) ==
  \E x \in Routes : route[x].status = "active" /\ m = route[x].primary

(* assertModelCanBeDisabled *)
ModelInUse(m) ==
  \E x \in Routes : route[x].status = "active" /\ m \in {route[x].primary, route[x].fallback}

Count(r) ==
  /\ pc[r] = "count"
  /\ IF \/ ask[r].kind = "provider" /\ ProviderInUse(ask[r].id)
        \/ ask[r].kind = "model" /\ ModelInUse(ask[r].id)
     THEN End(r) ELSE GoOn(r, "write")

(* The models a route request is going to write.  A body without the field *)
(* keeps updateRoute to what it read of the row.                           *)
Primary(r) == IF ask[r].primary = Keep THEN seen[r].primary ELSE ask[r].primary

Fallback(r) ==
  IF ask[r].fallback # Keep THEN ask[r].fallback
  ELSE IF ask[r].kind = "route" THEN seen[r].fallback ELSE NoModel

Checked(r) == IF ask[r].kind = "route" THEN "write" ELSE "find"

CheckPrimary(r) ==
  /\ pc[r] = "primary"
  /\ IF ~IsActive(Primary(r)) THEN End(r)
     ELSE GoOn(r, IF Fallback(r) = NoModel THEN Checked(r) ELSE "fallback")

CheckFallback(r) ==
  /\ pc[r] = "fallback"
  /\ IF ~IsActive(Fallback(r)) THEN End(r) ELSE GoOn(r, Checked(r))

(* The tenant of the context comes before that of the body (null ?? body). *)
NamesTenant(a) == a.by = "app" /\ a.scope \in Tenants

(* The scope of a new route: resolveAdminScope.                            *)
NewScope(a) == IF a.by = Platform \/ NamesTenant(a) THEN a.scope ELSE a.by

InScope(s) == {x \in Routes : route[x].status # "absent" /\ route[x].scope = s}

(* The rows findFirst may return: it has no order.                         *)
Existing(s) == InScope(s)

Find(r) ==
  /\ pc[r] = "find"
  /\ LET found == Existing(NewScope(ask[r])) IN
     \E x \in IF found = {} THEN {NoRoute} ELSE found :
        row' = [row EXCEPT ![r] = x]
  /\ Goto(r, "write")
  /\ UNCHANGED <<provider, model, route, ask, seen, call, overtaken>>

-----------------------------------------------------------------------------
(* A write ends its request.                                               *)
Done(r) ==
  /\ pc[r] = "write"
  /\ Leave(r)
  /\ Overtake(r)
  /\ UNCHANGED call

WriteProvider(r) ==
  /\ ask[r].kind \in {"newProvider", "provider"}
  /\ ask[r].kind = "newProvider" => provider[ask[r].id] = "absent"
  /\ provider' = IF ask[r].status = Keep THEN provider
                 ELSE [provider EXCEPT ![ask[r].id] = ask[r].status]
  /\ Done(r)
  /\ UNCHANGED <<model, route>>

WriteNewModel(r) ==
  /\ ask[r].kind = "newModel" /\ model[ask[r].id].status = "absent"
  /\ model' = [model EXCEPT ![ask[r].id] = [status |-> ask[r].status, of |-> ask[r].of]]
  /\ Done(r)
  /\ UNCHANGED <<provider, route>>

(* The update has the fields of the body and no others.                    *)
WriteModel(r) ==
  /\ ask[r].kind = "model"
  /\ model' = [model EXCEPT ![ask[r].id] =
                 [status |-> IF ask[r].status = Keep THEN @.status ELSE ask[r].status,
                  of     |-> IF ask[r].of = Keep THEN @.of ELSE ask[r].of]]
  /\ Done(r)
  /\ UNCHANGED <<provider, route>>

(* The unique key of routes binds only rows that have a tenant.            *)
Taken(s, x) == s \in Tenants /\ InScope(s) \ {x} # {}

(* createRoute on a row it found: the update keeps the row's fallback when *)
(* the body has none, and does not look at it.                             *)
Updated(x, a) ==
  [x EXCEPT !.status   = a.status,
            !.primary  = a.primary,
            !.fallback = IF a.fallback = Keep THEN x.fallback ELSE a.fallback]

UpdateFound(r) ==
  /\ ask[r].kind = "newRoute" /\ row[r] # NoRoute
  /\ route' = [route EXCEPT ![row[r]] = Updated(route[row[r]], ask[r])]
  /\ Done(r)
  /\ UNCHANGED <<provider, model>>

CreateRoute(r, x) ==
  /\ ask[r].kind = "newRoute" /\ row[r] = NoRoute
  /\ ~Taken(NewScope(ask[r]), x)
  /\ route[x].status = "absent"
  /\ route' = [route EXCEPT ![x] =
                 [status |-> ask[r].status, scope |-> NewScope(ask[r]),
                  primary |-> ask[r].primary, fallback |-> Fallback(r)]]
  /\ Done(r)
  /\ UNCHANGED <<provider, model>>

SlipMovedScope(r) == ask[r].scope

(* The scope updateRoute writes.  A tenant's route stays with a tenant.    *)
MovedScope(r) ==
  IF ask[r].scope = Keep THEN seen[r].scope
  ELSE IF ask[r].by # Platform THEN NewScope(ask[r])
  ELSE IF ask[r].scope = "app" /\ seen[r].scope \in Tenants THEN seen[r].scope
  ELSE ask[r].scope

(* updateRoute writes every column back, those it only read as well.       *)
WriteRoute(r) ==
  /\ ask[r].kind = "route"
  /\ ~Taken(MovedScope(r), row[r])
  /\ route' = [route EXCEPT ![row[r]] =
                 [status  |-> TargetStatus(ask[r], seen[r]), scope |-> MovedScope(r),
                  primary |-> Primary(r), fallback |-> Fallback(r)]]
  /\ Done(r)
  /\ UNCHANGED <<provider, model>>

(* A database operation throws: a unique key refuses the row, or anything. *)
Fail(r) ==
  /\ pc[r] # "idle"
  /\ End(r)

-----------------------------------------------------------------------------
ActiveIn(s) == {x \in InScope(s) : route[x].status = "active"}

SlipBest(t) == IF ActiveIn("app") # {} THEN ActiveIn("app") ELSE ActiveIn(t)

(* resolveRoute: the tenant's route, else the app's, else a global one.    *)
Best(t) ==
  IF ActiveIn(t) # {} THEN ActiveIn(t)
  ELSE IF ActiveIn("app") # {} THEN ActiveIn("app")
  ELSE ActiveIn("global")

NoCall == [tenant  |-> Platform,
           model   |-> CHOOSE m \in Models : TRUE,
           row     |-> [status |-> "absent", of |-> CHOOSE p \in Providers : TRUE],
           outcome |-> "none"]

(* An AI call of tenant t finds its route, or is answered that there is no *)
(* such route ...                                                          *)
ResolveRoute(c, t) ==
  /\ pc[c] = "idle"
  /\ Cardinality(InFlight) < MaxInFlight
  /\ \/ /\ Best(t) = {}
        /\ call' = [call EXCEPT ![c] = [NoCall EXCEPT !.tenant = t, !.outcome = "refused"]]
        /\ Goto(c, "ended")
     \/ \E x \in Best(t) :
        /\ call' = [call EXCEPT ![c] = [NoCall EXCEPT !.tenant = t, !.model = route[x].primary]]
        /\ Goto(c, "model")
  /\ UNCHANGED <<provider, model, route, ask, row, seen, overtaken>>

(* ... reads its model ...                                                 *)
ReadModel(c) ==
  /\ pc[c] = "model"
  /\ call' = [call EXCEPT ![c].row = model[call[c].model]]
  /\ Goto(c, "provider")
  /\ UNCHANGED <<provider, model, route, ask, row, seen, overtaken>>

(* ... and the model's provider, and goes there if both are active.        *)
ReadProvider(c) ==
  /\ pc[c] = "provider"
  /\ call' = [call EXCEPT ![c].outcome =
       IF provider[call[c].row.of] = "active" /\ call[c].row.status = "active"
       THEN "sent" ELSE "refused"]
  /\ Goto(c, "ended")
  /\ UNCHANGED <<provider, model, route, ask, row, seen, overtaken>>

EndCall(c) ==
  /\ pc[c] = "ended"
  /\ Goto(c, "idle")
  /\ call' = [call EXCEPT ![c] = NoCall]
  /\ overtaken' = [overtaken EXCEPT ![c] = FALSE]
  /\ UNCHANGED <<provider, model, route, ask, row, seen>>

-----------------------------------------------------------------------------
Init ==
  /\ provider = [p \in Providers |-> "absent"]
  /\ model = [m \in Models |-> [status |-> "absent", of |-> CHOOSE p \in Providers : TRUE]]
  /\ route = [x \in Routes |-> NoRow]
  /\ pc = [h \in Handlers |-> "idle"]
  /\ ask = [r \in Requests |-> NoAsk]
  /\ row = [r \in Requests |-> NoRoute]
  /\ seen = [r \in Requests |-> NoRow]
  /\ call = [c \in Calls |-> NoCall]
  /\ overtaken = [h \in Handlers |-> FALSE]

Write(r) ==
  \/ WriteProvider(r)
  \/ WriteNewModel(r)
  \/ WriteModel(r)
  \/ UpdateFound(r)
  \/ \E x \in Routes : CreateRoute(r, x)
  \/ WriteRoute(r)

Next ==
  \/ \E r \in Requests :
        \/ \E a \in Asks : Begin(r, a)
        \/ CheckProvider(r)
        \/ Count(r)
        \/ CheckPrimary(r)
        \/ CheckFallback(r)
        \/ Find(r)
        \/ Write(r)
        \/ Fail(r)
  \/ \E c \in Calls :
        \/ \E t \in Tenants : ResolveRoute(c, t)
        \/ ReadModel(c)
        \/ ReadProvider(c)
        \/ EndCall(c)

Spec == Init /\ [][Next]_vars

-----------------------------------------------------------------------------
Stages == {"idle", "count", "provider", "primary", "fallback", "find", "write",
           "model", "ended"}

TypeOK ==
  /\ provider \in [Providers -> ProviderRow]
  /\ model \in [Models -> ModelRow]
  /\ route \in [Routes -> RouteRow]
  /\ pc \in [Handlers -> Stages]
  /\ ask \in [Requests -> Asks]
  /\ row \in [Requests -> Routes \cup {NoRoute}]
  /\ seen \in [Requests -> RouteRow]
  /\ call \in [Calls -> CallRow]
  /\ overtaken \in [Handlers -> BOOLEAN]

(* The request r ends with this step.                                      *)
Ends(r) == pc[r] = "write" /\ pc'[r] = "idle"

Dangling(x) == route[x].status = "active" /\ model[route[x].primary].status \in Off

(* An active route never comes to name a disabled or archived model first  *)
(* unless two requests overlapped: each of them checks, and the check of   *)
(* either would have refused it.                                           *)
DanglingOnlyByRace ==
  [][\A x \in Routes :
       Dangling(x)' /\ ~Dangling(x) => \E r \in Requests : Ends(r) /\ overtaken[r]]_vars

Orphan(m) ==
  model[m].status \in {"active", "inactive"} /\ provider[model[m].of] \in Off

(* A model in use never comes to belong to a disabled or archived provider *)
(* unless two requests overlapped, or the model was itself disabled and is *)
(* activated again, when updateModel does not look at its provider.        *)
OrphanOnlyByRace ==
  [][\A m \in Models :
       Orphan(m)' /\ ~Orphan(m) =>
         \E r \in Requests :
           /\ Ends(r)
           /\ \/ overtaken[r]
              \/ ask[r].kind = "model" /\ ask[r].id = m /\ model[m].status \in Off]_vars

Twins(s) == \E x, y \in InScope(s) : x # y

(* Two routes for one scope, between which a call would choose at random,  *)
(* come from overlapping requests or from moving a route to another scope. *)
TwinsOnlyByRace ==
  [][\A s \in Scopes :
       Twins(s)' /\ ~Twins(s) =>
         \E r \in Requests :
           Ends(r) /\ (overtaken[r] \/ (ask[r].kind = "route" /\ MovedScope(r) = s))]_vars

StaleFallback(x) ==
  /\ route[x].status = "active" /\ route[x].fallback # NoModel
  /\ model[route[x].fallback].status \in Off \cup {"absent"}

(* An active route never comes to name such a model as its fallback unless *)
(* requests overlapped, or createRoute found the row, and its body has no  *)
(* fallback: the row's own is kept without a look at it.                   *)
StaleFallbackOnlyByRace ==
  [][\A x \in Routes :
       StaleFallback(x)' /\ ~StaleFallback(x) =>
         \E r \in Requests :
           /\ Ends(r)
           /\ \/ overtaken[r]
              \/ ask[r].kind = "newRoute" /\ ask[r].fallback = Keep /\ row[r] = x]_vars

(* What the checks of the catalogue are for is only undone by overlapping  *)
(* requests, or in the three ways named above.                             *)
DamageOnlyByRace ==
  /\ DanglingOnlyByRace /\ OrphanOnlyByRace
  /\ TwinsOnlyByRace /\ StaleFallbackOnlyByRace

Atomic == INSTANCE AtomicCatalogue

(* A request nobody overtook does to the catalogue what the same request   *)
(* does in one step, checks included; the request that was overtaken is    *)
(* the only one whose checks may no longer hold when it writes.            *)
CatalogueKept ==
  /\ Atomic!Init
  /\ [][\/ UNCHANGED <<provider, model, route>>
        \/ Atomic!Next
        \/ \E r \in Requests : Ends(r) /\ overtaken[r]]_vars

(* What a call of tenant t may be served with.                             *)
Offered(t) == {route[x] : x \in Best(t)}

(* What an administrator who is not of the platform does to routes changes *)
(* what the calls of a tenant are served with only if it is the tenant one *)
(* acts in; or, in the context of the whole app, a tenant the body names,  *)
(* or one that has no route of its own in use.  That is unless somebody    *)
(* else wrote between the request's read of the row and its own write.     *)
TenantsApart ==
  [][\A r \in Requests, t \in Tenants :
       (/\ Ends(r)
        /\ ask[r].kind \in {"newRoute", "route"}
        /\ ask[r].by # Platform
        /\ ~overtaken[r]
        /\ Offered(t)' # Offered(t))
         => \/ ask[r].by = t
            \/ ask[r].by = "app" /\ (ask[r].scope = t \/ ActiveIn(t) = {})]_vars

Usable(m) == IsActive(m) /\ provider[model[m].of] = "active"

(* A route of scope s has the model the call c took.                       *)
Has(s, c) == \E x \in ActiveIn(s) : route[x].primary = call[c].model

(* Its model is of the tenant's own route, of the app's route if the       *)
(* tenant has none, or of a global one if neither has any.                 *)
WellChosen(c) ==
  LET t == call[c].tenant IN
  \/ Has(t, c)
  \/ ActiveIn(t) = {} /\ Has("app", c)
  \/ ActiveIn(t) = {} /\ ActiveIn("app") = {} /\ Has("global", c)

(* An AI call no request overtook ends as the catalogue says at its end:   *)
(* it is sent if the model chosen and its provider are active, and refused *)
(* if not, or if there is no route.                                        *)
UndisturbedCallsAgree ==
  \A c \in Calls :
    (pc[c] = "ended" /\ ~overtaken[c]) =>
      IF call[c].outcome = "sent" THEN WellChosen(c) /\ Usable(call[c].model)
      ELSE \/ \A s \in {call[c].tenant, "app", "global"} : ActiveIn(s) = {}
           \/ WellChosen(c) /\ ~Usable(call[c].model)
=============================================================================
