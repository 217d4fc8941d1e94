--------------------------- MODULE AtomicCatalogue ---------------------------
(***************************************************************************)
(* What AiCenterService promises of the catalogue of providers, models and *)
(* routes, were every administrator's request alone: it checks and writes  *)
(* in one step, or changes nothing.                                        *)
(***************************************************************************)
CONSTANTS Providers, Models, Routes, Tenants, Platform, Asks, NoModel, Keep

VARIABLES provider, model, route

catalogue == <<provider, model, route>>

Off == {"disabled", "archived"}

IsActive(m) == model[m].status = "active"

InScope(s) == {x \in Routes : route[x].status # "absent" /\ route[x].scope = s}

(* A value of the body, or what is there if the body does not have one.    *)
Or(new, old) == IF new = Keep THEN old ELSE new

Init ==
  /\ provider = [p \in Providers |-> "absent"]
  /\ model = [m \in Models |-> [status |-> "absent", of |-> CHOOSE p \in Providers : TRUE]]
  /\ route = [x \in Routes |-> [status |-> "absent", scope |-> "global",
                                primary |-> CHOOSE m \in Models : TRUE,
                                fallback |-> NoModel]]

NewProvider(a) ==
  /\ a.kind = "newProvider"
  /\ provider[a.id] = "absent"
  /\ provider' = [provider EXCEPT ![a.id] = a.status]
  /\ UNCHANGED <<model, route>>

(* A provider is switched off only if none of its models is in use.        *)
ChangeProvider(a) ==
  /\ a.kind = "provider"
  /\ provider[a.id] # "absent"
  /\ a.status \in Off =>
       \A m \in Models : model[m].of = a.id => model[m].status \notin {"active", "inactive"}
  /\ provider' = [provider EXCEPT ![a.id] = Or(a.status, @)]
  /\ UNCHANGED <<model, route>>

NewModel(a) ==
  /\ a.kind = "newModel"
  /\ model[a.id].status = "absent"
  /\ provider[a.of] = "active"
  /\ model' = [model EXCEPT ![a.id] = [status |-> a.status, of |-> a.of]]
  /\ UNCHANGED <<provider, route>>

(* A model goes to an active provider only, and is switched off only if no *)
(* active route names it.                                                  *)
ChangeModel(a) ==
  /\ a.kind = "model"
  /\ model[a.id].status # "absent"
  /\ a.of \notin {Keep, model[a.id].of} => provider[a.of] = "active"
  /\ a.status \in Off =>
       \A x \in Routes :
         route[x].status = "active" => a.id \notin {route[x].primary, route[x].fallback}
  /\ model' = [model EXCEPT ![a.id] = [status |-> Or(a.status, @.status), of |-> Or(a.of, @.of)]]
  /\ UNCHANGED <<provider, route>>

(* Whose route it is: the platform says so, and for an app a body may name *)
(* one of its tenants.                                                     *)
Scope(a) ==
  IF a.by = Platform \/ (a.by = "app" /\ a.scope \in Tenants) THEN a.scope ELSE a.by

(* There is one route for a scope: the one there is changes, or a new one  *)
(* comes to be.  Its models are active, but for a fallback it had already. *)
SetRoute(a, x) ==
  LET s == Scope(a) IN
  /\ a.kind = "newRoute"
  /\ IsActive(a.primary)
  /\ a.fallback \notin {NoModel, Keep} => IsActive(a.fallback)
  /\ IF InScope(s) = {} THEN route[x].status = "absent" ELSE x \in InScope(s)
  /\ route' = [route EXCEPT ![x] =
                 [status   |-> a.status,
                  scope    |-> s,
                  primary  |-> a.primary,
                  fallback |-> Or(a.fallback, IF InScope(s) = {} THEN NoModel ELSE @.fallback)]]
  /\ UNCHANGED <<provider, model>>

(* A tenant's route stays with its tenant unless the platform gives it to  *)
(* another one; the app's may be given to a tenant.                        *)
NewScope(a, x) ==
  IF a.scope = Keep \/ (a.scope = "app" /\ x.scope \in Tenants) THEN x.scope ELSE Scope(a)

(* A route is changed in its own context or by the platform, to the only   *)
(* route of a tenant, and to active models if it is to be active itself.   *)
ChangeRoute(a) ==
  LET new == [status   |-> Or(a.status, route[a.id].status),
              scope    |-> NewScope(a, route[a.id]),
              primary  |-> Or(a.primary, route[a.id].primary),
              fallback |-> Or(a.fallback, route[a.id].fallback)] IN
  /\ a.kind = "route"
  /\ route[a.id].status # "absent"
  /\ a.by # Platform => route[a.id].scope = a.by
  /\ new.status = "active" =>
       IsActive(new.primary) /\ (new.fallback # NoModel => IsActive(new.fallback))
  /\ new.scope \in Tenants => InScope(new.scope) \subseteq {a.id}
  /\ route' = [route EXCEPT ![a.id] = new]
  /\ UNCHANGED <<provider, model>>

Next ==
  \E a \in Asks :
    \/ NewProvider(a)
    \/ ChangeProvider(a)
    \/ NewModel(a)
    \/ ChangeModel(a)
    \/ \E x \in Routes : SetRoute(a, x)
    \/ ChangeRoute(a)

Spec == Init /\ [][Next]_catalogue
===============================================================================
