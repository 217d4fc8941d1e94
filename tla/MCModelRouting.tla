---------------------------- MODULE MCModelRouting ----------------------------
(***************************************************************************)
(* An instance of ModelRouting for TLC.                                    *)
(***************************************************************************)
EXTENDS ModelRouting, TLC

CONSTANTS p1, p2, m1, m2, x1, x2, ta, tb, r1, r2

NewRoute(by, s, m, f, st) ==
  [kind |-> "newRoute", by |-> by, scope |-> s, primary |-> m, fallback |-> f, status |-> st]

ChangeRoute(by, x, s, m, f, st) ==
  [kind |-> "route", by |-> by, id |-> x, scope |-> s, primary |-> m, fallback |-> f,
   status |-> st]

(* Two providers and two models, of which m1 is disabled, moved and        *)
(* activated again; routes for the app and for a tenant, which are         *)
(* switched off and moved from the app to a tenant.  In the context of the *)
(* app somebody overwrites the route of one tenant and gives the other one *)
(* the app's.                                                              *)
FewAsks ==
  [kind : {"newProvider"}, id : Providers, status : {"active"}]
  \cup [kind : {"provider"}, id : {p1}, status : {"active", "archived"}]
  \cup [kind : {"newModel"}, id : Models, of : {p1}, status : {"active"}]
  \cup [kind : {"model"}, id : {m1}, of : {Keep}, status : {"active", "inactive", "disabled"}]
  \cup {[kind |-> "model", id |-> m1, of |-> p2, status |-> Keep]}
  \cup {NewRoute(Platform, "app", m1, Keep, "active"),
        NewRoute(ta, "app", m2, m1, "active"),
        NewRoute(ta, "app", m2, Keep, "active"),
        NewRoute("app", ta, m2, Keep, "active"),
        ChangeRoute("app", x1, tb, Keep, Keep, Keep),
        ChangeRoute(ta, x2, Keep, Keep, Keep, "inactive"),
        ChangeRoute(Platform, x1, ta, Keep, Keep, "inactive"),
        ChangeRoute(ta, x1, Keep, m1, NoModel, Keep),
        ChangeRoute(tb, x1, Keep, Keep, Keep, "inactive")}

(* The handlers of requests are alike.                                     *)
AlikeRequests == Permutations({r1, r2})
===============================================================================
