---------------------------- MODULE MCTenantSetup -----------------------------
(***************************************************************************)
(* An instance of TenantSetup for TLC.                                     *)
(***************************************************************************)
EXTENDS TenantSetup, TLC

CONSTANTS ta, tb, u1, m1, m2, p1, r1, r2

Permits == [k \in Keys |-> {p1}]

NewTenant(t, i, o) == [op |-> "create", tenant |-> t, init |-> i, owner |-> o]
NewMember(t, u, ro) == [op |-> "add", tenant |-> t, user |-> u, role |-> ro]
Change(t, m, ro, s) == [op |-> "update", tenant |-> t, id |-> m, role |-> ro, status |-> s]

(* A tenant with an owner and one without roles, both of which may get     *)
(* roles later; members with a role of their own, another's and the app's. *)
FewBodies ==
  {NewTenant(ta, TRUE, u1), NewTenant(tb, FALSE, NoUser), NewTenant(tb, FALSE, u1),
   [op |-> "init", tenant |-> ta],
   NewMember(tb, u1, <<"app", 2>>), NewMember(tb, u1, <<ta, 2>>),
   Change(ta, m1, Keep, "disabled"), Change(ta, m1, <<"app", 2>>, Keep)}

AlikeRequests == Permutations({r1, r2})
===============================================================================
