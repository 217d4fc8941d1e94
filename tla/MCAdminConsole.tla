---------------------------- MODULE MCAdminConsole ----------------------------
(***************************************************************************)
(* An instance of AdminConsole for TLC.                                    *)
(***************************************************************************)
EXTENDS AdminConsole, TLC

CONSTANTS ua, ub, x1, tenants, audit, providers, models, dashboard, members, operations

HomeOf == [u \in Users |-> NoContext]

AlikeUsers == Permutations({ua, ub})

OverTenants == [p \in Panels |-> tenants]

(* Bound: the last fetch is left for what a save renews while a panel is   *)
(* open, which takes three others to come to.                              *)
LastFetchRenews ==
  fetches = MaxFetches => panel # NoPanel /\ \E s \in Saves : save[s].stage = "told"

(* Bound: a lost answer is a mishap like others, and the last.  What comes *)
(* after the save has ended is as without it.                              *)
LostIsLast ==
  \A s \in Saves : save[s].lost > 0 => events = 0 /\ save[s].stage \in Pending
===============================================================================
