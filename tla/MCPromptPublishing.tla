-------------------------- MODULE MCPromptPublishing --------------------------
(***************************************************************************)
(* An instance of PromptPublishing for TLC: a prompt of the app and one of *)
(* a tenant that hides it.                                                 *)
(***************************************************************************)
EXTENDS PromptPublishing, TLC

CONSTANTS pApp, pTenant, t1, r1, r2

Scopes == [p \in Prompts |-> IF p = pApp THEN "app" ELSE t1]

(* Two versions of the app's prompt, one of the tenant's.                 *)
HighestVersion == [p \in Prompts |-> IF p = pApp THEN 2 ELSE 1]

AlikeRequests == Permutations({r1, r2})
===============================================================================
