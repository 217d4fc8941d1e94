-------------------------- MODULE MCWebhookDelivery --------------------------
(***************************************************************************)
(* Instances of WebhookDelivery for TLC.                                   *)
(***************************************************************************)
EXTENDS WebhookDelivery, TLC

CONSTANTS a, b

(* The first webhook is a's, the second b's, the third the app's.          *)
Owners == [h \in Hooks |-> IF h = 1 THEN a ELSE IF h = 2 THEN b ELSE AnyTenant]

(* Every event is of tenant a.                                             *)
FromA == [e \in Events |-> a]
=============================================================================
