-------------------------- MODULE MCKnowledgeIngest --------------------------
(***************************************************************************)
(* Instances of KnowledgeIngest for TLC.                                   *)
(***************************************************************************)
EXTENDS KnowledgeIngest, TLC

(* README.md:260 says that a file submitted without inline content has a   *)
(* worker job queued: once the request is over, a pending file has a job.  *)
PendingHasJob ==
  \A f \in Files :
    parse[f] = "pending" /\ request[f] # "enqueue" => job[f] # "none"
=============================================================================
