-------------------------- MODULE MCMutationEvents --------------------------
(* A small instance of MutationEvents for TLC. *)
EXTENDS MutationProperties

CONSTANTS app, cron, ann, kim, lee
=============================================================================
