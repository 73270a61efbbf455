---------------------------- MODULE MCClientLocks ----------------------------
(***************************************************************************)
(* ClientLocks with one subscription.                                      *)
(***************************************************************************)
EXTENDS ClientLocks

CONSTANT x1

OneSubscribed == <<x1>>
=============================================================================
