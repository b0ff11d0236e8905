-------------------------- MODULE MCLaddLifecycle --------------------------
(***************************************************************************)
(* TLC instance of the list lifecycle.                                     *)
(***************************************************************************)
EXTENDS LaddLifecycle
=============================================================================
