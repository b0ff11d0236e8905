---------------------------- MODULE MCBatchLoop ----------------------------
(***************************************************************************)
(* TLC instance of the shared consume loop.                                *)
(***************************************************************************)
EXTENDS BatchLoop
=============================================================================
