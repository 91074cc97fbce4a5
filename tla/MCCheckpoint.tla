---------------------------- MODULE MCCheckpoint ----------------------------
(***************************************************************************)
(* A small instance of Checkpoint.                                         *)
(***************************************************************************)
EXTENDS Checkpoint
=============================================================================
