---------------------------- MODULE MCFileIndex ----------------------------
(***************************************************************************)
(* A small repository for TLC.                                             *)
(***************************************************************************)
EXTENDS FileIndex

MCPaths == {1, 2}
=============================================================================
