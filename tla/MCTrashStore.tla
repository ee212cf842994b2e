---------------------------- MODULE MCTrashStore ----------------------------
(***************************************************************************)
(* A small instance of TrashStore for TLC.  Liveness is checked with it,   *)
(* so it has no symmetry.                                                  *)
(***************************************************************************)
EXTENDS TrashStore
=============================================================================
