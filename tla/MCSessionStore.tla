--------------------------- MODULE MCSessionStore ---------------------------
(***************************************************************************)
(* Small instances of SessionStore: one user has two of the sessions, so   *)
(* that destroyByUsername removes several at once.                         *)
(***************************************************************************)
EXTENDS SessionStore, TLC

CONSTANTS alice, bob, lastSession

OwnerOf == [s \in Sessions |-> IF s = lastSession THEN bob ELSE alice]

(* The sessions of alice are interchangeable, and so are the callers.      *)
Symmetry == Permutations(Sessions \ {lastSession}) \cup Permutations(Callers)
=============================================================================
