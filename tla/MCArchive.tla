------------------------------ MODULE MCArchive ------------------------------
(***************************************************************************)
(* Small instances of Archive: two names at the top, one name in a folder. *)
(***************************************************************************)
EXTENDS Archive, TLC

SomePaths == {<<"a">>, <<"b">>, <<"a", "x">>, <<"b", "x">>}

(* A folder with a file in it; a second folder and a second file may come. *)
Archives ==
  {[i \in Items |-> IF i = d THEN <<"a">> ELSE IF i = f THEN <<"a", "x">> ELSE Nowhere]
   : d \in Folders, f \in Files}

Symmetry ==
  Permutations(Callers) \cup Permutations(Files) \cup Permutations(Folders)
=============================================================================
