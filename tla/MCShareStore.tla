---------------------------- MODULE MCShareStore ----------------------------
(***************************************************************************)
(* A small instance of ShareStore.  A token of each sort that behaves      *)
(* differently: a one-download link, and a drop box.                       *)
(***************************************************************************)
EXTENDS ShareStore, TLC

CONSTANTS once, box

KindOf == [t \in Tokens |-> IF t = box THEN "drop" ELSE "link"]
ExpiryOf == [t \in Tokens |-> IF t = once THEN "1download" ELSE "timed"]

(* A folder, and a place to move it to.                                    *)
TwoPaths == {<<"a">>, <<"b">>}

(* Requests are interchangeable.                                           *)
Symmetry == Permutations(Requests)
=============================================================================
