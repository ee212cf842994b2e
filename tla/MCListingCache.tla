--------------------------- MODULE MCListingCache ---------------------------
(***************************************************************************)
(* A small instance of ListingCache: a folder with a file and a folder     *)
(* that comes and goes; links to that folder, to a hidden folder and out   *)
(* of the archive; and in the hidden folder a link back to the visible one.*)
(***************************************************************************)
EXTENDS ListingCache, TLC

CONSTANTS outside, r1, r2

A == <<"a">>
M == <<"a", "m">>
X == <<"a", "x">>
T == <<".t">>
Y == <<".t", "y">>
ToX == <<"m">>
ToT == <<"h">>
ToOutside == <<"o">>

SomePlaces == {A, M, X, T, Y, ToX, ToT, ToOutside}
KindOf == [p \in SomePlaces |-> IF p \in {A, X, T} THEN "dir" ELSE IF p = M THEN "file" ELSE "link"]
TargetOf == [p \in {Y, ToX, ToT, ToOutside} |->
              IF p = Y THEN A ELSE IF p = ToX THEN X ELSE IF p = ToT THEN T ELSE outside]
AlwaysThere == SomePlaces \ {X}
SomeKeys == {Root, A, X, ToX}

(* One request searches and asks for the disk usage, one browses.          *)
TwoComeFor == [r \in {r1, r2} |-> IF r = r1 THEN {"search", "disk"} ELSE {"tree"}]
=============================================================================
