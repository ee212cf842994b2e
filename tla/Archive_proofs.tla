--------------------------- MODULE Archive_proofs ---------------------------
(***************************************************************************)
(* Proofs about Archive, for any number of requests, items and shares, any *)
(* names and every tree of them.  Paths is a bound of the runs: here every *)
(* path of the names is used (AllPaths), so that what is below a path is   *)
(* one too.                                                                *)
(*                                                                         *)
(* A request that overlaps with no other finds what it works on as it left *)
(* it: no other request moves, creates or removes anything in its area,    *)
(* which FarStays shows from what each step touches.  So nothing is at the *)
(* place it renames to, nothing but its own below the place it cleans up,  *)
(* and an item can go back from the trash.  What overlaps is excused       *)
(* before it can be lost.                                                  *)
(*                                                                         *)
(* A share is at home where its item is, or its item was moved by a        *)
(* request that is on its way to the share store (Accounted); the same     *)
(* facts about areas keep every other request away from both.              *)
(***************************************************************************)
EXTENDS Archive, SequenceTheorems, TLAPS

(* Prefixes, place by place.                                               *)
LEMMA PrefixIs ==
  ASSUME NEW S, NEW s \in Seq(S), NEW t \in Seq(S)
  PROVE  IsPrefix(s, t) <=> Len(s) <= Len(t) /\ \A k \in 1 .. Len(s) : s[k] = t[k]
<1>1. ASSUME Len(s) <= Len(t)
      PROVE  /\ SubSeq(s, 1, Len(s)) = s
             /\ SubSeq(t, 1, Len(s)) \in Seq(S)
             /\ Len(SubSeq(t, 1, Len(s))) = Len(s)
             /\ \A k \in 1 .. Len(s) : SubSeq(t, 1, Len(s))[k] = t[k]
  BY <1>1
<1>2. ASSUME Len(s) <= Len(t), \A k \in 1 .. Len(s) : s[k] = t[k]
      PROVE  s = SubSeq(t, 1, Len(s))
  BY <1>1, <1>2, SeqEqual
<1> QED BY <1>1, <1>2 DEF IsPrefix

LEMMA PrefixRefl == ASSUME NEW S, NEW s \in Seq(S) PROVE IsPrefix(s, s)
BY PrefixIs

LEMMA PrefixTrans ==
  ASSUME NEW S, NEW a \in Seq(S), NEW b \in Seq(S), NEW x \in Seq(S),
         IsPrefix(a, b), IsPrefix(b, x)
  PROVE  IsPrefix(a, x)
BY PrefixIs

LEMMA PrefixAnti ==
  ASSUME NEW S, NEW a \in Seq(S), NEW b \in Seq(S), IsPrefix(a, b), Len(b) <= Len(a)
  PROVE  a = b
BY PrefixIs, SeqEqual

LEMMA PrefixesCompare ==
  ASSUME NEW S, NEW a \in Seq(S), NEW b \in Seq(S), NEW x \in Seq(S),
         IsPrefix(a, x), IsPrefix(b, x)
  PROVE  IsPrefix(a, b) \/ IsPrefix(b, a)
<1>1. CASE Len(a) <= Len(b) BY <1>1, PrefixIs
<1>2. CASE Len(b) <= Len(a) BY <1>2, PrefixIs
<1> QED BY <1>1, <1>2

(* The proper prefixes of x, but for the empty one.                        *)
StrictPrefixes(x) == {SubSeq(x, 1, n) : n \in 1 .. (Len(x) - 1)}

LEMMA StrictPrefixIs ==
  ASSUME NEW S, NEW a, NEW x \in Seq(S)
  PROVE  a \in StrictPrefixes(x) <=> a \in Seq(S) /\ a # << >> /\ a # x /\ IsPrefix(a, x)
<1>1. ASSUME NEW n \in 1 .. (Len(x) - 1)
      PROVE  /\ SubSeq(x, 1, n) \in Seq(S) /\ Len(SubSeq(x, 1, n)) = n
             /\ \A k \in 1 .. n : SubSeq(x, 1, n)[k] = x[k]
  OBVIOUS
<1>2. ASSUME NEW n \in 1 .. (Len(x) - 1), a = SubSeq(x, 1, n)
      PROVE  a \in Seq(S) /\ a # << >> /\ a # x /\ IsPrefix(a, x)
  <2>1. a \in Seq(S) /\ Len(a) = n /\ \A k \in 1 .. n : a[k] = x[k]
    BY <1>1, <1>2
  <2>2. IsPrefix(a, x) BY <2>1, PrefixIs
  <2> QED BY <2>1, <2>2
<1>3. ASSUME a \in Seq(S), a # << >>, a # x, IsPrefix(a, x)
      PROVE  \E n \in 1 .. (Len(x) - 1) : a = SubSeq(x, 1, n)
  <2>1. Len(a) <= Len(x) /\ \A k \in 1 .. Len(a) : a[k] = x[k] BY <1>3, PrefixIs
  <2>2. Len(a) # Len(x) BY <1>3, PrefixAnti
  <2>3. Len(a) # 0 BY <1>3
  <2>4. Len(a) \in 1 .. (Len(x) - 1) BY <1>3, <2>1, <2>2, <2>3
  <2>5. a = SubSeq(x, 1, Len(a)) BY <1>1, <1>3, <2>1, <2>4, SeqEqual
  <2> QED BY <2>4, <2>5
<1> QED BY <1>2, <1>3 DEF StrictPrefixes

LEMMA FrontIs ==
  ASSUME NEW S, NEW x \in Seq(S), Len(x) > 1
  PROVE  /\ Front(x) \in StrictPrefixes(x) /\ Front(x) \in Seq(S)
         /\ \A a \in StrictPrefixes(x) : a = Front(x) \/ a \in StrictPrefixes(Front(x))
<1>1. Front(x) \in Seq(S) /\ Len(Front(x)) = Len(x) - 1
      /\ \A k \in 1 .. (Len(x) - 1) : Front(x)[k] = x[k]
  BY DEF Front
<1>2. Front(x) \in StrictPrefixes(x) BY DEF Front, StrictPrefixes
<1>3. ASSUME NEW a \in StrictPrefixes(x), a # Front(x)
      PROVE  a \in StrictPrefixes(Front(x))
  <2>1. a \in Seq(S) /\ a # << >> /\ a # x /\ IsPrefix(a, x)
    BY StrictPrefixIs
  <2>2. Len(a) # Len(x) BY <2>1, PrefixAnti
  <2>3. Len(a) <= Len(Front(x)) /\ \A k \in 1 .. Len(a) : a[k] = Front(x)[k]
    BY <1>1, <2>1, <2>2, PrefixIs
  <2>4. IsPrefix(a, Front(x)) BY <1>1, <2>1, <2>3, PrefixIs
  <2> QED BY <1>1, <1>3, <2>1, <2>4, StrictPrefixIs
<1> QED BY <1>1, <1>2, <1>3

-----------------------------------------------------------------------------
(* A path whose beginning p becomes q.                                     *)
Moved(x, p, q) == q \o SubSeq(x, Len(p) + 1, Len(x))

LEMMA MovedIs ==
  ASSUME NEW S, NEW x \in Seq(S), NEW p \in Seq(S), NEW q \in Seq(S), IsPrefix(p, x)
  PROVE  /\ Moved(x, p, q) \in Seq(S)
         /\ Len(Moved(x, p, q)) = Len(q) + (Len(x) - Len(p))
         /\ \A k \in 1 .. Len(q) : Moved(x, p, q)[k] = q[k]
         /\ \A k \in 1 .. (Len(x) - Len(p)) :
              Moved(x, p, q)[Len(q) + k] = x[Len(p) + k]
         /\ IsPrefix(q, Moved(x, p, q))
         /\ Moved(x, p, q) = q <=> x = p
<1> DEFINE z == SubSeq(x, Len(p) + 1, Len(x))
           r == Moved(x, p, q)
<1>1. Len(p) <= Len(x) BY PrefixIs
<1>2. z \in Seq(S) /\ Len(z) = Len(x) - Len(p)
      /\ \A k \in 1 .. (Len(x) - Len(p)) : z[k] = x[Len(p) + k]
  BY <1>1
<1>3. r = q \o z BY DEF Moved
<1> HIDE DEF z, r
<1>4. /\ r \in Seq(S) /\ Len(r) = Len(q) + (Len(x) - Len(p))
      /\ \A k \in 1 .. Len(q) : r[k] = q[k]
      /\ \A k \in 1 .. (Len(x) - Len(p)) : r[Len(q) + k] = z[k]
  <2>1. /\ q \o z \in Seq(S) /\ Len(q \o z) = Len(q) + Len(z)
        /\ \A i \in 1 .. Len(q) + Len(z) :
             (q \o z)[i] = IF i <= Len(q) THEN q[i] ELSE z[i - Len(q)]
    BY <1>2, ConcatProperties
  <2>2. \A k \in 1 .. (Len(x) - Len(p)) : (q \o z)[Len(q) + k] = z[k]
    BY <1>1, <1>2, <2>1
  <2>3. \A k \in 1 .. Len(q) : (q \o z)[k] = q[k]
    BY <1>1, <1>2, <2>1
  <2> QED BY <1>1, <1>2, <1>3, <2>1, <2>2, <2>3
<1>5. IsPrefix(q, r) BY <1>1, <1>4, PrefixIs
<1>6. r = q <=> x = p
  <2>1. ASSUME r = q PROVE x = p
    BY <1>1, <1>4, <2>1, PrefixAnti
  <2>2. ASSUME x = p PROVE r = q
    BY <1>4, <1>5, <2>2, PrefixAnti
  <2> QED BY <2>1, <2>2
<1>7. \A k \in 1 .. (Len(x) - Len(p)) : r[Len(q) + k] = x[Len(p) + k]
  BY <1>2, <1>4
<1> QED BY <1>4, <1>5, <1>6, <1>7 DEF r

LEMMA MovedInjective ==
  ASSUME NEW S, NEW x \in Seq(S), NEW y \in Seq(S), NEW p \in Seq(S), NEW q \in Seq(S),
         IsPrefix(p, x), IsPrefix(p, y)
  PROVE  Moved(x, p, q) = Moved(y, p, q) => x = y
<1>a. Len(Moved(x, p, q)) = Len(q) + (Len(x) - Len(p)) BY MovedIs
<1>b. \A k \in 1 .. (Len(x) - Len(p)) : Moved(x, p, q)[Len(q) + k] = x[Len(p) + k] BY MovedIs
<1>c. Len(Moved(y, p, q)) = Len(q) + (Len(y) - Len(p)) BY MovedIs
<1>d. \A k \in 1 .. (Len(y) - Len(p)) : Moved(y, p, q)[Len(q) + k] = y[Len(p) + k] BY MovedIs
<1>e. SUFFICES ASSUME Moved(x, p, q) = Moved(y, p, q) PROVE x = y
  OBVIOUS
<1>r. PICK r : r = Moved(x, p, q) OBVIOUS
<1>0. /\ Len(r) = Len(q) + (Len(x) - Len(p))
      /\ \A k \in 1 .. (Len(x) - Len(p)) : r[Len(q) + k] = x[Len(p) + k]
      /\ Len(r) = Len(q) + (Len(y) - Len(p))
      /\ \A k \in 1 .. (Len(y) - Len(p)) : r[Len(q) + k] = y[Len(p) + k]
  BY <1>e, <1>r, <1>a, <1>b, <1>c, <1>d
<1>1. Len(x) = Len(y)
  BY <1>0
<1>2. \A k \in 1 .. (Len(x) - Len(p)) : x[Len(p) + k] = y[Len(p) + k]
  BY <1>0, <1>1
<1>3. Len(p) <= Len(x) /\ \A k \in 1 .. Len(p) : x[k] = y[k]
  BY PrefixIs
<1>4. ASSUME NEW k \in 1 .. Len(x) PROVE x[k] = y[k]
  <2>1. CASE k <= Len(p) BY <1>3, <2>1
  <2>2. CASE k > Len(p)
    <3>1. k - Len(p) \in 1 .. (Len(x) - Len(p)) BY <2>2
    <3>2. Len(p) + (k - Len(p)) = k BY <2>2
    <3> QED BY <1>2, <3>1, <3>2
  <2> QED BY <2>1, <2>2
<1> QED BY <1>1, <1>4, SeqEqual

(* What leads to a rewritten path leads to q, is q, or is rewritten.       *)
LEMMA MovedPrefixes ==
  ASSUME NEW S, NEW x \in Seq(S), NEW p \in Seq(S), NEW q \in Seq(S), IsPrefix(p, x),
         p # << >>, q # << >>,
         NEW a \in StrictPrefixes(Moved(x, p, q))
  PROVE  \/ a \in StrictPrefixes(q)
         \/ \E b \in Seq(S) : /\ b = p \/ b \in StrictPrefixes(x)
                              /\ b # x /\ IsPrefix(p, b) /\ a = Moved(b, p, q)
<1>r. PICK r : r = Moved(x, p, q) OBVIOUS
<1>a. Moved(x, p, q) \in Seq(S) BY MovedIs
<1>b. Len(Moved(x, p, q)) = Len(q) + (Len(x) - Len(p)) BY MovedIs
<1>c. \A k \in 1 .. Len(q) : Moved(x, p, q)[k] = q[k] BY MovedIs
<1>d. \A k \in 1 .. (Len(x) - Len(p)) : Moved(x, p, q)[Len(q) + k] = x[Len(p) + k] BY MovedIs
<1>1. /\ r \in Seq(S) /\ Len(r) = Len(q) + (Len(x) - Len(p))
      /\ \A k \in 1 .. Len(q) : r[k] = q[k]
      /\ \A k \in 1 .. (Len(x) - Len(p)) : r[Len(q) + k] = x[Len(p) + k]
  BY <1>r, <1>a, <1>b, <1>c, <1>d
<1>2. a \in Seq(S) /\ a # << >> /\ a # r /\ IsPrefix(a, r)
  BY <1>r, <1>1, StrictPrefixIs
<1>3. Len(a) < Len(r) /\ \A k \in 1 .. Len(a) : a[k] = r[k]
  <2>1. Len(a) <= Len(r) /\ \A k \in 1 .. Len(a) : a[k] = r[k] BY <1>1, <1>2, PrefixIs
  <2>2. Len(a) # Len(r) BY <1>1, <1>2, PrefixAnti
  <2>4. Len(a) \in Nat /\ Len(r) \in Nat BY <1>1, <1>2, LenProperties
  <2> QED BY <2>1, <2>2, <2>4
<1>4. CASE Len(a) < Len(q)
  <2>1. IsPrefix(a, q) BY <1>1, <1>2, <1>3, <1>4, PrefixIs
  <2> QED BY <1>2, <1>4, <2>1, StrictPrefixIs
<1>5. CASE Len(a) >= Len(q)
  <2> DEFINE n == Len(p) + (Len(a) - Len(q))
  <2>0. Len(p) <= Len(x) /\ \A k \in 1 .. Len(p) : p[k] = x[k] BY PrefixIs
  <2>1. n \in Len(p) .. (Len(x) - 1) BY <1>1, <1>2, <1>3, <1>5, <2>0
  <2>2. /\ SubSeq(x, 1, n) \in Seq(S) /\ Len(SubSeq(x, 1, n)) = n
        /\ \A k \in 1 .. n : SubSeq(x, 1, n)[k] = x[k]
    BY <2>1
  <2>3. PICK b \in Seq(S) : Len(b) = n /\ \A k \in 1 .. n : b[k] = x[k]
    BY <2>2
  <2>4. IsPrefix(p, b) BY <2>0, <2>1, <2>3, PrefixIs
  <2>5. b # x BY <2>1, <2>3
  <2>6. IsPrefix(b, x) BY <2>1, <2>3, PrefixIs
  <2>7. Len(p) # 0 OBVIOUS
  <2>8. b \in StrictPrefixes(x)
    BY <2>1, <2>3, <2>5, <2>6, <2>7, StrictPrefixIs
  <2>t. PICK t : t = Moved(b, p, q) OBVIOUS
  <2>a. Moved(b, p, q) \in Seq(S) BY <2>4, MovedIs
  <2>b. Len(Moved(b, p, q)) = Len(q) + (Len(b) - Len(p)) BY <2>4, MovedIs
  <2>c. \A k \in 1 .. Len(q) : Moved(b, p, q)[k] = q[k] BY <2>4, MovedIs
  <2>d. \A k \in 1 .. (Len(b) - Len(p)) : Moved(b, p, q)[Len(q) + k] = b[Len(p) + k] BY <2>4, MovedIs
  <2>9. /\ t \in Seq(S) /\ Len(t) = Len(q) + (Len(b) - Len(p))
        /\ \A k \in 1 .. Len(q) : t[k] = q[k]
        /\ \A k \in 1 .. (Len(b) - Len(p)) : t[Len(q) + k] = b[Len(p) + k]
    BY <2>t, <2>a, <2>b, <2>c, <2>d
  <2>10. Len(t) = Len(a) BY <1>2, <2>3, <2>9
  <2>11. ASSUME NEW k \in 1 .. Len(a) PROVE t[k] = a[k]
    <3>1. CASE k <= Len(q) BY <1>1, <1>3, <2>9, <3>1
    <3>2. CASE k > Len(q)
      <4> DEFINE m == k - Len(q)
      <4>1. m \in 1 .. (Len(b) - Len(p)) /\ m \in 1 .. (Len(x) - Len(p)) /\ Len(q) + m = k
            /\ Len(p) + m \in 1 .. n
        BY <2>1, <2>3, <2>9, <2>10, <3>2, <1>2
      <4>2. t[Len(q) + m] = b[Len(p) + m] BY <2>9, <4>1
      <4>3. r[Len(q) + m] = x[Len(p) + m] BY <1>1, <4>1
      <4>4. b[Len(p) + m] = x[Len(p) + m] BY <2>3, <4>1
      <4> QED BY <1>3, <4>1, <4>2, <4>3, <4>4
    <3> QED BY <3>1, <3>2
  <2>12. t = a BY <1>2, <2>9, <2>10, <2>11, SeqEqual
  <2> QED BY <2>t, <2>4, <2>5, <2>8, <2>12
<1> QED BY <1>1, <1>2, <1>4, <1>5

-----------------------------------------------------------------------------
(* The places of items.                                                    *)

Names == UNION {{p[k] : k \in DOMAIN p} : p \in Paths}

(* No bound on the paths: every sequence of names is one.                  *)
AllPaths == Paths = Seq(Names) \ {<< >>}

Symbols == Names \cup Items \cup {"trash", "gone"}

TrashPlaces ==
  {x \in Seq(Symbols) : /\ Len(x) >= 2 /\ x[1] = "trash" /\ x[2] \in Items
                        /\ \A k \in 3 .. Len(x) : x[k] \in Names}

Places == Paths \cup {Nowhere, Gone} \cup TrashPlaces

LEMMA PathsAre ==
  ASSUME AllPaths
  PROVE  /\ Names \cap {"trash", "gone"} = {}
         /\ \A p \in Paths : /\ p \in Seq(Names) /\ p \in Seq(Symbols) /\ p # << >>
                             /\ Len(p) > 0 /\ p[1] \in Names /\ p[1] \notin {"trash", "gone"}
<1>1. ASSUME NEW n \in Names PROVE n \notin {"trash", "gone"}
  <2>1. <<n>> \in Paths BY DEF AllPaths
  <2>2. <<n>>[1] \notin {"trash", "gone"} BY <2>1, PathsAssumption
  <2> QED BY <2>2
<1>2. ASSUME NEW p \in Paths
      PROVE  p \in Seq(Names) /\ p # << >> /\ Len(p) > 0 /\ p[1] \in Names
  BY DEF AllPaths
<1>3. Seq(Names) \subseteq Seq(Symbols)
  BY DEF Symbols
<1> QED BY <1>1, <1>2, <1>3

LEMMA PlacesAreSequences ==
  ASSUME AllPaths, NEW x \in Places
  PROVE  x \in Seq(Symbols)
<1>1. Nowhere \in Seq(Symbols) /\ Gone \in Seq(Symbols) BY DEF Nowhere, Gone, Symbols
<1> QED BY <1>1, PathsAre DEF Places, TrashPlaces

LEMMA TrashTop ==
  ASSUME NEW i \in Items
  PROVE  /\ TrashPlace(i) \in TrashPlaces /\ TrashPlace(i) \in Seq(Symbols)
         /\ Len(TrashPlace(i)) = 2 /\ TrashPlace(i) # << >>
         /\ TrashPlace(i)[1] = "trash" /\ TrashPlace(i)[2] = i
BY DEF TrashPlace, TrashPlaces, Symbols

LEMMA PlacesDiffer ==
  ASSUME AllPaths
  PROVE  /\ Nowhere \notin Paths /\ Gone \notin Paths /\ Nowhere # Gone
         /\ \A x \in TrashPlaces : x \notin Paths \cup {Nowhere, Gone}
BY PathsAre DEF Nowhere, Gone, TrashPlaces

LEMMA UnderPath ==
  ASSUME AllPaths, NEW p \in Paths, NEW x \in Places, IsPrefix(p, x)
  PROVE  x \in Paths
<1>1. p \in Seq(Symbols) /\ Len(p) > 0 /\ p[1] \notin {"trash", "gone"} BY PathsAre
<1>2. x \in Seq(Symbols) BY PlacesAreSequences
<1>3. Len(x) > 0 /\ x[1] = p[1] BY <1>1, <1>2, PrefixIs
<1> QED BY <1>1, <1>3 DEF Places, TrashPlaces, Nowhere, Gone

LEMMA UnderTrash ==
  ASSUME AllPaths, NEW i \in Items, NEW x \in Places, IsPrefix(TrashPlace(i), x)
  PROVE  x \in TrashPlaces
<1>1. x \in Seq(Symbols) BY PlacesAreSequences
<1>2. Len(x) >= 2 /\ x[1] = "trash" BY <1>1, TrashTop, PrefixIs
<1> QED BY <1>2, PathsAre DEF Places, Nowhere, Gone

LEMMA PathUp ==
  ASSUME AllPaths, NEW p \in Paths
  PROVE  /\ \A a \in StrictPrefixes(p) : a \in Paths
         /\ Len(p) > 1 => Front(p) \in Paths
<1>1. p \in Seq(Names) BY PathsAre
<1>2. ASSUME NEW a \in StrictPrefixes(p) PROVE a \in Paths
  <2>1. a \in Seq(Names) /\ a # << >> BY <1>1, StrictPrefixIs
  <2> QED BY <2>1 DEF AllPaths
<1> QED BY <1>1, <1>2, FrontIs

LEMMA PathLength == ASSUME AllPaths, NEW p \in Paths PROVE Len(p) = 1 \/ Len(p) > 1
<1>1. p \in Seq(Names) /\ Len(p) > 0 BY PathsAre
<1>2. Len(p) \in Nat BY <1>1, LenProperties
<1>3. \A n \in Nat : n > 0 => n = 1 \/ n > 1 OBVIOUS
<1> QED BY <1>1, <1>2, <1>3, Zenon

LEMMA MovedToPath ==
  ASSUME AllPaths, NEW q \in Paths, NEW x \in Places, NEW p, IsPrefix(p, x),
         p \in Paths \/ \E i \in Items : p = TrashPlace(i)
  PROVE  Moved(x, p, q) \in Paths
<1>1. x \in Seq(Symbols) /\ p \in Seq(Symbols) /\ q \in Seq(Symbols)
  BY PlacesAreSequences, PathsAre, TrashTop
<1>2. \A k \in 1 .. (Len(x) - Len(p)) : x[Len(p) + k] \in Names
  <2>1. CASE p \in Paths
    <3>1. x \in Seq(Names) BY <2>1, UnderPath, PathsAre
    <3> QED BY <1>1, <3>1
  <2>2. ASSUME NEW i \in Items, p = TrashPlace(i)
        PROVE  \A k \in 1 .. (Len(x) - Len(p)) : x[Len(p) + k] \in Names
    <3>1. x \in TrashPlaces BY <2>2, UnderTrash
    <3>2. Len(p) = 2 BY <2>2, TrashTop
    <3> QED BY <1>1, <3>1, <3>2 DEF TrashPlaces
  <2> QED BY <2>1, <2>2
<1>3. q \in Seq(Names) /\ Len(q) > 0 BY PathsAre
<1>4. Len(p) <= Len(x) BY <1>1, PrefixIs
<1>5. SubSeq(x, Len(p) + 1, Len(x)) \in Seq(Names)
  <2>1. SubSeq(x, Len(p) + 1, Len(x)) \in Seq(Symbols)
        /\ Len(SubSeq(x, Len(p) + 1, Len(x))) = Len(x) - Len(p)
        /\ \A k \in 1 .. (Len(x) - Len(p)) : SubSeq(x, Len(p) + 1, Len(x))[k] = x[Len(p) + k]
    BY <1>1, <1>4
  <2>2. \A k \in 1 .. Len(SubSeq(x, Len(p) + 1, Len(x))) :
          SubSeq(x, Len(p) + 1, Len(x))[k] \in Names
    BY <1>2, <2>1
  <2> QED BY <2>1, <2>2, ElementOfSeq, SeqDef
<1>6. Moved(x, p, q) \in Seq(Names) /\ Len(Moved(x, p, q)) >= Len(q)
  BY <1>3, <1>5, ConcatProperties DEF Moved
<1> QED BY <1>3, <1>6 DEF AllPaths

LEMMA MovedToTrash ==
  ASSUME AllPaths, NEW p \in Paths, NEW x \in Places, IsPrefix(p, x), NEW i \in Items
  PROVE  /\ Moved(x, p, TrashPlace(i)) \in TrashPlaces
         /\ IsPrefix(TrashPlace(i), Moved(x, p, TrashPlace(i)))
<1>1. x \in Seq(Names) /\ p \in Seq(Names) BY UnderPath, PathsAre
<1>2. x \in Seq(Symbols) /\ p \in Seq(Symbols) BY UnderPath, PathsAre
<1>3. TrashPlace(i) \in Seq(Symbols) /\ Len(TrashPlace(i)) = 2
      /\ TrashPlace(i)[1] = "trash" /\ TrashPlace(i)[2] = i
  BY TrashTop
<1>t. TrashPlace(i) \in Seq(Symbols) BY TrashTop
<1>4. Len(p) <= Len(x) BY <1>2, PrefixIs
<1>5. PICK m : m = Moved(x, p, TrashPlace(i)) OBVIOUS
<1>6. /\ Moved(x, p, TrashPlace(i)) \in Seq(Symbols)
      /\ IsPrefix(TrashPlace(i), Moved(x, p, TrashPlace(i)))
  BY <1>2, <1>t, MovedIs
<1>7. Len(Moved(x, p, TrashPlace(i))) = Len(TrashPlace(i)) + (Len(x) - Len(p))
  BY <1>2, <1>t, MovedIs
<1>8. \A k \in 1 .. Len(TrashPlace(i)) : Moved(x, p, TrashPlace(i))[k] = TrashPlace(i)[k]
  BY <1>2, <1>t, MovedIs
<1>9. \A k \in 1 .. (Len(x) - Len(p)) :
        Moved(x, p, TrashPlace(i))[Len(TrashPlace(i)) + k] = x[Len(p) + k]
  BY <1>2, <1>t, MovedIs
<1>10. m \in Seq(Symbols) /\ Len(m) >= 2 /\ m[1] = "trash" /\ m[2] = i
  BY <1>2, <1>3, <1>4, <1>5, <1>6, <1>7, <1>8
<1>11. ASSUME NEW k \in 3 .. Len(m) PROVE m[k] \in Names
  <2>1. k - 2 \in 1 .. (Len(x) - Len(p)) /\ 2 + (k - 2) = k
    BY <1>1, <1>3, <1>4, <1>5, <1>7
  <2>2. m[2 + (k - 2)] = x[Len(p) + (k - 2)] BY <1>3, <1>5, <1>9, <2>1
  <2>3. Len(p) + (k - 2) \in 1 .. Len(x) BY <1>1, <1>4, <2>1
  <2> QED BY <1>1, <2>1, <2>2, <2>3
<1>12. m \in TrashPlaces BY <1>10, <1>11 DEF TrashPlaces
<1> QED BY <1>5, <1>6, <1>12

-----------------------------------------------------------------------------
(* The tree: two items share a place only where there is none, and what    *)
(* leads to an item is a folder, in the archive and in the trash.          *)
Tree(pl) ==
  /\ \A i, k \in Items : pl[i] = pl[k] /\ pl[i] \notin {Nowhere, Gone} => i = k
  /\ \A i \in Items : \A a \in StrictPrefixes(pl[i]) :
       a = <<"trash">> \/ \E k \in Folders : pl[k] = a

Tops == {TrashPlace(i) : i \in Items}

LEMMA PathsAndTops ==
  ASSUME AllPaths, NEW p \in Paths \cup Tops
  PROVE  /\ p \in Places /\ p \in Seq(Symbols) /\ p # << >> /\ Len(p) > 0
         /\ p # <<"trash">> /\ p \notin {Nowhere, Gone}
<1>1. CASE p \in Paths
  BY <1>1, PathsAre, PlacesDiffer DEF Places
<1>2. CASE p \in Tops
  <2>1. PICK i \in Items : p = TrashPlace(i) BY <1>2 DEF Tops
  <2>2. p \in TrashPlaces /\ p \in Seq(Symbols) /\ Len(p) = 2 BY <2>1, TrashTop
  <2> QED BY <2>2, PlacesDiffer DEF Places
<1> QED BY <1>1, <1>2

(* Nothing is under a place without a folder, but for what is there.       *)
LEMMA NothingUnder ==
  ASSUME AllPaths, NEW pl \in [Items -> Places], Tree(pl), NEW q \in Paths \cup Tops,
         NEW i \in Items, IsPrefix(q, pl[i]), \A k \in Folders : pl[k] # q
  PROVE  pl[i] = q
<1>1. q \in Seq(Symbols) /\ q # << >> /\ q # <<"trash">> BY PathsAndTops
<1>2. pl[i] \in Seq(Symbols) BY PlacesAreSequences
<1>3. ASSUME pl[i] # q PROVE FALSE
  <2>1. q \in StrictPrefixes(pl[i]) BY <1>1, <1>2, <1>3, StrictPrefixIs
  <2> QED BY <1>1, <2>1 DEF Tree
<1> QED BY <1>3

LEMMA ParentsLead ==
  ASSUME AllPaths, NEW pl \in [Items -> Places], Tree(pl), NEW q \in Paths,
         Len(q) = 1 \/ \E k \in Folders : pl[k] = Front(q),
         NEW a \in StrictPrefixes(q)
  PROVE  \E k \in Folders : pl[k] = a
<1>1. q \in Seq(Symbols) /\ Len(q) > 0 /\ Len(q) \in Nat BY PathsAre
<1>2. Len(q) > 1
  BY <1>1 DEF StrictPrefixes
<1>3. Len(q) # 1
  BY DEF StrictPrefixes
<1>4. PICK k \in Folders : pl[k] = Front(q) BY <1>3
<1>5. a = Front(q) \/ a \in StrictPrefixes(Front(q))
  <2>1. q \in Seq(Symbols) BY <1>1
  <2>3. \A b \in StrictPrefixes(q) : b = Front(q) \/ b \in StrictPrefixes(Front(q))
    BY <1>2, <2>1, FrontIs
  <2> QED BY <2>3
<1>6. CASE a = Front(q) BY <1>4, <1>6
<1>7. CASE a \in StrictPrefixes(Front(q))
  <2>1. a \in Paths BY PathUp
  <2>2. a # <<"trash">> BY <2>1, PathsAndTops
  <2> QED BY <1>4, <1>7, <2>2 DEF Tree, Items
<1> QED BY <1>5, <1>6, <1>7

LEMMA CreateKeepsTree ==
  ASSUME AllPaths, NEW pl \in [Items -> Places], Tree(pl), NEW q \in Paths,
         NEW i \in Items, pl[i] = Nowhere, \A k \in Items : pl[k] # q,
         Len(q) = 1 \/ \E k \in Folders : pl[k] = Front(q)
  PROVE  Tree([pl EXCEPT ![i] = q])
<1> DEFINE new == [pl EXCEPT ![i] = q]
<1>1. new[i] = q /\ \A k \in Items \ {i} : new[k] = pl[k] OBVIOUS
<1> HIDE DEF new
<1>2. ASSUME NEW j \in Items, NEW k \in Items, new[j] = new[k], new[j] \notin {Nowhere, Gone}
      PROVE  j = k
  BY <1>1, <1>2 DEF Tree
<1>3. ASSUME NEW k \in Items, NEW a \in StrictPrefixes(new[k]), a # <<"trash">>
      PROVE  \E m \in Folders : new[m] = a
  <2>1. \E m \in Folders : pl[m] = a
    <3>1. CASE k = i BY <1>1, <1>3, <3>1, ParentsLead
    <3>2. CASE k # i BY <1>1, <1>3, <3>2 DEF Tree
    <3> QED BY <3>1, <3>2
  <2>2. PICK m \in Folders : pl[m] = a BY <2>1
  <2>3. a # << >>
    <3>1. new[k] \in Seq(Symbols) BY <1>1, PlacesAreSequences, PathsAre
    <3> QED BY <3>1, <1>3, StrictPrefixIs
  <2>4. m # i BY <2>2, <2>3 DEF Nowhere
  <2> QED BY <1>1, <2>2, <2>4 DEF Items
<1>4. Tree(new) BY <1>2, <1>3 DEF Tree
<1> QED BY <1>4 DEF new

LEMMA RemoveKeepsTree ==
  ASSUME Tree(place), NEW S,
         \A i, k \in Items : i \in S /\ place[i] \in StrictPrefixes(place[k]) => k \in S
  PROVE  Tree(Removed(S))
<1> DEFINE new == Removed(S)
<1>1. \A i \in Items : new[i] = IF i \in S THEN Gone ELSE place[i] BY DEF Removed
<1> HIDE DEF new
<1>2. ASSUME NEW j \in Items, NEW k \in Items, new[j] = new[k], new[j] \notin {Nowhere, Gone}
      PROVE  j = k
  BY <1>1, <1>2 DEF Tree
<1>3. StrictPrefixes(Gone) = {} BY DEF StrictPrefixes, Gone
<1>4. ASSUME NEW k \in Items, NEW a \in StrictPrefixes(new[k]), a # <<"trash">>
      PROVE  \E m \in Folders : new[m] = a
  <2>1. k \notin S /\ a \in StrictPrefixes(place[k]) BY <1>1, <1>3, <1>4
  <2>2. PICK m \in Folders : place[m] = a BY <1>4, <2>1 DEF Tree
  <2> QED BY <1>1, <2>1, <2>2 DEF Items
<1>5. Tree(new) BY <1>2, <1>4 DEF Tree
<1> QED BY <1>5 DEF new

LEMMA RenameKeepsTree ==
  ASSUME AllPaths, place \in [Items -> Places], Tree(place),
         NEW p \in Paths \cup Tops, NEW q \in Paths \cup Tops, ~ IsPrefix(p, q),
         \A a \in StrictPrefixes(q) : a = <<"trash">> \/ \E k \in Folders : place[k] = a,
         Taken(q) => At(p) \cup At(q) \subseteq Files
  PROVE  Tree(Renamed(p, q))
<1> DEFINE new == Renamed(p, q)
<1>1. \A i \in Items : new[i] = IF IsPrefix(p, place[i]) THEN Moved(place[i], p, q)
                                ELSE IF place[i] = q THEN Gone ELSE place[i]
  BY DEF Renamed, Under, Moved, Store!Rewritten
<1> HIDE DEF new
<1>2. /\ p \in Seq(Symbols) /\ p # << >> /\ p # <<"trash">>
      /\ q \in Seq(Symbols) /\ q # << >> /\ q # <<"trash">>
  BY PathsAndTops
<1>3. \A i \in Items : place[i] \in Places /\ place[i] \in Seq(Symbols)
  BY PlacesAreSequences
<1>4. \A k \in Folders : place[k] # q
  BY ItemsAssumption DEF Taken, At, Items
<1>5. \A i \in Items : IsPrefix(q, place[i]) => place[i] = q
  BY <1>4, NothingUnder
<1>6. ASSUME NEW i \in Items, IsPrefix(p, place[i])
      PROVE  new[i] = Moved(place[i], p, q) /\ new[i] \in Seq(Symbols) /\ IsPrefix(q, new[i])
  <2>1. place[i] \in Seq(Symbols) BY <1>3
  <2>2. Moved(place[i], p, q) \in Seq(Symbols) /\ IsPrefix(q, Moved(place[i], p, q))
    BY <1>2, <1>6, <2>1, MovedIs
  <2> QED BY <1>1, <1>6, <2>2
<1>7. ASSUME NEW i \in Items, NEW k \in Items, new[i] = new[k], new[i] \notin {Nowhere, Gone},
             IsPrefix(p, place[i])
      PROVE  i = k
  <2>1. CASE IsPrefix(p, place[k])
    <3>1. Moved(place[i], p, q) = Moved(place[k], p, q) BY <1>6, <1>7, <2>1
    <3>2. place[i] \in Seq(Symbols) /\ place[k] \in Seq(Symbols) BY <1>3
    <3>3. Moved(place[i], p, q) = Moved(place[k], p, q) => place[i] = place[k]
      BY <1>2, <1>7, <2>1, <3>2, MovedInjective
    <3>4. place[i] \notin {Nowhere, Gone}
      <4>1. p \notin {Nowhere, Gone} BY PathsAndTops
      <4>2. place[i] # Nowhere
        BY <1>2, <1>7, PrefixAnti, <3>2, PrefixIs DEF Nowhere
      <4>3. place[i] # Gone
        BY PlacesDiffer, UnderPath, UnderTrash, <1>3, <1>7 DEF Tops
      <4> QED BY <4>2, <4>3
    <3> QED BY <3>1, <3>3, <3>4 DEF Tree
  <2>2. CASE ~ IsPrefix(p, place[k])
    <3>1. new[k] = place[k] /\ place[k] # q BY <1>1, <1>7, <2>2
    <3>2. IsPrefix(q, place[k]) BY <1>6, <1>7, <3>1
    <3> QED BY <1>5, <3>1, <3>2
  <2> QED BY <2>1, <2>2
<1>8. ASSUME NEW i \in Items, NEW k \in Items, new[i] = new[k], new[i] \notin {Nowhere, Gone}
      PROVE  i = k
  <2>1. CASE IsPrefix(p, place[i]) \/ IsPrefix(p, place[k]) BY <1>7, <1>8, <2>1
  <2>2. CASE ~ IsPrefix(p, place[i]) /\ ~ IsPrefix(p, place[k])
    BY <1>1, <1>8, <2>2 DEF Tree
  <2> QED BY <2>1, <2>2
<1>9. ASSUME NEW i \in Items, NEW a \in StrictPrefixes(new[i]), a # <<"trash">>
      PROVE  \E m \in Folders : new[m] = a
  <2>1. CASE IsPrefix(p, place[i])
    <3>1. place[i] \in Seq(Symbols) BY <1>3
    <3>2. a \in StrictPrefixes(Moved(place[i], p, q)) BY <1>6, <1>9, <2>1
    <3>3. \/ a \in StrictPrefixes(q)
          \/ \E b \in Seq(Symbols) : /\ b = p \/ b \in StrictPrefixes(place[i])
                                     /\ b # place[i] /\ IsPrefix(p, b) /\ a = Moved(b, p, q)
      BY <1>2, <2>1, <3>1, <3>2, MovedPrefixes
    <3>4. CASE a \in StrictPrefixes(q)
      <4>1. PICK m \in Folders : place[m] = a BY <1>9, <3>4
      <4>2. a \in Seq(Symbols) /\ a # q /\ IsPrefix(a, q) BY <1>2, <3>4, StrictPrefixIs
      <4>3. ~ IsPrefix(p, a) BY <1>2, <4>2, PrefixTrans
      <4> QED BY <1>1, <4>1, <4>2, <4>3 DEF Items
    <3>5. ASSUME NEW b \in Seq(Symbols), b = p \/ b \in StrictPrefixes(place[i]),
                 b # place[i], IsPrefix(p, b), a = Moved(b, p, q)
          PROVE  \E m \in Folders : new[m] = a
      <4>1. b \in StrictPrefixes(place[i])
        BY <1>2, <2>1, <3>1, <3>5, StrictPrefixIs
      <4>2. b # <<"trash">>
        <5>1. CASE p \in Paths
          <6>1. <<"trash">> \in Seq(Symbols) BY DEF Symbols
          <6>2. Len(p) > 0 /\ p[1] # "trash" BY <5>1, PathsAre
          <6>3. b[1] = p[1] BY <1>2, <3>5, <6>2, PrefixIs
          <6> QED BY <6>2, <6>3
        <5>2. CASE p \in Tops
          <6>1. Len(p) = 2 BY <5>2, TrashTop DEF Tops
          <6>2. Len(b) >= 2 BY <1>2, <3>5, <6>1, PrefixIs
          <6>3. ASSUME b = <<"trash">> PROVE FALSE
            <7>1. Len(b) = 1 BY <6>3
            <7> QED BY <6>2, <7>1
          <6> QED BY <6>3
        <5> QED BY <5>1, <5>2
      <4>3. PICK m \in Folders : place[m] = b BY <4>1, <4>2 DEF Tree
      <4> QED BY <1>6, <3>5, <4>3 DEF Items
    <3> QED BY <3>3, <3>4, <3>5
  <2>2. CASE ~ IsPrefix(p, place[i]) /\ place[i] # q
    <3>1. a \in StrictPrefixes(place[i]) BY <1>1, <1>9, <2>2
    <3>2. PICK m \in Folders : place[m] = a BY <1>9, <3>1 DEF Tree
    <3>3. a \in Seq(Symbols) /\ IsPrefix(a, place[i]) BY <1>3, <3>1, StrictPrefixIs
    <3>4. ~ IsPrefix(p, a) BY <1>2, <1>3, <2>2, <3>3, PrefixTrans
    <3> QED BY <1>1, <1>4, <3>2, <3>4 DEF Items
  <2>3. CASE ~ IsPrefix(p, place[i]) /\ place[i] = q
    <3>1. new[i] = Gone BY <1>1, <2>3
    <3> QED BY <1>9, <3>1 DEF StrictPrefixes, Gone
  <2> QED BY <2>1, <2>2, <2>3
<1>10. Tree(new) BY <1>8, <1>9 DEF Tree
<1> QED BY <1>10 DEF new

-----------------------------------------------------------------------------
(* The invariant.                                                          *)

Locks == {"undo", "restore"}
Owner == {"write", "fill", "clean"}
Active(c) == pc[c] \notin {"new", "done"}

Steps == {"new", "done", "move", "rewrite", "trash", "undo", "unshare", "restore",
          "create", "write", "publish", "copy", "fill", "clean", "share"}

Jobs == [src : Paths \cup {NoPath}, dst : Paths \cup {NoPath}, item : Items \cup {Nobody},
         own : SUBSET Items, left : SUBSET Names, clean : BOOLEAN]

(* What a request knows at step l.                                         *)
JobOK(l, j) ==
  /\ l \in {"move", "rewrite", "trash", "undo", "unshare", "copy", "fill", "clean", "share"}
       => j.src \in Paths
  /\ l \in {"move", "rewrite", "restore", "create", "write", "publish", "copy", "fill", "clean"}
       => j.dst \in Paths
  /\ l \in {"new", "done"} => j = NoJob
  /\ l = "move" => ~ IsPrefix(j.src, j.dst)
  /\ l \in Locks => j.item \in Items
  /\ l = "copy" => j.own = {}
  /\ l = "publish" => Len(j.dst) = 1 \/ j.own \cap Folders # {}

(* Requests that overlap know that they do.                                *)
RivalsAreDirty ==
  \A c, d \in Callers :
    c # d /\ Active(c) /\ Active(d) /\ Overlap(job[c], job[d]) => ~ job[c].clean

(* What a request that overlaps with another may disturb is excused.       *)
DirtyIsExcused(c) ==
  ~ job[c].clean =>
    /\ Active(c) => \A p \in Area(job[c]) : Under(p) \cap answered \subseteq excused
    /\ pc[c] \in Locks => Under(TrashPlace(job[c].item)) \cap answered \subseteq excused
    /\ pc[c] \in Owner => job[c].own \subseteq excused

(* A request that overlaps with none finds the archive as it left it.      *)
CleanIsAlone(c) ==
  job[c].clean =>
    /\ pc[c] \in {"move", "restore", "publish", "copy"} => Under(job[c].dst) = {}
    /\ pc[c] = "undo" => Under(job[c].src) = {} /\ HasParent(job[c].src)
    /\ pc[c] \in Owner => Under(job[c].dst) = job[c].own

(* What a request created is there, and nobody was told of it.             *)
OwnIsNew(c) ==
  pc[c] \in Owner =>
    /\ job[c].own \cap answered = {}
    /\ \A i \in job[c].own : place[i] # Nowhere

InTop(c) == pc[c] = "undo" => place[job[c].item] = TrashPlace(job[c].item)

RequestOK(c) == DirtyIsExcused(c) /\ CleanIsAlone(c) /\ OwnIsNew(c) /\ InTop(c)

OwnersDiffer ==
  \A c, d \in Callers :
    c # d /\ pc[c] \in Owner /\ pc[d] \in Owner => job[c].own \cap job[d].own = {}

OneLock == \A c, d \in Callers : pc[c] \in Locks /\ pc[d] \in Locks => c = d

Shapes ==
  /\ place \in [Items -> Places]
  /\ from \in [Items -> Paths \cup {NoPath}]
  /\ pc \in [Callers -> Steps]
  /\ job \in [Callers -> Jobs]
  /\ answered \subseteq Items

TopIsItsOwn == \A i, k \in Items : place[i] = TrashPlace(k) => i = k

IInv ==
  /\ Shapes /\ Tree(place) /\ TopIsItsOwn
  /\ \A c \in Callers : JobOK(pc[c], job[c])
  /\ OneLock /\ OwnersDiffer /\ RivalsAreDirty
  /\ \A c \in Callers : RequestOK(c)
  /\ \A i \in answered : place[i] # Nowhere
  /\ AnsweredIsKept

-----------------------------------------------------------------------------
(* What a step of a request does to the others.                            *)

Near(j, x) == x \in Paths => \E a \in Area(j) : IsPrefix(a, x)
Apart(j, p) == \A a \in Area(j) : ~ IsPrefix(a, p) /\ ~ IsPrefix(p, a)

Others(c) == \A d \in Callers \ {c} : pc'[d] = pc[d] /\ job'[d] = job[d]

(* Items move only within the area of the request, and only what a dirty   *)
(* request moves may be lost.                                              *)
MovesOwn(c) ==
  \A i \in Items : place'[i] # place[i] =>
    /\ Near(job[c], place[i]) /\ Near(job[c], place'[i]) /\ place'[i] # Nowhere
    /\ ~ job[c].clean /\ i \in answered => i \in excused'
    /\ job[c].clean /\ i \in answered \ excused => Reachable(i)'
    /\ \A d \in Callers \ {c} :
         pc[d] \in Locks => place[i] \notin TrashPlaces /\ place'[i] \notin TrashPlaces

(* It answers for what it created only.                                    *)
AnswersOwn(c) ==
  \A i \in answered' \ answered :
    /\ (pc[c] \in Owner /\ i \in job[c].own) \/ place[i] = Nowhere
    /\ i \in Items /\ place'[i] # Nowhere
    /\ job[c].clean => job[c].dst \in Paths /\ IsPrefix(job[c].dst, place'[i])
    /\ ~ job[c].clean => i \in excused'

(* What can be restored stays so, if the step leaves it where it is.       *)
KeepsTrash(c) ==
  \A i \in answered \ excused' :
    place'[i] = place[i] /\ place[i] \in TrashPlaces /\ Reachable(i) => Reachable(i)'

StepOf(c) ==
  /\ Active(c) /\ Others(c) /\ MovesOwn(c) /\ AnswersOwn(c) /\ KeepsTrash(c)
  /\ excused \subseteq excused' /\ answered \subseteq answered' /\ Shapes'

LEMMA AreaIs ==
  ASSUME AllPaths, NEW j \in Jobs
  PROVE  \A a \in Area(j) : a \in Paths /\ a \in Seq(Symbols)
BY PathsAre DEF Area, Jobs

(* What is apart from the request does not notice.                         *)
LEMMA FarStays ==
  ASSUME AllPaths, Shapes, NEW c \in Callers, StepOf(c), NEW p \in Paths, Apart(job[c], p)
  PROVE  /\ Under(p)' = Under(p)
         /\ \A i \in Under(p) : place'[i] = place[i]
         /\ HasParent(p) => HasParent(p)'
<1>1. job[c] \in Jobs BY DEF Shapes
<1>2. \A a \in Area(job[c]) : a \in Paths /\ a \in Seq(Symbols) BY <1>1, AreaIs
<1>3. p \in Seq(Symbols) BY PathsAre
<1>4. ASSUME NEW x \in Paths, IsPrefix(p, x) PROVE ~ Near(job[c], x)
  <2>1. x \in Seq(Symbols) BY PathsAre
  <2> QED BY <1>2, <1>3, <1>4, <2>1, PrefixesCompare DEF Near, Apart
<1>5. ASSUME NEW i \in Items, IsPrefix(p, place[i]) \/ IsPrefix(p, place'[i])
      PROVE  place'[i] = place[i]
  <2>1. place[i] \in Places /\ place'[i] \in Places BY DEF StepOf, Shapes
  <2>2. CASE IsPrefix(p, place[i])
    <3>1. place[i] \in Paths BY <2>1, <2>2, UnderPath
    <3> QED BY <1>4, <2>2, <3>1 DEF StepOf, MovesOwn
  <2>3. CASE IsPrefix(p, place'[i])
    <3>1. place'[i] \in Paths BY <2>1, <2>3, UnderPath
    <3> QED BY <1>4, <2>3, <3>1 DEF StepOf, MovesOwn
  <2> QED BY <1>5, <2>2, <2>3
<1>6. Under(p)' = Under(p) /\ \A i \in Under(p) : place'[i] = place[i] BY <1>5 DEF Under
<1>7. ASSUME Len(p) # 1, NEW k \in Folders, place[k] = Front(p) PROVE place'[k] = Front(p)
  <2>1. Len(p) > 1 BY <1>7, PathLength
  <2>2. Front(p) \in Paths BY <2>1, PathUp
  <2>3. Front(p) \in StrictPrefixes(p) BY <1>3, <2>1, FrontIs
  <2>4. Front(p) \in Seq(Symbols) /\ IsPrefix(Front(p), p) BY <1>3, <2>3, StrictPrefixIs
  <2>5. \A a \in Area(job[c]) : ~ IsPrefix(a, Front(p))
    BY <1>2, <1>3, <2>4, PrefixTrans DEF Apart
  <2>6. ~ Near(job[c], Front(p)) BY <2>2, <2>5 DEF Near
  <2> QED BY <1>7, <2>6 DEF StepOf, MovesOwn, Items
<1>8. HasParent(p) => HasParent(p)' BY <1>7 DEF HasParent, Parent, At, Items
<1> QED BY <1>6, <1>8

LEMMA CleanIsApart ==
  ASSUME AllPaths, IInv, NEW c \in Callers, NEW d \in Callers \ {c}, Active(c), Active(d),
         job[d].clean, NEW p \in Area(job[d])
  PROVE  Apart(job[c], p)
BY DEF IInv, RivalsAreDirty, Overlap, Apart

LEMMA OthersStay ==
  ASSUME AllPaths, IInv, NEW c \in Callers, StepOf(c), NEW d \in Callers \ {c}
  PROVE  RequestOK(d)'
<1>1. pc'[d] = pc[d] /\ job'[d] = job[d] BY DEF StepOf, Others
<1>2. Shapes /\ job[c] \in Jobs /\ job[d] \in Jobs /\ RequestOK(d) /\ JobOK(pc[d], job[d])
  BY DEF IInv, Shapes
<1>3. \A a \in Area(job[c]) : a \in Paths /\ a \in Seq(Symbols) BY <1>2, AreaIs
<1>4. \A a \in Area(job[d]) : a \in Paths /\ a \in Seq(Symbols) BY <1>2, AreaIs
<1>5. \A i \in Items : place'[i] \in Places /\ place[i] \in Places
                     /\ place'[i] \in Seq(Symbols)
  BY <1>2, PlacesAreSequences DEF StepOf, Shapes
<1>6. ASSUME ~ job[d].clean, Active(d), NEW p \in Area(job[d]), NEW i \in answered',
             IsPrefix(p, place'[i]), i \in Items
      PROVE  i \in excused'
  <2>1. place'[i] \in Paths /\ p \in Seq(Symbols) BY <1>4, <1>5, <1>6, UnderPath
  <2>2. ASSUME NEW a \in Area(job[c]), IsPrefix(a, place'[i]) PROVE ~ job[c].clean
    <3>1. IsPrefix(a, p) \/ IsPrefix(p, a)
      BY <1>3, <1>5, <1>6, <2>1, <2>2, PrefixesCompare
    <3>2. Overlap(job[c], job[d]) BY <1>6, <3>1 DEF Overlap
    <3> QED BY <1>6, <3>2 DEF IInv, RivalsAreDirty, StepOf
  <2>3. CASE i \notin answered
    <3>1. job[c].clean => job[c].dst \in Area(job[c])
      BY <2>3, PathsAre DEF StepOf, AnswersOwn, Area, NoPath
    <3> QED BY <2>2, <2>3, <3>1 DEF StepOf, AnswersOwn
  <2>4. CASE i \in answered /\ place'[i] # place[i]
    <3>1. ~ job[c].clean BY <1>6, <2>1, <2>2, <2>4 DEF StepOf, MovesOwn, Near
    <3> QED BY <1>6, <2>4, <3>1 DEF StepOf, MovesOwn
  <2>5. CASE i \in answered /\ place'[i] = place[i]
    BY <1>2, <1>6, <2>5 DEF RequestOK, DirtyIsExcused, Under, StepOf
  <2> QED BY <2>3, <2>4, <2>5
<1>7. ASSUME ~ job[d].clean, pc[d] \in Locks, NEW i \in answered', i \in Items,
             IsPrefix(TrashPlace(job[d].item), place'[i])
      PROVE  i \in excused'
  <2>1. job[d].item \in Items BY <1>2, <1>7 DEF JobOK
  <2>2. place'[i] \in TrashPlaces BY <1>5, <1>7, <2>1, UnderTrash
  <2>3. place'[i] = place[i] BY <1>7, <2>2 DEF StepOf, MovesOwn
  <2>4. CASE i \in answered
    BY <1>2, <1>7, <2>3, <2>4 DEF RequestOK, DirtyIsExcused, Under, StepOf
  <2>5. CASE i \notin answered
    <3>1. place'[i] \notin Paths BY <2>2, PlacesDiffer
    <3>2. ~ job[c].clean BY <1>5, <1>7, <2>5, <3>1, UnderPath DEF StepOf, AnswersOwn
    <3> QED BY <2>5, <3>2 DEF StepOf, AnswersOwn
  <2> QED BY <2>4, <2>5
<1>8. DirtyIsExcused(d)'
  <2>1. pc[d] \in Owner /\ ~ job[d].clean => job[d].own \subseteq excused'
    BY <1>2 DEF RequestOK, DirtyIsExcused, StepOf
  <2>2. Active(d)' <=> Active(d) BY <1>1 DEF Active
  <2> QED BY <1>1, <1>6, <1>7, <2>1, <2>2 DEF DirtyIsExcused, Under
<1>9. CleanIsAlone(d)'
  <2>1. ASSUME job[d].clean, Active(d), NEW p \in Area(job[d])
        PROVE  Under(p)' = Under(p) /\ (HasParent(p) => HasParent(p)')
    BY <1>2, <1>4, <2>1, CleanIsApart, FarStays DEF StepOf
  <2>2. pc[d] \in Owner \cup {"move", "restore", "publish", "copy"} =>
          Active(d) /\ job[d].dst \in Area(job[d])
    BY <1>2, PathsAre DEF JobOK, Owner, Area, NoPath, Active
  <2>3. pc[d] = "undo" => Active(d) /\ job[d].src \in Area(job[d])
    BY <1>2, PathsAre DEF JobOK, Area, NoPath, Active
  <2>4. job[d].clean /\ pc[d] \in {"move", "restore", "publish", "copy"} => Under(job[d].dst)' = {}
    BY <1>1, <1>2, <2>1, <2>2 DEF RequestOK, CleanIsAlone
  <2> QED
    BY <1>1, <1>2, <2>1, <2>2, <2>3 DEF RequestOK, CleanIsAlone
<1>10. OwnIsNew(d)'
  <2>1. ASSUME pc[d] \in Owner, NEW i \in job[d].own
        PROVE  i \notin answered' /\ place'[i] # Nowhere
    <3>1. i \notin answered /\ place[i] # Nowhere /\ i \in Items
      BY <1>2, <2>1 DEF RequestOK, OwnIsNew, Jobs
    <3>2. pc[c] \in Owner => i \notin job[c].own BY <2>1 DEF IInv, OwnersDiffer
    <3> QED BY <3>1, <3>2 DEF StepOf, AnswersOwn, MovesOwn
  <2> QED BY <1>1, <2>1 DEF OwnIsNew
<1>11. InTop(d)'
  <2>1. ASSUME pc[d] = "undo" PROVE place'[job[d].item] = TrashPlace(job[d].item)
    <3>1. job[d].item \in Items BY <1>2, <2>1 DEF JobOK, Locks
    <3>2. place[job[d].item] = TrashPlace(job[d].item) BY <1>2, <2>1 DEF RequestOK, InTop
    <3>3. place[job[d].item] \in TrashPlaces BY <3>1, <3>2, TrashTop
    <3> QED BY <2>1, <3>1, <3>2, <3>3 DEF StepOf, MovesOwn, Locks
  <2> QED BY <1>1, <2>1 DEF InTop
<1> QED BY <1>8, <1>9, <1>10, <1>11 DEF RequestOK

-----------------------------------------------------------------------------
(* A request begins.                                                       *)

Same(j, k) ==
  /\ j.src = k.src /\ j.dst = k.dst /\ j.item = k.item /\ j.own = k.own /\ j.left = k.left

LEMMA BeginKeeps ==
  ASSUME AllPaths, IInv, NEW c \in Callers, NEW s, NEW j, Begin(c, s, j), j \in Jobs,
         j.clean = TRUE, JobOK(s, j), s \in Steps \ (Owner \cup {"new", "done", "undo"}),
         s = "restore" => ~ TrashLocked,
         s \in {"move", "restore", "publish", "copy"} => Under(j.dst) = {},
         from' = from, place' \in [Items -> Places], Tree(place'), TopIsItsOwn',
         \A i \in Items : place'[i] # place[i] =>
           /\ place[i] = Nowhere /\ place'[i] \in Paths
           /\ j.dst \in Paths /\ place'[i] # j.dst /\ IsPrefix(place'[i], j.dst)
  PROVE  IInv'
<1> DEFINE rivals == {d \in Callers : pc[d] \notin {"new", "done"} /\ Overlap(j, job[d])}
<1>1. /\ pc[c] = "new" /\ pc' = [pc EXCEPT ![c] = s]
      /\ answered' = answered /\ excused \subseteq excused'
      /\ rivals # {} => Touched(j) \subseteq excused'
      /\ \A d \in rivals : Touched(job[d]) \subseteq excused'
  BY DEF Begin
<1>2. job' = [d \in Callers |->
                IF d = c THEN (IF rivals = {} THEN j ELSE [j EXCEPT !.clean = FALSE])
                ELSE IF d \in rivals THEN [job[d] EXCEPT !.clean = FALSE] ELSE job[d]]
  BY DEF Begin
<1>3. \A d \in rivals : d \in Callers /\ Active(d) /\ Overlap(j, job[d]) BY DEF Active
<1>4. \A d \in Callers : Active(d) /\ Overlap(j, job[d]) => d \in rivals BY DEF Active
<1> HIDE DEF rivals
<1>5. /\ Shapes /\ \A d \in Callers : job[d] \in Jobs /\ JobOK(pc[d], job[d]) /\ RequestOK(d)
      /\ \A i \in answered : place[i] # Nowhere
  BY DEF IInv, Shapes
<1>6. \A k \in Jobs : [k EXCEPT !.clean = FALSE] \in Jobs /\ Same([k EXCEPT !.clean = FALSE], k)
                      /\ Same(k, k) /\ ~ [k EXCEPT !.clean = FALSE].clean
  BY DEF Jobs, Same
<1>7. /\ pc'[c] = s /\ job'[c] \in Jobs /\ Same(job'[c], j)
      /\ job'[c].clean <=> rivals = {}
  BY <1>1, <1>2, <1>5, <1>6 DEF Shapes
<1>8. ASSUME NEW d \in Callers \ {c}
      PROVE  /\ pc'[d] = pc[d] /\ job'[d] \in Jobs /\ Same(job'[d], job[d])
             /\ d \notin rivals => job'[d] = job[d]
             /\ job'[d].clean <=> d \notin rivals /\ job[d].clean
  BY <1>1, <1>2, <1>5, <1>6 DEF Shapes
<1>9. \A k, m : Same(k, m) => Area(k) = Area(m) BY DEF Same, Area
<1>10. \A i \in answered : i \in Items /\ place'[i] = place[i] BY <1>5 DEF Shapes
<1>11. Shapes'
  <2>1. pc' \in [Callers -> Steps] BY <1>1, <1>5 DEF Shapes
  <2>2. job' \in [Callers -> Jobs]
    BY <1>2, <1>7, <1>8
  <2> QED BY <1>1, <1>5, <2>1, <2>2 DEF Shapes
<1>12. ASSUME NEW d \in Callers PROVE JobOK(pc'[d], job'[d])
  <2>1. CASE d = c BY <1>7, <2>1 DEF JobOK, Same
  <2>2. CASE d # c /\ d \in rivals
    BY <1>3, <1>5, <1>8, <2>2 DEF JobOK, Same, Active
  <2>3. CASE d # c /\ d \notin rivals BY <1>5, <1>8, <2>3
  <2> QED BY <2>1, <2>2, <2>3
<1>13. OneLock'
  BY <1>7, <1>8 DEF IInv, OneLock, TrashLocked, Locks
<1>14. OwnersDiffer'
  BY <1>7, <1>8 DEF IInv, OwnersDiffer, Owner, Same
<1>15. RivalsAreDirty'
  <2>1. ASSUME NEW d \in Callers \ {c}, Active(d)', Overlap(job'[c], job'[d])
        PROVE  ~ job'[c].clean /\ ~ job'[d].clean
    <3>1. Overlap(j, job[d]) /\ Active(d)
      BY <1>7, <1>8, <1>9, <2>1 DEF Overlap, Active
    <3> QED BY <1>4, <1>7, <1>8, <3>1
  <2>2. \A k, m : Overlap(k, m) => Overlap(m, k) BY DEF Overlap
  <2>3. ASSUME NEW d \in Callers \ {c}, NEW e \in Callers \ {c}, d # e,
               Active(d)', Active(e)', Overlap(job'[d], job'[e])
        PROVE  ~ job'[d].clean
    <3>1. Active(d) /\ Active(e) /\ Overlap(job[d], job[e])
      BY <1>8, <1>9, <2>3 DEF Overlap, Active
    <3> QED BY <1>8, <2>3, <3>1 DEF IInv, RivalsAreDirty
  <2> QED BY <2>1, <2>2, <2>3 DEF RivalsAreDirty
<1>16. ASSUME NEW d \in Callers PROVE DirtyIsExcused(d)'
  <2>1. \A x : \A i \in answered : IsPrefix(x, place'[i]) => i \in Under(x) BY <1>10 DEF Under
  <2>2. CASE d = c
    <3>1. ASSUME ~ job'[c].clean
          PROVE  /\ \A p \in Area(j) : Under(p) \subseteq excused'
                 /\ Under(TrashPlace(j.item)) \subseteq excused'
      BY <1>1, <1>7, <3>1 DEF Touched
    <3>2. Area(job'[c]) = Area(j) /\ job'[c].item = j.item BY <1>7, <1>9 DEF Same
    <3>3. ASSUME ~ job'[c].clean, NEW p \in Area(j), NEW i \in answered, IsPrefix(p, place'[i])
          PROVE  i \in excused'
      BY <2>1, <3>1, <3>3
    <3>4. ASSUME ~ job'[c].clean, NEW i \in answered, IsPrefix(TrashPlace(j.item), place'[i])
          PROVE  i \in excused'
      BY <2>1, <3>1, <3>4
    <3>5. pc'[c] \notin Owner BY <1>7
    <3> QED BY <1>1, <2>2, <3>2, <3>3, <3>4, <3>5 DEF DirtyIsExcused, Under
  <2>3. CASE d # c /\ d \in rivals
    <3>1. /\ \A p \in Area(job[d]) : Under(p) \subseteq excused'
          /\ Under(TrashPlace(job[d].item)) \subseteq excused' /\ job[d].own \subseteq excused'
      BY <1>1, <2>3 DEF Touched
    <3>2. Area(job'[d]) = Area(job[d]) /\ job'[d].item = job[d].item /\ job'[d].own = job[d].own
      BY <1>8, <1>9, <2>3 DEF Same
    <3>3. ASSUME NEW p \in Area(job[d]), NEW i \in answered, IsPrefix(p, place'[i])
          PROVE  i \in excused'
      BY <2>1, <3>1, <3>3
    <3>4. ASSUME NEW i \in answered, IsPrefix(TrashPlace(job[d].item), place'[i])
          PROVE  i \in excused'
      BY <2>1, <3>1, <3>4
    <3> QED BY <1>1, <3>1, <3>2, <3>3, <3>4 DEF DirtyIsExcused, Under
  <2>4. CASE d # c /\ d \notin rivals
    BY <1>1, <1>5, <1>8, <2>1, <2>4 DEF RequestOK, DirtyIsExcused, Under, Active
  <2> QED BY <2>2, <2>3, <2>4
<1>17. ASSUME NEW d \in Callers \ {c}, NEW p \in Area(job[d]), Active(d), d \notin rivals
       PROVE  Under(p)' = Under(p) /\ (HasParent(p) => HasParent(p)')
  <2>1. p \in Paths /\ p \in Seq(Symbols) /\ p # << >> /\ Len(p) > 0 BY <1>5, AreaIs, PathsAre
  <2>2. ASSUME NEW i \in Items, place'[i] # place[i]
        PROVE  ~ IsPrefix(p, place'[i]) /\ ~ IsPrefix(p, place[i])
    <3>1. j.dst \in Seq(Symbols) /\ place'[i] \in Seq(Symbols) /\ j.dst \in Area(j)
      BY <2>2, PathsAre DEF Area, NoPath
    <3>2. ~ IsPrefix(p, j.dst) BY <1>4, <1>17, <3>1 DEF Overlap
    <3>3. ~ IsPrefix(p, place'[i]) BY <2>1, <2>2, <3>1, <3>2, PrefixTrans
    <3>4. ~ IsPrefix(p, << >>)
      <4>1. << >> \in Seq(Symbols) /\ Len(<< >>) = 0 OBVIOUS
      <4>2. ASSUME IsPrefix(p, << >>) PROVE Len(p) <= Len(<< >>) BY <2>1, <4>1, <4>2, PrefixIs
      <4> QED BY <2>1, <4>1, <4>2
    <3> QED BY <2>2, <3>3, <3>4 DEF Nowhere
  <2>3. Under(p)' = Under(p) BY <2>2 DEF Under
  <2>4. ASSUME Len(p) # 1, NEW k \in Folders, place[k] = Front(p) PROVE place'[k] = Front(p)
    <3>1. Len(p) > 1 BY <2>1, <2>4, PathLength
    <3>2. Front(p) \in Paths BY <2>1, <3>1, PathUp
    <3> QED BY <2>4, <3>2, PlacesDiffer DEF Items
  <2>5. HasParent(p) => HasParent(p)' BY <2>4 DEF HasParent, Parent, At, Items
  <2> QED BY <2>3, <2>5
<1>18. ASSUME NEW d \in Callers PROVE CleanIsAlone(d)'
  <2>1. CASE d = c
    <3>1. ASSUME s \in {"move", "restore", "publish", "copy"}, NEW i \in Items,
                 IsPrefix(j.dst, place'[i])
          PROVE  FALSE
      <4>1. j.dst \in Seq(Symbols) BY <3>1, PathsAre DEF JobOK
      <4>2. place'[i] # place[i] BY <3>1 DEF Under
      <4>3. place'[i] \in Seq(Symbols) BY <4>2, PathsAre
      <4> QED BY <3>1, <4>1, <4>2, <4>3, PrefixAnti, PrefixIs
    <3> QED BY <1>7, <2>1, <3>1 DEF CleanIsAlone, Under, Same
  <2>2. ASSUME d # c, job'[d].clean, Active(d) PROVE CleanIsAlone(d)'
    <3>1. d \notin rivals /\ job'[d] = job[d] /\ pc'[d] = pc[d] /\ job[d].clean
      BY <1>8, <2>2
    <3>2. pc[d] \in Owner \cup {"move", "restore", "publish", "copy"} => job[d].dst \in Area(job[d])
      BY <1>5, PathsAre DEF JobOK, Owner, Area, NoPath
    <3>3. pc[d] = "undo" => job[d].src \in Area(job[d])
      BY <1>5, PathsAre DEF JobOK, Area, NoPath
    <3>4. \A p \in Area(job[d]) : Under(p)' = Under(p) /\ (HasParent(p) => HasParent(p)')
      BY <1>17, <2>2, <3>1
    <3>5. job[d].clean /\ pc[d] \in {"move", "restore", "publish", "copy"} => Under(job[d].dst)' = {}
      BY <1>5, <3>1, <3>2, <3>4 DEF RequestOK, CleanIsAlone
    <3> QED BY <1>5, <3>1, <3>2, <3>3, <3>4, <3>5 DEF RequestOK, CleanIsAlone
  <2>3. ASSUME d # c, ~ (job'[d].clean /\ Active(d)) PROVE CleanIsAlone(d)'
    BY <1>8, <2>3 DEF CleanIsAlone, Active, Owner
  <2> QED BY <2>1, <2>2, <2>3
<1>19. ASSUME NEW d \in Callers PROVE OwnIsNew(d)'
  BY <1>1, <1>5, <1>7, <1>8, PlacesDiffer DEF OwnIsNew, RequestOK, Same, Jobs
<1>20. ASSUME NEW d \in Callers PROVE InTop(d)'
  <2>1. CASE d = c BY <1>7, <2>1 DEF InTop
  <2>2. CASE d # c /\ pc[d] = "undo"
    <3>1. job[d].item \in Items BY <1>5, <2>2 DEF JobOK, Locks
    <3>2. place[job[d].item] = TrashPlace(job[d].item) BY <1>5, <2>2 DEF RequestOK, InTop
    <3>3. place'[job[d].item] = place[job[d].item] BY <3>1, <3>2, TrashTop DEF Nowhere
    <3> QED BY <1>8, <2>2, <3>2, <3>3 DEF InTop, Same
  <2>3. CASE d # c /\ pc[d] # "undo" BY <1>8, <2>3 DEF InTop
  <2> QED BY <2>1, <2>2, <2>3
<1>21. AnsweredIsKept'
  <2>1. ASSUME NEW i \in answered' \ excused' PROVE Reachable(i)'
    <3>1. i \in answered \ excused /\ place'[i] = place[i] /\ Reachable(i)
      BY <1>1, <1>10, <2>1 DEF IInv, AnsweredIsKept
    <3>2. \A d \in Callers : pc[d] = "undo" => pc'[d] = "undo" /\ job'[d].item = job[d].item
      BY <1>1, <1>8 DEF Same
    <3> QED BY <3>1, <3>2 DEF Reachable
  <2> QED BY <2>1 DEF AnsweredIsKept
<1>22. \A i \in answered' : place'[i] # Nowhere BY <1>1, <1>5, <1>10
<1> QED
  BY <1>11, <1>12, <1>13, <1>14, <1>15, <1>16, <1>18, <1>19, <1>20, <1>21, <1>22
     DEF IInv, RequestOK

(* What a request is as it begins: nothing is where it goes to, and it     *)
(* changes nothing but that a folder on the way there may be made.         *)
Beginning(c, s, j) ==
  /\ Begin(c, s, j) /\ j \in Jobs /\ j.clean = TRUE /\ JobOK(s, j)
  /\ s \notin {"new", "done", "rewrite", "undo", "unshare"}
  /\ j.dst \in Paths => Under(j.dst) = {}
  /\ s = "share" => j.item \in Items /\ place[j.item] = j.src
  /\ \A i \in Items : place'[i] # place[i] =>
       /\ place[i] = Nowhere /\ place'[i] \in Paths
       /\ j.dst \in Paths /\ place'[i] # j.dst /\ IsPrefix(place'[i], j.dst)

BeginOf(c) == \E s, j : Beginning(c, s, j)

LEMMA FreeIsEmpty ==
  ASSUME AllPaths, Shapes, Tree(place), NEW q \in Paths \cup Tops, ~ Taken(q)
  PROVE  Under(q) = {}
<1>1. \A k \in Folders : place[k] # q BY DEF Taken, At, Items
<1>2. ASSUME NEW i \in Items, IsPrefix(q, place[i]) PROVE FALSE
  <2>1. place[i] = q BY <1>1, <1>2, NothingUnder DEF Shapes
  <2> QED BY <2>1 DEF Taken, At
<1> QED BY <1>2 DEF Under

LEMMA BeginInPlace ==
  ASSUME AllPaths, IInv, NEW c \in Callers,
         NEW s \in {"move", "trash", "create", "publish", "copy", "share"},
         NEW j \in Jobs, Begin(c, s, j), j.clean = TRUE, JobOK(s, j),
         j.dst \in Paths => ~ Taken(j.dst),
         s = "share" => j.item \in Items /\ place[j.item] = j.src,
         UNCHANGED <<place, from>>
  PROVE  IInv' /\ BeginOf(c)
<1>1. Shapes /\ Tree(place) /\ TopIsItsOwn BY DEF IInv
<1>2. place' \in [Items -> Places] /\ Tree(place') /\ TopIsItsOwn'
  BY <1>1 DEF Shapes, TopIsItsOwn
<1>3. j.dst \in Paths => Under(j.dst) = {} BY <1>1, FreeIsEmpty
<1>4. s \in {"move", "publish", "copy"} => j.dst \in Paths BY DEF JobOK
<1>5. IInv' BY <1>2, <1>3, <1>4, BeginKeeps DEF Steps, Owner
<1>6. Beginning(c, s, j) BY <1>3 DEF Beginning
<1> QED BY <1>5, <1>6 DEF BeginOf

LEMMA FrontLength == ASSUME NEW S, NEW x \in Seq(S), Len(x) > 0 PROVE Len(Front(x)) = Len(x) - 1
<1>1. PICK n \in Nat : n = Len(x) - 1 BY LenProperties
<1>2. Len(SubSeq(x, 1, n)) = n BY <1>1
<1> QED BY <1>1, <1>2 DEF Front

LEMMA RenameBegins ==
  ASSUME AllPaths, IInv, NEW c \in Callers, NEW p \in Paths, NEW q \in Paths,
         BeginRename(c, p, q)
  PROVE  IInv' /\ BeginOf(c)
<1> DEFINE j == [NoJob EXCEPT !.src = p, !.dst = q]
<1>1. j \in Jobs /\ j.src = p /\ j.dst = q /\ j.clean = TRUE
  BY DEF NoJob, Jobs
<1>2. Begin(c, "move", j) /\ ~ Taken(q) /\ UNCHANGED <<place, from>> BY DEF BeginRename
<1> HIDE DEF j
<1>4. ~ IsPrefix(p, q)
  <2>1. p \in Seq(Symbols) /\ q \in Seq(Symbols) /\ Len(p) > 0 /\ Len(q) > 0 BY PathsAre
  <2>2. Len(Front(p)) = Len(p) - 1 /\ Len(Front(q)) = Len(q) - 1 BY <2>1, FrontLength
  <2>3. p # q /\ Front(p) = Front(q) BY DEF BeginRename
  <2>4. Len(q) <= Len(p) BY <2>1, <2>2, <2>3
  <2> QED BY <2>1, <2>3, <2>4, PrefixAnti
<1>3. JobOK("move", j) BY <1>1, <1>4 DEF JobOK, Locks
<1> QED BY <1>1, <1>2, <1>3, BeginInPlace

LEMMA MoveBegins ==
  ASSUME AllPaths, IInv, NEW c \in Callers, NEW p \in Paths, NEW q \in Paths,
         BeginMove(c, p, q)
  PROVE  IInv' /\ BeginOf(c)
<1> DEFINE j == [NoJob EXCEPT !.src = p, !.dst = q]
<1>1. j \in Jobs /\ j.src = p /\ j.dst = q /\ j.clean = TRUE
  BY DEF NoJob, Jobs
<1>2. Begin(c, "move", j) /\ ~ Taken(q) /\ ~ IsPrefix(p, q) /\ UNCHANGED <<place, from>>
  BY DEF BeginMove, Movable
<1> HIDE DEF j
<1>3. JobOK("move", j) BY <1>1, <1>2 DEF JobOK, Locks
<1> QED BY <1>1, <1>2, <1>3, BeginInPlace

LEMMA DeleteBegins ==
  ASSUME AllPaths, IInv, NEW c \in Callers, NEW p \in Paths,
         BeginDelete(c, p)
  PROVE  IInv' /\ BeginOf(c)
<1> DEFINE j == [NoJob EXCEPT !.src = p]
<1>1. j \in Jobs /\ j.src = p /\ j.dst \notin Paths /\ j.clean = TRUE
  BY PathsAre DEF NoJob, NoPath, Jobs
<1>2. Begin(c, "trash", j) /\ UNCHANGED <<place, from>> BY DEF BeginDelete
<1> HIDE DEF j
<1>3. JobOK("trash", j) BY <1>1 DEF JobOK, Locks
<1> QED BY <1>1, <1>2, <1>3, BeginInPlace

LEMMA CreateBegins ==
  ASSUME AllPaths, IInv, NEW c \in Callers, NEW q \in Paths,
         BeginCreate(c, q)
  PROVE  IInv' /\ BeginOf(c)
<1> DEFINE j == [NoJob EXCEPT !.dst = q]
<1>1. j \in Jobs /\ j.dst = q /\ j.clean = TRUE
  BY DEF NoJob, Jobs
<1>2. Begin(c, "create", j) /\ ~ Taken(q) /\ UNCHANGED <<place, from>> BY DEF BeginCreate
<1> HIDE DEF j
<1>3. JobOK("create", j) BY <1>1 DEF JobOK, Locks
<1> QED BY <1>1, <1>2, <1>3, BeginInPlace

LEMMA PublishBegins ==
  ASSUME AllPaths, IInv, NEW c \in Callers, NEW q \in Paths,
         BeginPublish(c, q)
  PROVE  IInv' /\ BeginOf(c)
<1> DEFINE j == [NoJob EXCEPT !.dst = q, !.own = Parent(q)]
<1>1. j \in Jobs /\ j.dst = q /\ j.own = Parent(q) /\ j.clean = TRUE
  BY DEF NoJob, Jobs, Parent, At
<1>2. Begin(c, "publish", j) /\ ~ Taken(q) /\ HasParent(q) /\ UNCHANGED <<place, from>> BY DEF BeginPublish
<1> HIDE DEF j
<1>3. JobOK("publish", j) BY <1>1, <1>2 DEF JobOK, Locks, HasParent
<1> QED BY <1>1, <1>2, <1>3, BeginInPlace

LEMMA CopyBegins ==
  ASSUME AllPaths, IInv, NEW c \in Callers, NEW p \in Paths, NEW q \in Paths,
         CopyTo(c, p, q), UNCHANGED <<place, from>>
  PROVE  IInv' /\ BeginOf(c)
<1>0. PICK i \in Items : Begin(c, "copy", [NoJob EXCEPT !.src = p, !.dst = q, !.item = i]) BY DEF CopyTo, At
<1> DEFINE j == [NoJob EXCEPT !.src = p, !.dst = q, !.item = i]
<1>1. j \in Jobs /\ j.src = p /\ j.dst = q /\ j.own = {} /\ j.clean = TRUE
  BY <1>0 DEF NoJob, Jobs
<1>2. Begin(c, "copy", j) /\ ~ Taken(q) /\ UNCHANGED <<place, from>> BY <1>0 DEF CopyTo
<1> HIDE DEF j
<1>3. JobOK("copy", j) BY <1>1 DEF JobOK, Locks
<1> QED BY <1>1, <1>2, <1>3, BeginInPlace

LEMMA ShareBegins ==
  ASSUME AllPaths, IInv, NEW c \in Callers, NEW p \in Paths,
         BeginShare(c, p)
  PROVE  IInv' /\ BeginOf(c)
<1>0. PICK i \in Items : place[i] = p /\ Begin(c, "share", [NoJob EXCEPT !.src = p, !.item = i])
  BY DEF BeginShare, At
<1> DEFINE j == [NoJob EXCEPT !.src = p, !.item = i]
<1>1. j \in Jobs /\ j.src = p /\ j.dst \notin Paths /\ j.item = i /\ j.clean = TRUE
  BY <1>0, PathsAre DEF NoJob, NoPath, Jobs
<1>2. Begin(c, "share", j) /\ place[j.item] = j.src /\ j.item \in Items /\ UNCHANGED <<place, from>>
  BY <1>0, <1>1 DEF BeginShare
<1> HIDE DEF j
<1>3. JobOK("share", j) BY <1>1 DEF JobOK, Locks
<1> QED BY <1>1, <1>2, <1>3, BeginInPlace

LEMMA RestoreBegins ==
  ASSUME AllPaths, IInv, NEW c \in Callers, NEW i \in Items, NEW k \in Folders \cup {Nobody},
         BeginRestore(c, i, k)
  PROVE  IInv' /\ BeginOf(c)
<1> DEFINE p == from[i]
<1>1. Shapes /\ Tree(place) /\ TopIsItsOwn BY DEF IInv
<1>2. p \in Paths /\ ~ Taken(p) /\ ~ TrashLocked BY <1>1 DEF BeginRestore, Shapes
<1>3. \/ place' = place
      \/ /\ k \in Folders /\ CanCreate(k, Front(p)) /\ Len(p) > 1
         /\ place' = [place EXCEPT ![k] = Front(p)]
  BY DEF BeginRestore
<1> DEFINE j == [NoJob EXCEPT !.dst = p, !.item = i]
<1>6. Begin(c, "restore", j) /\ from' = from BY DEF BeginRestore
<1> HIDE DEF p
<1>7. j \in Jobs /\ j.dst = p /\ j.item = i /\ j.clean = TRUE BY <1>2 DEF NoJob, Jobs
<1> HIDE DEF j
<1>8. JobOK("restore", j) BY <1>2, <1>7 DEF JobOK, Locks
<1>9. Under(j.dst) = {} BY <1>1, <1>2, <1>7, FreeIsEmpty
<1>10. CASE place' = place
  <2>1. place' \in [Items -> Places] /\ Tree(place') /\ TopIsItsOwn'
    BY <1>1, <1>10 DEF Shapes, TopIsItsOwn
  <2>2. IInv' BY <1>2, <1>6, <1>7, <1>8, <1>9, <1>10, <2>1, BeginKeeps DEF Steps, Owner
  <2>3. Beginning(c, "restore", j) BY <1>6, <1>7, <1>8, <1>9, <1>10 DEF Beginning
  <2> QED BY <2>2, <2>3 DEF BeginOf
<1>11. CASE /\ k \in Folders /\ CanCreate(k, Front(p)) /\ Len(p) > 1
            /\ place' = [place EXCEPT ![k] = Front(p)]
  <2>1. Front(p) \in Paths BY <1>2, <1>11, PathUp
  <2>2. p \in Seq(Symbols) BY <1>2, PathsAre
  <2>3. Front(p) # p /\ IsPrefix(Front(p), p)
    <3>1. Front(p) \in StrictPrefixes(p) BY <1>11, <2>2, FrontIs
    <3> QED BY <2>2, <3>1, StrictPrefixIs
  <2>4. k \in Items /\ place[k] = Nowhere /\ \A m \in Items : place[m] # Front(p)
    BY <1>11 DEF CanCreate, Taken, At, Items
  <2>5. Len(Front(p)) = 1 \/ \E m \in Folders : place[m] = Front(Front(p))
    BY <1>11 DEF CanCreate, HasParent, Parent, At
  <2>6. Tree([place EXCEPT ![k] = Front(p)])
    BY <1>1, <2>1, <2>4, <2>5, CreateKeepsTree DEF Shapes
  <2>7. place' \in [Items -> Places] BY <1>1, <1>11, <2>1 DEF Shapes, Places
  <2>8. \A m \in Items : place'[m] # place[m] => m = k /\ place'[m] = Front(p)
    BY <1>1, <1>11 DEF Shapes
  <2>9. TopIsItsOwn'
    <3>1. \A m \in Items : Front(p) # TrashPlace(m) BY <2>1, TrashTop, PlacesDiffer
    <3> QED BY <1>1, <2>8, <3>1 DEF TopIsItsOwn
  <2>10. IInv'
    BY <1>2, <1>6, <1>7, <1>8, <1>9, <1>11, <2>1, <2>3, <2>4, <2>6, <2>7, <2>8, <2>9, BeginKeeps
       DEF Steps, Owner
  <2>11. Beginning(c, "restore", j)
    BY <1>2, <1>6, <1>7, <1>8, <1>9, <2>1, <2>3, <2>4, <2>8 DEF Beginning
  <2> QED BY <2>10, <2>11 DEF BeginOf
<1> QED BY <1>3, <1>10, <1>11 DEF p

-----------------------------------------------------------------------------
(* A request goes on.                                                      *)

LEMMA StepKeepsReachable ==
  ASSUME AllPaths, IInv, NEW c \in Callers, StepOf(c)
  PROVE  AnsweredIsKept'
<1>1. SUFFICES ASSUME NEW i \in answered' \ excused' PROVE Reachable(i)'
  BY DEF AnsweredIsKept
<1>2. Shapes /\ Shapes' BY DEF IInv, StepOf
<1>3. i \in Items /\ i \notin excused BY <1>2 DEF Shapes, StepOf
<1>4. place[i] \in Places /\ place'[i] \in Places BY <1>2, <1>3 DEF Shapes
<1>5. CASE i \notin answered
  <2>1. job[c].clean BY <1>1, <1>5 DEF StepOf, AnswersOwn
  <2>2. job[c].dst \in Paths /\ IsPrefix(job[c].dst, place'[i])
    BY <1>1, <1>5, <2>1 DEF StepOf, AnswersOwn
  <2>3. place'[i] \in Paths BY <1>4, <2>2, UnderPath
  <2> QED BY <2>3 DEF Reachable
<1>6. CASE i \in answered /\ place'[i] # place[i]
  BY <1>1, <1>3, <1>6 DEF StepOf, MovesOwn
<1>7. CASE i \in answered /\ place'[i] = place[i]
  <2>1. Reachable(i) BY <1>3, <1>7 DEF IInv, AnsweredIsKept
  <2>2. CASE place[i] \in Paths BY <1>7, <2>2 DEF Reachable
  <2>3. CASE place[i] \notin Paths
    <3>1. \A d \in Callers : pc[d] = "undo" => job[d].item \in Items BY DEF IInv, JobOK, Locks
    <3>2. place[i] \in TrashPlaces BY <1>4, <2>1, <2>3, <3>1, UnderTrash DEF Reachable
    <3> QED BY <1>7, <2>1, <3>2 DEF StepOf, KeepsTrash
  <2> QED BY <2>2, <2>3
<1> QED BY <1>5, <1>6, <1>7

LEMMA StepKeeps ==
  ASSUME AllPaths, IInv, NEW c \in Callers, StepOf(c), Tree(place'), TopIsItsOwn',
         JobOK(pc'[c], job'[c]), RequestOK(c)',
         Active(c)' => Area(job'[c]) = Area(job[c]) /\ job'[c].clean = job[c].clean,
         pc'[c] \in Locks => ~ TrashLocked,
         pc'[c] \in Owner => \A i \in job'[c].own : (pc[c] \in Owner /\ i \in job[c].own)
                                                  \/ place[i] = Nowhere
  PROVE  IInv' /\ StepOf(c)
<1>1. \A d \in Callers \ {c} : pc'[d] = pc[d] /\ job'[d] = job[d] BY DEF StepOf, Others
<1>2. Shapes' BY DEF StepOf
<1>3. \A d \in Callers : JobOK(pc'[d], job'[d]) BY <1>1 DEF IInv
<1>4. OneLock' BY <1>1 DEF IInv, OneLock, TrashLocked, Locks
<1>5. OwnersDiffer'
  <2>1. ASSUME NEW d \in Callers \ {c}, pc'[c] \in Owner, pc[d] \in Owner
        PROVE  job'[c].own \cap job[d].own = {}
    <3>1. \A i \in job[d].own : place[i] # Nowhere BY <2>1 DEF IInv, RequestOK, OwnIsNew
    <3>2. pc[c] \in Owner => job[c].own \cap job[d].own = {} BY <2>1 DEF IInv, OwnersDiffer
    <3> QED BY <2>1, <3>1, <3>2
  <2> QED BY <1>1, <2>1 DEF IInv, OwnersDiffer
<1>6. RivalsAreDirty'
  <2>1. Active(c) BY DEF StepOf
  <2>2. \A d \in Callers : Active(d)' => Active(d) BY <1>1, <2>1 DEF Active
  <2>3. \A d \in Callers : Active(d)' => Area(job'[d]) = Area(job[d]) /\ job'[d].clean = job[d].clean
    BY <1>1
  <2>4. \A d, e \in Callers : Active(d)' /\ Active(e)' =>
          (Overlap(job'[d], job'[e]) <=> Overlap(job[d], job[e]))
    BY <2>3 DEF Overlap
  <2> QED BY <2>2, <2>3, <2>4 DEF IInv, RivalsAreDirty
<1>7. \A d \in Callers : RequestOK(d)' BY OthersStay
<1>8. \A i \in answered' : place'[i] # Nowhere
  BY DEF IInv, StepOf, AnswersOwn, MovesOwn, Shapes
<1>9. AnsweredIsKept' BY StepKeepsReachable
<1> QED BY <1>2, <1>3, <1>4, <1>5, <1>6, <1>7, <1>8, <1>9 DEF IInv

LEMMA ReturnIs ==
  ASSUME Shapes, NEW c \in Callers, Return(c)
  PROVE  /\ pc' \in [Callers -> Steps] /\ job' \in [Callers -> Jobs]
         /\ pc'[c] = "done" /\ job'[c] = NoJob /\ Others(c)
<1>1. NoJob \in Jobs BY DEF NoJob, Jobs
<1> QED BY <1>1 DEF Return, Shapes, Others, Steps

LEMMA ReturnKeeps ==
  ASSUME AllPaths, IInv, NEW c \in Callers, StepOf(c), Tree(place'), TopIsItsOwn', Return(c)
  PROVE  IInv' /\ StepOf(c)
<1>1. pc'[c] = "done" /\ job'[c] = NoJob BY ReturnIs DEF IInv
<1>2. JobOK(pc'[c], job'[c]) BY <1>1 DEF JobOK, Locks
<1>3. RequestOK(c)'
  BY <1>1 DEF RequestOK, DirtyIsExcused, CleanIsAlone, OwnIsNew, InTop, Active, Locks, Owner
<1>4. ~ Active(c)' /\ pc'[c] \notin Locks /\ pc'[c] \notin Owner
  BY <1>1 DEF Active, Locks, Owner
<1> QED BY <1>2, <1>3, <1>4, StepKeeps

(* The request ends and leaves the archive as it is.                       *)
LEMMA QuietReturn ==
  ASSUME AllPaths, IInv, NEW c \in Callers, Active(c), pc[c] # "undo", Return(c),
         UNCHANGED <<place, from, answered>>, excused \subseteq excused'
  PROVE  IInv' /\ StepOf(c)
<1>1. Shapes /\ Tree(place) /\ TopIsItsOwn BY DEF IInv
<1>2. Others(c) /\ Shapes' BY <1>1, ReturnIs DEF Shapes
<1>3. MovesOwn(c) /\ AnswersOwn(c) BY <1>1 DEF MovesOwn, AnswersOwn
<1>4. KeepsTrash(c)
  <2>1. \A d \in Callers : pc[d] = "undo" => pc'[d] = "undo" /\ job'[d] = job[d]
    BY <1>2 DEF Others
  <2> QED BY <2>1 DEF KeepsTrash, Reachable
<1>5. StepOf(c) BY <1>2, <1>3, <1>4 DEF StepOf
<1>6. Tree(place') /\ TopIsItsOwn' BY <1>1 DEF TopIsItsOwn
<1> QED BY <1>5, <1>6, ReturnKeeps

(* The request answers for what it created.                                *)
LEMMA AnswerKeeps ==
  ASSUME AllPaths, IInv, NEW c \in Callers, pc[c] \in {"write", "fill"}, Answer(c)
  PROVE  IInv' /\ StepOf(c)
<1>1. /\ Shapes /\ Tree(place) /\ TopIsItsOwn /\ job[c] \in Jobs
      /\ RequestOK(c) /\ JobOK(pc[c], job[c])
  BY DEF IInv, Shapes
<1>2. /\ Return(c) /\ UNCHANGED <<place, from, excused>> /\ answered' = answered \cup job[c].own
      /\ pc[c] \in Owner /\ Active(c) /\ job[c].own \subseteq Items
  BY <1>1 DEF Answer, Owner, Active, Jobs
<1>3. Others(c) /\ Shapes' BY <1>1, <1>2, ReturnIs DEF Shapes
<1>4. MovesOwn(c) BY <1>2 DEF MovesOwn
<1>5. AnswersOwn(c)
  BY <1>1, <1>2 DEF AnswersOwn, RequestOK, OwnIsNew, CleanIsAlone, DirtyIsExcused, JobOK, Under
<1>6. KeepsTrash(c)
  <2>1. \A d \in Callers : pc[d] = "undo" => pc'[d] = "undo" /\ job'[d] = job[d]
    BY <1>3 DEF Others
  <2> QED BY <1>2, <2>1 DEF KeepsTrash, Reachable
<1>7. StepOf(c) BY <1>2, <1>3, <1>4, <1>5, <1>6 DEF StepOf
<1>8. Tree(place') /\ TopIsItsOwn' BY <1>1, <1>2 DEF TopIsItsOwn
<1> QED BY <1>2, <1>7, <1>8, ReturnKeeps

-----------------------------------------------------------------------------
(* Steps that create.                                                      *)

(* The area of a dirty request stays excused.                              *)
LEMMA AreaStaysExcused ==
  ASSUME IInv, NEW c \in Callers, StepOf(c), ~ job[c].clean, NEW a \in Area(job[c]),
         NEW i \in answered', i \in Items, IsPrefix(a, place'[i])
  PROVE  i \in excused'
<1>1. CASE i \notin answered BY <1>1 DEF StepOf, AnswersOwn
<1>2. CASE i \in answered /\ place'[i] # place[i] BY <1>2 DEF StepOf, MovesOwn
<1>3. CASE i \in answered /\ place'[i] = place[i]
  <2>1. i \in Under(a) BY <1>3 DEF Under
  <2> QED BY <1>3, <2>1 DEF IInv, RequestOK, DirtyIsExcused, StepOf
<1> QED BY <1>1, <1>2, <1>3

LEMMA CreateStep ==
  ASSUME AllPaths, IInv, NEW c \in Callers, Active(c), pc[c] # "undo", Others(c),
         job[c].dst \in Paths, NEW q \in Paths, IsPrefix(job[c].dst, q),
         NEW i \in Items, CanCreate(i, q), place' = [place EXCEPT ![i] = q],
         from' = from, excused \subseteq excused'
  PROVE  /\ place' \in [Items -> Places] /\ Tree(place') /\ TopIsItsOwn'
         /\ MovesOwn(c) /\ KeepsTrash(c)
<1>1. Shapes /\ Tree(place) /\ TopIsItsOwn /\ \A k \in answered : place[k] # Nowhere BY DEF IInv
<1>2. place[i] = Nowhere /\ \A k \in Items : place[k] # q BY DEF CanCreate, Taken, At
<1>3. Len(q) = 1 \/ \E k \in Folders : place[k] = Front(q)
  BY DEF CanCreate, HasParent, Parent, At
<1>4. Tree([place EXCEPT ![i] = q]) BY <1>1, <1>2, <1>3, CreateKeepsTree DEF Shapes
<1>5. place' \in [Items -> Places] BY <1>1 DEF Shapes, Places
<1>6. \A k \in Items : place'[k] = IF k = i THEN q ELSE place[k] BY <1>1 DEF Shapes
<1>7. TopIsItsOwn'
  <2>1. \A k \in Items : q # TrashPlace(k) BY TrashTop, PlacesDiffer
  <2> QED BY <1>1, <1>6, <2>1 DEF TopIsItsOwn
<1>8. job[c].dst \in Area(job[c]) BY PathsAre DEF Area, NoPath
<1>9. q \notin TrashPlaces /\ Nowhere \notin TrashPlaces /\ Nowhere \notin Paths
  BY PlacesDiffer
<1>10. MovesOwn(c) BY <1>1, <1>2, <1>6, <1>8, <1>9 DEF MovesOwn, Near
<1>11. KeepsTrash(c)
  <2>1. \A d \in Callers : pc[d] = "undo" => pc'[d] = "undo" /\ job'[d] = job[d]
    BY DEF Others
  <2> QED BY <2>1 DEF KeepsTrash, Reachable
<1> QED BY <1>4, <1>5, <1>7, <1>10, <1>11

LEMMA MakeFolderKeeps ==
  ASSUME AllPaths, IInv, NEW c \in Callers, NEW i \in Items, MakeFolder(c, i)
  PROVE  IInv' /\ StepOf(c)
<1>1. Shapes /\ job[c] \in Jobs /\ JobOK(pc[c], job[c]) BY DEF IInv, Shapes
<1>2. /\ pc[c] = "create" /\ CanCreate(i, job[c].dst) /\ Return(c) /\ from' = from
      /\ place' = [place EXCEPT ![i] = job[c].dst] /\ answered' = answered \cup {i}
      /\ excused \subseteq excused' /\ (~ job[c].clean => i \in excused')
  BY DEF MakeFolder, Made
<1>3. job[c].dst \in Paths /\ IsPrefix(job[c].dst, job[c].dst) /\ Active(c)
  BY <1>1, <1>2, PathsAre, PrefixRefl DEF JobOK, Active
<1>4. Others(c) /\ pc' \in [Callers -> Steps] /\ job' \in [Callers -> Jobs]
  BY <1>1, <1>2, ReturnIs
<1>5. /\ place' \in [Items -> Places] /\ Tree(place') /\ TopIsItsOwn'
      /\ MovesOwn(c) /\ KeepsTrash(c)
  BY <1>2, <1>3, <1>4, CreateStep
<1>6. Shapes' BY <1>1, <1>2, <1>4, <1>5 DEF Shapes
<1>7. AnswersOwn(c)
  <2>1. place[i] = Nowhere /\ place'[i] = job[c].dst BY <1>1, <1>2 DEF CanCreate, Shapes
  <2> QED BY <1>2, <1>3, <2>1, PlacesDiffer DEF AnswersOwn
<1>8. StepOf(c) BY <1>2, <1>3, <1>4, <1>5, <1>6, <1>7 DEF StepOf
<1> QED BY <1>2, <1>5, <1>8, ReturnKeeps

(* A request creates one more item of its own.                             *)
LEMMA OwnOneMore ==
  ASSUME AllPaths, IInv, NEW c \in Callers, pc[c] \in {"create", "copy", "fill"},
         NEW q \in Paths, IsPrefix(job[c].dst, q), NEW i \in Items, CanCreate(i, q),
         pc[c] = "fill" \/ q = job[c].dst,
         place' = [place EXCEPT ![i] = q], UNCHANGED <<from, answered>>,
         Made(c, {i}), NEW l \in {"write", "fill"}, pc' = [pc EXCEPT ![c] = l],
         NEW j \in Jobs, job' = [job EXCEPT ![c] = j],
         j.src = job[c].src, j.dst = job[c].dst, j.clean = job[c].clean,
         pc[c] = "fill" => j.own = job[c].own \cup {i},
         pc[c] # "fill" => j.own = {i},
         JobOK(l, j)
  PROVE  IInv' /\ StepOf(c)
<1>1. /\ Shapes /\ Tree(place) /\ job[c] \in Jobs /\ JobOK(pc[c], job[c]) /\ RequestOK(c)
      /\ \A k \in answered : place[k] # Nowhere
  BY DEF IInv, Shapes
<1>2. job[c].dst \in Paths /\ Active(c) /\ pc[c] # "undo" BY <1>1 DEF JobOK, Active
<1>3. excused \subseteq excused' /\ (~ job[c].clean => i \in excused') BY DEF Made
<1>4. /\ Others(c) /\ pc' \in [Callers -> Steps] /\ job' \in [Callers -> Jobs]
      /\ pc'[c] = l /\ job'[c] = j
  BY <1>1 DEF Others, Shapes, Steps
<1>5. /\ place' \in [Items -> Places] /\ Tree(place') /\ TopIsItsOwn'
      /\ MovesOwn(c) /\ KeepsTrash(c)
  BY <1>2, <1>3, <1>4, CreateStep
<1>6. Shapes' BY <1>1, <1>4, <1>5 DEF Shapes
<1>7. AnswersOwn(c) BY DEF AnswersOwn
<1>8. StepOf(c) BY <1>2, <1>3, <1>4, <1>5, <1>6, <1>7 DEF StepOf
<1>9. place[i] = Nowhere /\ place'[i] = q /\ \A k \in Items \ {i} : place'[k] = place[k]
  BY <1>1 DEF CanCreate, Shapes
<1>10. Area(j) = Area(job[c]) BY DEF Area
<1>11. i \notin answered /\ q # Nowhere BY <1>1, <1>9, PlacesDiffer
<1>12. DirtyIsExcused(c)'
  <2>1. ASSUME ~ job[c].clean PROVE j.own \subseteq excused'
    BY <1>1, <1>3, <2>1 DEF RequestOK, DirtyIsExcused, Owner
  <2>2. ASSUME ~ job[c].clean, NEW a \in Area(job[c]) PROVE Under(a)' \cap answered' \subseteq excused'
    BY <1>8, <2>2, AreaStaysExcused DEF Under
  <2> QED BY <1>4, <1>10, <2>1, <2>2 DEF DirtyIsExcused, Locks
<1>13. CleanIsAlone(c)'
  <2>1. pc[c] # "fill" => Under(job[c].dst) = {}
    <3>1. pc[c] # "fill" => ~ Taken(job[c].dst) BY DEF CanCreate
    <3> QED BY <1>1, <1>2, <3>1, FreeIsEmpty
  <2>2. pc[c] = "fill" /\ job[c].clean => Under(job[c].dst) = job[c].own
    BY <1>1 DEF RequestOK, CleanIsAlone, Owner
  <2>3. Under(job[c].dst) \cup {i} = {k \in Items : IsPrefix(job[c].dst, place'[k])}
    <3>1. ASSUME NEW k \in Items
          PROVE  IsPrefix(job[c].dst, place'[k]) <=> IsPrefix(job[c].dst, place[k]) \/ k = i
      BY <1>9
    <3> QED BY <3>1 DEF Under
  <2>4. job[c].clean => j.own = {k \in Items : IsPrefix(job[c].dst, place'[k])}
    BY <2>1, <2>2, <2>3
  <2> QED BY <1>4, <2>4 DEF CleanIsAlone, Under
<1>14. OwnIsNew(c)'
  <2>1. pc[c] = "fill" => /\ job[c].own \cap answered = {} /\ job[c].own \subseteq Items
                          /\ \A k \in job[c].own : place[k] # Nowhere
    BY <1>1 DEF RequestOK, OwnIsNew, Owner, Jobs
  <2> QED BY <1>4, <1>9, <1>11, <2>1 DEF OwnIsNew
<1>15. InTop(c)' BY <1>4 DEF InTop
<1>16. RequestOK(c)' BY <1>12, <1>13, <1>14, <1>15 DEF RequestOK
<1>17. \A k \in j.own : (pc[c] \in Owner /\ k \in job[c].own) \/ place[k] = Nowhere
  BY <1>9 DEF Owner
<1> QED BY <1>4, <1>5, <1>8, <1>10, <1>16, <1>17, StepKeeps DEF Locks

LEMMA CreateFileKeeps ==
  ASSUME AllPaths, IInv, NEW c \in Callers, NEW i \in Items, CreateFile(c, i)
  PROVE  IInv' /\ StepOf(c)
<1> DEFINE j == [job[c] EXCEPT !.own = {i}]
           q == job[c].dst
<1>1. Shapes /\ job[c] \in Jobs /\ JobOK(pc[c], job[c]) BY DEF IInv, Shapes
<1>2. /\ pc[c] = "create" /\ CanCreate(i, q) /\ place' = [place EXCEPT ![i] = q]
      /\ UNCHANGED <<from, answered>> /\ Made(c, {i}) /\ pc' = [pc EXCEPT ![c] = "write"]
  BY DEF CreateFile
<1>3. job' = [job EXCEPT ![c] = j] BY DEF CreateFile
<1>4. /\ j \in Jobs /\ j.src = job[c].src /\ j.dst = q /\ j.clean = job[c].clean
      /\ j.own = {i}
  BY <1>1 DEF Jobs
<1>5. q \in Paths /\ IsPrefix(q, q) BY <1>1, <1>2, PathsAre, PrefixRefl DEF JobOK
<1> HIDE DEF j, q
<1>6. JobOK("write", j) BY <1>4, <1>5 DEF JobOK, Locks
<1> QED BY <1>1, <1>2, <1>3, <1>4, <1>5, <1>6, OwnOneMore DEF q

LEMMA CopyOneKeeps ==
  ASSUME AllPaths, IInv, NEW c \in Callers, pc[c] \in {"copy", "fill"}, NEW q \in Paths,
         IsPrefix(job[c].dst, q), pc[c] = "fill" \/ q = job[c].dst, NEW i \in Items, NEW k,
         NEW left \in SUBSET Names, CopyOne(c, i, k, q, left)
  PROVE  IInv' /\ StepOf(c)
<1> DEFINE j == [job[c] EXCEPT !.own = @ \cup {i}, !.left = left]
<1>1. Shapes /\ job[c] \in Jobs /\ JobOK(pc[c], job[c]) BY DEF IInv, Shapes
<1>2. /\ CanCreate(i, q) /\ place' = [place EXCEPT ![i] = q]
      /\ UNCHANGED <<from, answered>> /\ Made(c, {i}) /\ pc' = [pc EXCEPT ![c] = "fill"]
  BY DEF CopyOne
<1>3. job' = [job EXCEPT ![c] = j] BY DEF CopyOne
<1>4. /\ j \in Jobs /\ j.src = job[c].src /\ j.dst = job[c].dst /\ j.clean = job[c].clean
      /\ j.own = job[c].own \cup {i}
  BY <1>1 DEF Jobs
<1> HIDE DEF j
<1>5. pc[c] # "fill" => j.own = {i} BY <1>1, <1>4 DEF JobOK
<1>6. JobOK("fill", j) BY <1>1, <1>4 DEF JobOK, Locks
<1> QED BY <1>2, <1>3, <1>4, <1>5, <1>6, OwnOneMore

LEMMA CopyTopKeeps ==
  ASSUME AllPaths, IInv, NEW c \in Callers, NEW i \in Items, CopyTop(c, i)
  PROVE  IInv' /\ StepOf(c)
<1>1. Shapes /\ job[c] \in Jobs /\ JobOK(pc[c], job[c]) /\ pc[c] = "copy"
  BY DEF IInv, Shapes, CopyTop
<1>2. job[c].src \in Paths /\ job[c].dst \in Paths BY <1>1 DEF JobOK
<1>3. IsPrefix(job[c].dst, job[c].dst) BY <1>2, PathsAre, PrefixRefl
<1>4. PICK left : /\ left = {Last(place[k]) : k \in Children(job[c].src)}
                  /\ CopyOne(c, i, job[c].item, job[c].dst, left)
  BY DEF CopyTop
<1>5. ASSUME NEW k \in Children(job[c].src) PROVE Last(place[k]) \in Names
  <2>1. place[k] \in Places /\ IsPrefix(job[c].src, place[k]) BY <1>1 DEF Children, Shapes
  <2>2. place[k] \in Paths BY <1>2, <2>1, UnderPath
  <2>3. place[k] \in Seq(Names) /\ Len(place[k]) > 0 BY <2>2, PathsAre
  <2> QED BY <2>3 DEF Last
<1>6. left \in SUBSET Names BY <1>4, <1>5
<1> QED BY <1>1, <1>2, <1>3, <1>4, <1>6, CopyOneKeeps

LEMMA CopyChildKeeps ==
  ASSUME AllPaths, IInv, NEW c \in Callers, NEW i \in Items, NEW n \in job[c].left,
         CopyChild(c, i, n)
  PROVE  IInv' /\ StepOf(c)
<1>1. Shapes /\ job[c] \in Jobs /\ JobOK(pc[c], job[c]) /\ pc[c] = "fill"
  BY DEF IInv, Shapes, CopyChild
<1>2. job[c].dst \in Paths /\ job[c].left \subseteq Names BY <1>1 DEF JobOK, Jobs
<1>3. PICK k : CopyOne(c, i, k, Append(job[c].dst, n), job[c].left \ {n}) BY DEF CopyChild
<1>4. /\ Append(job[c].dst, n) \in Seq(Names)
      /\ Len(Append(job[c].dst, n)) = Len(job[c].dst) + 1
      /\ \A m \in 1 .. Len(job[c].dst) : Append(job[c].dst, n)[m] = job[c].dst[m]
  BY <1>2, PathsAre
<1>5. Append(job[c].dst, n) \in Paths
  <2>1. Len(job[c].dst) \in Nat BY <1>2, PathsAre, LenProperties
  <2>2. Append(job[c].dst, n) # << >> BY <1>4, <2>1
  <2> QED BY <1>4, <2>2 DEF AllPaths
<1>6. IsPrefix(job[c].dst, Append(job[c].dst, n))
  <2>1. job[c].dst \in Seq(Names) /\ Len(job[c].dst) \in Nat BY <1>2, PathsAre, LenProperties
  <2>2. PICK a : a = Append(job[c].dst, n) OBVIOUS
  <2>3. a \in Seq(Names) /\ \A m \in 1 .. Len(job[c].dst) : job[c].dst[m] = a[m]
    BY <1>4, <2>2
  <2>4. Len(job[c].dst) <= Len(a) BY <1>4, <2>1, <2>2
  <2>5. IsPrefix(job[c].dst, a) BY <2>1, <2>3, <2>4, PrefixIs
  <2> QED BY <2>2, <2>5
<1>7. job[c].left \ {n} \in SUBSET Names BY <1>2
<1> QED BY <1>1, <1>3, <1>5, <1>6, <1>7, CopyOneKeeps

LEMMA CopyFailsKeeps ==
  ASSUME AllPaths, IInv, NEW c \in Callers, CopyFails(c)
  PROVE  IInv' /\ StepOf(c)
<1>1. /\ Shapes /\ Tree(place) /\ TopIsItsOwn /\ job[c] \in Jobs /\ JobOK(pc[c], job[c])
      /\ RequestOK(c)
  BY DEF IInv, Shapes
<1>2. /\ pc[c] \in {"copy", "fill"} /\ pc' = [pc EXCEPT ![c] = "clean"]
      /\ UNCHANGED <<job, place, from, answered, excused>>
  BY DEF CopyFails, Goto, history
<1>3. pc'[c] = "clean" /\ Others(c) /\ Shapes' BY <1>1, <1>2 DEF Others, Shapes, Steps
<1>4. KeepsTrash(c)
  <2>1. \A d \in Callers : pc[d] = "undo" => pc'[d] = "undo" /\ job'[d] = job[d]
    BY <1>2, <1>3 DEF Others
  <2> QED BY <1>2, <2>1 DEF KeepsTrash, Reachable
<1>5. StepOf(c) BY <1>2, <1>3, <1>4 DEF StepOf, MovesOwn, AnswersOwn, Active
<1>6. JobOK(pc'[c], job'[c]) BY <1>1, <1>2, <1>3 DEF JobOK, Locks
<1>7. pc[c] = "copy" => job[c].own = {} BY <1>1 DEF JobOK
<1>8. DirtyIsExcused(c)'
  BY <1>1, <1>2, <1>3, <1>7 DEF RequestOK, DirtyIsExcused, Active, Locks, Owner, Under
<1>9. CleanIsAlone(c)'
  BY <1>1, <1>2, <1>3, <1>7 DEF RequestOK, CleanIsAlone, Owner, Under
<1>10. OwnIsNew(c)' /\ InTop(c)'
  BY <1>1, <1>2, <1>3, <1>7 DEF RequestOK, OwnIsNew, InTop, Owner
<1>11. Tree(place') /\ TopIsItsOwn' BY <1>1, <1>2 DEF TopIsItsOwn
<1>12. \A i \in job'[c].own : (pc[c] \in Owner /\ i \in job[c].own) \/ place[i] = Nowhere
  BY <1>2, <1>7 DEF Owner
<1> QED
  BY <1>2, <1>3, <1>5, <1>6, <1>8, <1>9, <1>10, <1>11, <1>12, StepKeeps DEF RequestOK, Locks

-----------------------------------------------------------------------------
(* Steps that remove what the request created.                             *)

LEMMA RemoveOwn ==
  ASSUME AllPaths, IInv, NEW c \in Callers, pc[c] \in {"write", "clean"}, NEW S,
         S \subseteq Under(job[c].dst),
         \A i, k \in Items : i \in S /\ place[i] \in StrictPrefixes(place[k]) => k \in S,
         place' = Removed(S), Return(c), UNCHANGED <<from, history>>
  PROVE  IInv' /\ StepOf(c)
<1>1. /\ Shapes /\ Tree(place) /\ TopIsItsOwn /\ job[c] \in Jobs /\ JobOK(pc[c], job[c])
      /\ RequestOK(c)
  BY DEF IInv, Shapes
<1>2. /\ job[c].dst \in Paths /\ job[c].dst \in Area(job[c]) /\ Active(c)
      /\ UNCHANGED <<from, answered, excused>>
  BY <1>1, PathsAre DEF JobOK, Area, NoPath, Active, history
<1>3. \A i \in Items : place'[i] = IF i \in S THEN Gone ELSE place[i] BY DEF Removed
<1>4. place' \in [Items -> Places] BY <1>1 DEF Removed, Shapes, Places
<1>5. Others(c) /\ Shapes' BY <1>1, <1>2, <1>4, ReturnIs DEF Shapes
<1>6. Tree(place') BY <1>1, RemoveKeepsTree
<1>7. Gone \notin TrashPlaces /\ Gone \notin Paths /\ Gone # Nowhere BY PlacesDiffer
<1>8. TopIsItsOwn'
  <2>1. \A k \in Items : Gone # TrashPlace(k) BY <1>7, TrashTop
  <2> QED BY <1>1, <1>3, <2>1 DEF TopIsItsOwn
<1>9. ASSUME NEW i \in S, i \in Items
      PROVE  /\ place[i] \in Paths /\ IsPrefix(job[c].dst, place[i]) /\ place[i] \notin TrashPlaces
             /\ ~ job[c].clean /\ i \in answered => i \in excused
             /\ job[c].clean => i \notin answered
  <2>1. IsPrefix(job[c].dst, place[i]) /\ i \in Under(job[c].dst) BY <1>9 DEF Under
  <2>2. place[i] \in Paths BY <1>1, <1>2, <1>9, <2>1, UnderPath DEF Shapes
  <2>3. ~ job[c].clean /\ i \in answered => i \in excused
    BY <1>1, <1>2, <2>1 DEF RequestOK, DirtyIsExcused
  <2>4. job[c].clean => i \in job[c].own
    BY <1>1, <2>1 DEF RequestOK, CleanIsAlone, Owner
  <2>5. job[c].own \cap answered = {} BY <1>1 DEF RequestOK, OwnIsNew, Owner
  <2> QED BY <2>1, <2>2, <2>3, <2>4, <2>5, PlacesDiffer
<1>10. MovesOwn(c) BY <1>2, <1>3, <1>7, <1>9 DEF MovesOwn, Near
<1>11. AnswersOwn(c) BY <1>2 DEF AnswersOwn
<1>12. KeepsTrash(c)
  <2>1. \A d \in Callers : pc[d] = "undo" => pc'[d] = "undo" /\ job'[d] = job[d]
    BY <1>5 DEF Others
  <2> QED BY <1>2, <2>1 DEF KeepsTrash, Reachable
<1>13. StepOf(c) BY <1>2, <1>5, <1>10, <1>11, <1>12 DEF StepOf
<1> QED BY <1>6, <1>8, <1>13, ReturnKeeps

LEMMA WriteFailsKeeps ==
  ASSUME AllPaths, IInv, NEW c \in Callers, WriteFails(c)
  PROVE  IInv' /\ StepOf(c)
<1>1. Shapes /\ Tree(place) /\ JobOK(pc[c], job[c]) BY DEF IInv
<1>2. /\ pc[c] = "write" /\ Return(c) /\ UNCHANGED <<from, history>>
      /\ place' = IF Children(job[c].dst) = {} THEN Removed(At(job[c].dst)) ELSE place
  BY DEF WriteFails
<1>3. CASE Children(job[c].dst) # {}
  BY <1>2, <1>3, QuietReturn DEF Active, history
<1>4. CASE Children(job[c].dst) = {}
  <2>1. job[c].dst \in Paths BY <1>1, <1>2 DEF JobOK
  <2>2. job[c].dst \in Seq(Symbols) BY <2>1, PathsAre
  <2>3. At(job[c].dst) \subseteq Under(job[c].dst) BY <2>2, PrefixRefl DEF At, Under
  <2>4. ASSUME NEW k \in Items, job[c].dst \in StrictPrefixes(place[k]) PROVE FALSE
    <3> DEFINE n == Len(job[c].dst) + 1
               a == SubSeq(place[k], 1, n)
    <3>1. place[k] \in Seq(Symbols) BY <1>1, PlacesAreSequences DEF Shapes
    <3>2. IsPrefix(job[c].dst, place[k]) /\ job[c].dst # place[k] BY <2>4, <3>1, StrictPrefixIs
    <3>3. Len(job[c].dst) <= Len(place[k]) BY <2>2, <3>1, <3>2, PrefixIs
    <3>4. Len(job[c].dst) # Len(place[k]) BY <2>2, <3>1, <3>2, PrefixAnti
    <3>5. n \in 1 .. Len(place[k]) BY <2>2, <3>1, <3>3, <3>4
    <3>6. a \in Seq(Symbols) /\ Len(a) = n /\ \A m \in 1 .. n : a[m] = place[k][m]
      BY <3>1, <3>5
    <3>7. \A m \in 1 .. Len(job[c].dst) : job[c].dst[m] = place[k][m]
      BY <2>2, <3>1, <3>2, PrefixIs
    <3>8. IsPrefix(job[c].dst, a)
      <4>1. PICK b : b = a OBVIOUS
      <4>2. Len(job[c].dst) \in Nat BY <2>2, LenProperties
      <4>3. Len(job[c].dst) <= n /\ \A m \in 1 .. Len(job[c].dst) : m \in 1 .. n BY <4>2
      <4>4. \A m \in 1 .. Len(job[c].dst) : job[c].dst[m] = b[m] BY <3>6, <3>7, <4>1, <4>3
      <4>5. b \in Seq(Symbols) /\ Len(job[c].dst) <= Len(b) BY <3>6, <4>1, <4>3
      <4>6. IsPrefix(job[c].dst, b) BY <2>2, <4>4, <4>5, PrefixIs
      <4> QED BY <4>1, <4>6
    <3>9. place[k] \in Paths BY <1>1, <2>1, <3>2, UnderPath DEF Shapes
    <3>10. CASE n = Len(place[k])
      BY <1>4, <3>2, <3>10 DEF Children
    <3>11. CASE n # Len(place[k])
      <4>1. n \in 1 .. (Len(place[k]) - 1) BY <2>2, <3>1, <3>5, <3>11
      <4>2. a \in StrictPrefixes(place[k]) BY <4>1 DEF StrictPrefixes
      <4>3. a \in Paths BY <3>9, <4>2, PathUp
      <4> HIDE DEF a
      <4>4. a # <<"trash">> BY <4>3, PathsAndTops
      <4>5. PICK m \in Folders : place[m] = a BY <1>1, <4>2, <4>4 DEF Tree
      <4>6. m \in Children(job[c].dst) BY <3>6, <3>8, <4>5 DEF Children, Items
      <4> QED BY <1>4, <4>6
    <3> QED BY <3>10, <3>11
  <2>5. place' = Removed(At(job[c].dst)) BY <1>2, <1>4
  <2>6. \A i, k \in Items : i \in At(job[c].dst) /\ place[i] \in StrictPrefixes(place[k])
                          => k \in At(job[c].dst)
    BY <2>4 DEF At
  <2> QED BY <1>2, <2>3, <2>5, <2>6, RemoveOwn
<1> QED BY <1>3, <1>4

LEMMA CleanUpKeeps ==
  ASSUME AllPaths, IInv, NEW c \in Callers, CleanUp(c)
  PROVE  IInv' /\ StepOf(c)
<1>1. Shapes /\ JobOK(pc[c], job[c]) BY DEF IInv
<1>2. /\ pc[c] = "clean" /\ Return(c) /\ UNCHANGED <<from, history>>
      /\ place' = Removed(Under(job[c].dst))
  BY DEF CleanUp
<1>3. job[c].dst \in Seq(Symbols) BY <1>1, <1>2, PathsAre DEF JobOK
<1>4. ASSUME NEW i \in Items, NEW k \in Items, i \in Under(job[c].dst),
             place[i] \in StrictPrefixes(place[k])
      PROVE  k \in Under(job[c].dst)
  <2>1. place[i] \in Seq(Symbols) /\ place[k] \in Seq(Symbols)
    BY <1>1, PlacesAreSequences DEF Shapes
  <2>2. IsPrefix(place[i], place[k]) BY <1>4, <2>1, StrictPrefixIs
  <2> QED BY <1>3, <1>4, <2>1, <2>2, PrefixTrans DEF Under
<1> QED BY <1>2, <1>4, RemoveOwn

-----------------------------------------------------------------------------
(* Steps that rename.                                                      *)

(* What leads to a place that has a parent is there.                       *)
LEMMA LeadsTo ==
  ASSUME AllPaths, Shapes, Tree(place), NEW q \in Paths \cup Tops,
         q \in Paths => HasParent(q), NEW a \in StrictPrefixes(q)
  PROVE  a = <<"trash">> \/ \E k \in Folders : place[k] = a
<1>1. CASE q \in Paths
  <2>1. Len(q) = 1 \/ \E k \in Folders : place[k] = Front(q)
    BY <1>1 DEF HasParent, Parent, At
  <2> QED BY <1>1, <2>1, ParentsLead DEF Shapes
<1>2. ASSUME NEW i \in Items, q = TrashPlace(i) PROVE a = <<"trash">>
  <2>1. PICK n \in 1 .. (Len(q) - 1) : a = SubSeq(q, 1, n) BY DEF StrictPrefixes
  <2>2. n = 1 BY <1>2, <2>1, TrashTop
  <2>3. Len(a) = 1 /\ a[1] = q[1] /\ a \in Seq(Symbols)
    BY <1>2, <2>1, <2>2, TrashTop
  <2>4. <<"trash">> \in Seq(Symbols) BY DEF Symbols
  <2>5. q[1] = "trash" BY <1>2, TrashTop
  <2>6. PICK t : t = <<"trash">> OBVIOUS
  <2>7. t \in Seq(Symbols) /\ Len(t) = 1 /\ t[1] = "trash" BY <2>4, <2>6
  <2>8. \A k \in 1 .. Len(a) : a[k] = t[k] BY <2>3, <2>5, <2>7
  <2> QED BY <2>3, <2>6, <2>7, <2>8, SeqEqual
<1> QED BY <1>1, <1>2 DEF Tops

(* Everything under p goes below q, and a file at q is lost.               *)
LEMMA RenameStep ==
  ASSUME AllPaths, Shapes, Tree(place),
         NEW p \in Paths \cup Tops, NEW q \in Paths \cup Tops, ~ IsPrefix(p, q),
         p \in Paths \/ q \in Paths, q \in Paths => HasParent(q),
         Taken(q) => At(p) \cup At(q) \subseteq Files, place' = Renamed(p, q)
  PROVE  /\ place' \in [Items -> Places] /\ Tree(place')
         /\ \A i \in Items :
              IF IsPrefix(p, place[i])
              THEN /\ place'[i] = Moved(place[i], p, q) /\ IsPrefix(q, place'[i])
                   /\ place'[i] \in IF q \in Paths THEN Paths ELSE TrashPlaces
                   /\ place'[i] = q <=> place[i] = p
              ELSE place'[i] = IF place[i] = q THEN Gone ELSE place[i]
<1>1. \A i \in Items : place'[i] = IF IsPrefix(p, place[i]) THEN Moved(place[i], p, q)
                                  ELSE IF place[i] = q THEN Gone ELSE place[i]
  BY DEF Renamed, Under, Moved, Store!Rewritten
<1>2. p \in Seq(Symbols) /\ q \in Seq(Symbols) BY PathsAndTops
<1>3. ASSUME NEW i \in Items, IsPrefix(p, place[i])
      PROVE  /\ IsPrefix(q, Moved(place[i], p, q))
             /\ Moved(place[i], p, q) \in IF q \in Paths THEN Paths ELSE TrashPlaces
             /\ Moved(place[i], p, q) = q <=> place[i] = p
  <2>1. place[i] \in Places /\ place[i] \in Seq(Symbols) BY PlacesAreSequences DEF Shapes
  <2>2. /\ IsPrefix(q, Moved(place[i], p, q))
        /\ Moved(place[i], p, q) = q <=> place[i] = p
    <3>1. p \in Seq(Symbols) /\ q \in Seq(Symbols) BY <1>2
    <3>2. IsPrefix(q, Moved(place[i], p, q)) BY <1>3, <2>1, <3>1, MovedIs
    <3>3. ASSUME NEW x \in Seq(Symbols), IsPrefix(p, x) PROVE Moved(x, p, q) = q <=> x = p
      BY <3>1, <3>3, MovedIs
    <3> QED BY <1>3, <2>1, <3>2, <3>3
  <2>3. CASE q \in Paths
    <3>1. Moved(place[i], p, q) \in Paths BY <1>3, <2>1, <2>3, MovedToPath DEF Tops
    <3> QED BY <2>2, <2>3, <3>1
  <2>4. CASE q \notin Paths
    <3>1. PICK k \in Items : q = TrashPlace(k) BY <2>4 DEF Tops
    <3>2. p \in Paths BY <2>4
    <3>3. Moved(place[i], p, TrashPlace(k)) \in TrashPlaces BY <1>3, <2>1, <3>2, MovedToTrash
    <3> QED BY <2>2, <2>4, <3>1, <3>3
  <2> QED BY <2>3, <2>4
<1>4. place' \in [Items -> Places]
  <2>1. \A i \in Items : place'[i] \in Places BY <1>1, <1>3 DEF Places, Shapes
  <2>2. place' = [i \in Items |-> place'[i]] BY DEF Renamed
  <2> QED BY <2>1, <2>2
<1>5. \A a \in StrictPrefixes(q) : a = <<"trash">> \/ \E k \in Folders : place[k] = a
  BY LeadsTo
<1>6. Tree(Renamed(p, q)) BY <1>5, RenameKeepsTree DEF Shapes
<1> QED BY <1>1, <1>3, <1>4, <1>6

LEMMA MoveKeeps ==
  ASSUME AllPaths, IInv, NEW c \in Callers, Move(c)
  PROVE  IInv' /\ StepOf(c)
<1> DEFINE p == job[c].src
           q == job[c].dst
<1>1. /\ Shapes /\ Tree(place) /\ TopIsItsOwn /\ job[c] \in Jobs /\ JobOK(pc[c], job[c])
      /\ RequestOK(c) /\ \A i \in answered : i \in Items
  BY DEF IInv, Shapes
<1>2. pc[c] = "move" /\ UNCHANGED <<from, answered, excused>> BY DEF Move, history
<1>3. /\ p \in Paths /\ q \in Paths /\ ~ IsPrefix(p, q) /\ Active(c)
      /\ p \in Area(job[c]) /\ q \in Area(job[c])
  BY <1>1, <1>2, PathsAre DEF JobOK, Active, Area, NoPath
<1>4. CASE ~ RenameWorks(p, q)
  BY <1>2, <1>3, <1>4, QuietReturn DEF Move
<1>5. CASE RenameWorks(p, q)
  <2>1. place' = Renamed(p, q) /\ pc' = [pc EXCEPT ![c] = "rewrite"] /\ job' = job
    BY <1>5 DEF Move, Goto
  <2>2. HasParent(q) /\ (Taken(q) => At(p) \cup At(q) \subseteq Files)
    BY <1>5 DEF RenameWorks
  <2>3. /\ place' \in [Items -> Places] /\ Tree(place')
        /\ \A i \in Items :
             IF IsPrefix(p, place[i])
             THEN IsPrefix(q, place'[i]) /\ place'[i] \in Paths
             ELSE place'[i] = IF place[i] = q THEN Gone ELSE place[i]
    BY <1>1, <1>3, <2>1, <2>2, RenameStep
  <2> HIDE DEF p, q
  <2>4. pc'[c] = "rewrite" /\ Others(c) /\ Shapes'
    BY <1>1, <1>2, <2>1, <2>3 DEF Others, Shapes, Steps
  <2>5. TopIsItsOwn'
    <3>1. \A i \in Items : TrashPlace(i) \in TrashPlaces BY TrashTop
    <3> QED BY <1>1, <2>3, <3>1, PlacesDiffer DEF TopIsItsOwn
  <2>6. KeepsTrash(c)
    <3>1. \A d \in Callers : pc[d] = "undo" => pc'[d] = "undo" /\ job'[d] = job[d]
      BY <1>2, <2>1, <2>4 DEF Others
    <3> QED BY <1>2, <3>1 DEF KeepsTrash, Reachable
  <2>7. MovesOwn(c)
    <3>1. ASSUME NEW i \in Items, IsPrefix(p, place[i])
          PROVE  /\ Near(job[c], place[i]) /\ Near(job[c], place'[i]) /\ place'[i] # Nowhere
                 /\ ~ job[c].clean /\ i \in answered => i \in excused'
                 /\ Reachable(i)' /\ place[i] \notin TrashPlaces /\ place'[i] \notin TrashPlaces
      <4>1. place[i] \in Paths /\ place'[i] \in Paths
        BY <1>1, <1>3, <2>3, <3>1, UnderPath DEF Shapes
      <4>2. ~ job[c].clean /\ i \in answered => i \in excused
        BY <1>1, <1>3, <3>1 DEF RequestOK, DirtyIsExcused, Under
      <4> QED BY <1>2, <1>3, <2>3, <3>1, <4>1, <4>2, PlacesDiffer DEF Near, Reachable
    <3>2. ASSUME NEW i \in Items, ~ IsPrefix(p, place[i]), place[i] = q
          PROVE  /\ Near(job[c], place[i]) /\ Near(job[c], Gone) /\ Gone # Nowhere
                 /\ ~ job[c].clean /\ i \in answered => i \in excused'
                 /\ ~ job[c].clean /\ place[i] \notin TrashPlaces /\ Gone \notin TrashPlaces
      <4>1. IsPrefix(q, place[i]) BY <1>3, <3>2, PathsAre, PrefixRefl
      <4>2. ~ job[c].clean /\ i \in answered => i \in excused
        BY <1>1, <1>3, <3>2, <4>1 DEF RequestOK, DirtyIsExcused, Under
      <4>3. ~ job[c].clean
        BY <1>1, <1>2, <3>2, <4>1 DEF RequestOK, CleanIsAlone, Under, q
      <4> QED BY <1>2, <1>3, <3>2, <4>1, <4>2, <4>3, PlacesDiffer DEF Near
    <3> QED BY <2>3, <3>1, <3>2 DEF MovesOwn
  <2>8. StepOf(c) BY <1>2, <1>3, <2>4, <2>6, <2>7 DEF StepOf, AnswersOwn
  <2>9. JobOK(pc'[c], job'[c]) BY <1>1, <1>2, <2>1, <2>4 DEF JobOK, Locks
  <2>10. DirtyIsExcused(c)'
    <3>1. ASSUME ~ job[c].clean, NEW a \in Area(job[c]) PROVE Under(a)' \cap answered' \subseteq excused'
      BY <2>8, <3>1, AreaStaysExcused DEF Under
    <3> QED BY <2>1, <2>4, <3>1 DEF DirtyIsExcused, Locks, Owner
  <2>11. RequestOK(c)' BY <2>4, <2>10 DEF RequestOK, CleanIsAlone, OwnIsNew, InTop, Owner
  <2> QED BY <2>1, <2>3, <2>4, <2>5, <2>8, <2>9, <2>11, StepKeeps DEF Locks, Owner
<1> QED BY <1>4, <1>5

LEMMA MoveToTrashKeeps ==
  ASSUME AllPaths, IInv, NEW c \in Callers, NEW i \in Items, NEW ok \in BOOLEAN,
         MoveToTrash(c, i, ok)
  PROVE  IInv' /\ StepOf(c)
<1> DEFINE p == job[c].src
           q == TrashPlace(i)
           j == [job[c] EXCEPT !.item = i]
<1>1. /\ Shapes /\ Tree(place) /\ TopIsItsOwn /\ job[c] \in Jobs /\ JobOK(pc[c], job[c])
      /\ RequestOK(c) /\ \A k \in answered : k \in Items
  BY DEF IInv, Shapes
<1>2. /\ pc[c] = "trash" /\ ~ TrashLocked /\ place[i] = p /\ place' = Renamed(p, q)
      /\ from' = IF ok THEN [from EXCEPT ![i] = p] ELSE from
      /\ pc' = [pc EXCEPT ![c] = IF ok THEN "unshare" ELSE "undo"]
      /\ UNCHANGED <<answered, excused>>
  BY DEF MoveToTrash, history
<1>3. job' = [job EXCEPT ![c] = j] BY DEF MoveToTrash
<1>4. /\ j \in Jobs /\ j.src = p /\ j.dst = job[c].dst /\ j.item = i /\ j.clean = job[c].clean
  BY <1>1 DEF Jobs
<1>5. p \in Paths /\ p \in Area(job[c]) /\ p \in Seq(Symbols) /\ Active(c)
  BY <1>1, <1>2, PathsAre DEF JobOK, Active, Area, NoPath
<1>6. q \in Tops /\ q \in TrashPlaces /\ q \notin Paths /\ q \in Seq(Symbols)
  BY TrashTop, PlacesDiffer DEF Tops
<1>7. ~ Taken(q)
  <2>1. ASSUME NEW k \in Items, place[k] = q PROVE FALSE
    BY <1>1, <1>2, <1>5, <1>6, <2>1 DEF TopIsItsOwn
  <2> QED BY <2>1 DEF Taken, At
<1>8. Under(q) = {} BY <1>1, <1>6, <1>7, FreeIsEmpty
<1>9. ~ IsPrefix(p, q)
  <2>1. q \in Places BY <1>6 DEF Places
  <2> QED BY <1>5, <1>6, <2>1, UnderPath
<1>10. /\ place' \in [Items -> Places] /\ Tree(place')
       /\ \A k \in Items :
            IF IsPrefix(p, place[k])
            THEN /\ place'[k] = Moved(place[k], p, q) /\ IsPrefix(q, place'[k])
                 /\ place'[k] \in TrashPlaces /\ (place'[k] = q <=> place[k] = p)
            ELSE place'[k] = IF place[k] = q THEN Gone ELSE place[k]
  BY <1>1, <1>2, <1>5, <1>6, <1>7, <1>9, RenameStep
<1> HIDE DEF j, q, p
<1>11. \A k \in Items : place[k] # q BY <1>7 DEF Taken, At
<1>12. \A k \in Items : ~ IsPrefix(p, place[k]) => place'[k] = place[k] BY <1>10, <1>11
<1>13. \A k \in Items : IsPrefix(p, place[k]) => place[k] \in Paths
  BY <1>1, <1>5, UnderPath DEF Shapes
<1>14. /\ Others(c) /\ pc' \in [Callers -> Steps] /\ job' \in [Callers -> Jobs]
       /\ pc'[c] = (IF ok THEN "unshare" ELSE "undo") /\ job'[c] = j
  BY <1>1, <1>2, <1>3, <1>4 DEF Others, Shapes, Steps
<1>15. Shapes' BY <1>1, <1>2, <1>5, <1>10, <1>14 DEF Shapes
<1>16. TopIsItsOwn'
  <2>1. ASSUME NEW k \in Items, NEW m \in Items, place'[k] = TrashPlace(m), IsPrefix(p, place[k])
        PROVE  k = m
    <3>1. place'[k] \in Seq(Symbols) /\ TrashPlace(m) \in Seq(Symbols) BY <2>1, TrashTop
    <3>2. Len(q) <= Len(TrashPlace(m)) /\ \A n \in 1 .. Len(q) : q[n] = TrashPlace(m)[n]
      BY <1>6, <1>10, <2>1, <3>1, PrefixIs
    <3>3. Len(q) = 2 /\ q[2] = i /\ TrashPlace(m)[2] = m BY TrashTop DEF q
    <3>4. m = i BY <3>2, <3>3
    <3>5. place[k] = p BY <1>10, <2>1, <3>4 DEF q
    <3> QED BY <1>1, <1>2, <1>5, <3>4, <3>5, PlacesDiffer DEF Tree
  <2> QED BY <1>1, <1>12, <2>1 DEF TopIsItsOwn
<1>17. \A d \in Callers : pc[d] \notin Locks BY <1>2 DEF TrashLocked, Locks
<1>18. MovesOwn(c)
  <2>1. ASSUME NEW k \in Items, IsPrefix(p, place[k])
        PROVE  /\ Near(job[c], place[k]) /\ Near(job[c], place'[k]) /\ place'[k] # Nowhere
               /\ ~ job[c].clean /\ k \in answered => k \in excused'
               /\ Reachable(k)'
    <3>1. ~ job[c].clean /\ k \in answered => k \in excused
      BY <1>1, <1>5, <2>1 DEF RequestOK, DirtyIsExcused, Under
    <3>2. place'[k] \in TrashPlaces /\ IsPrefix(TrashPlace(i), place'[k])
      BY <1>10, <2>1 DEF q
    <3>3. Near(job[c], place[k]) BY <1>5, <2>1 DEF Near
    <3>4. Near(job[c], place'[k]) /\ place'[k] # Nowhere BY <3>2, PlacesDiffer DEF Near
    <3>5. CASE ok
      <4>1. from'[i] # NoPath BY <1>1, <1>2, <1>5, <3>5, PathsAre DEF Shapes, NoPath
      <4>2. Reachable(k)' BY <3>2, <4>1 DEF Reachable
      <4> QED BY <1>2, <3>1, <3>3, <3>4, <4>2
    <3>6. CASE ~ ok
      <4>1. pc'[c] = "undo" /\ job'[c].item = i BY <1>4, <1>14, <3>6
      <4>2. Reachable(k)' BY <3>2, <4>1 DEF Reachable
      <4> QED BY <1>2, <3>1, <3>3, <3>4, <4>2
    <3> QED BY <3>5, <3>6
  <2> QED BY <1>12, <1>17, <2>1 DEF MovesOwn
<1>19. KeepsTrash(c)
  <2>1. ASSUME NEW k \in Items, from[k] # NoPath PROVE from'[k] # NoPath
    BY <1>1, <1>2, <1>5, <2>1, PathsAre DEF Shapes, NoPath
  <2> QED BY <1>17, <2>1, PlacesDiffer DEF KeepsTrash, Reachable, Locks
<1>20. StepOf(c) BY <1>2, <1>5, <1>14, <1>15, <1>18, <1>19 DEF StepOf, AnswersOwn
<1>21. Area(j) = Area(job[c]) BY <1>4 DEF Area, p
<1>22. JobOK(pc'[c], job'[c]) BY <1>4, <1>5, <1>14 DEF JobOK, Locks
<1>23. DirtyIsExcused(c)'
  <2>1. ASSUME ~ job[c].clean, NEW a \in Area(job[c]) PROVE Under(a)' \cap answered' \subseteq excused'
    BY <1>20, <2>1, AreaStaysExcused DEF Under
  <2>2. ASSUME ~ job[c].clean, NEW k \in answered, IsPrefix(q, place'[k]) PROVE k \in excused'
    <3>1. k \in Items /\ ~ IsPrefix(q, place[k]) BY <1>1, <1>8, <2>2 DEF Under
    <3>2. IsPrefix(p, place[k]) BY <1>12, <2>2, <3>1
    <3> QED BY <1>1, <1>2, <1>5, <2>2, <3>1, <3>2 DEF RequestOK, DirtyIsExcused, Under
  <2> QED BY <1>2, <1>4, <1>14, <1>21, <2>1, <2>2 DEF DirtyIsExcused, Owner, Under, q
<1>24. CleanIsAlone(c)'
  <2>1. ASSUME NEW k \in Items, IsPrefix(p, place'[k]) PROVE FALSE
    <3>1. place'[k] \in Paths BY <1>5, <1>10, <2>1, UnderPath
    <3> QED BY <1>10, <1>12, <2>1, <3>1, PlacesDiffer
  <2>2. Len(p) = 1 \/ \E k \in Folders : k \in Items /\ place'[k] = Front(p)
    <3>1. CASE Len(p) > 1
      <4>1. Front(p) \in StrictPrefixes(p) /\ Front(p) \in Paths /\ Front(p) \in Seq(Symbols)
        BY <1>5, <3>1, FrontIs, PathUp, PathsAre
      <4>2. PICK k \in Folders : place[k] = Front(p)
        BY <1>1, <1>2, <4>1, PathsAndTops DEF Tree
      <4>3. Front(p) # p /\ IsPrefix(Front(p), p) BY <1>5, <4>1, StrictPrefixIs
      <4>4. ~ IsPrefix(p, Front(p))
        <5>1. PICK f : f = Front(p) OBVIOUS
        <5>2. f \in Seq(Symbols) /\ IsPrefix(f, p) /\ f # p BY <4>1, <4>3, <5>1
        <5>3. ASSUME IsPrefix(p, f) PROVE FALSE
          <6>1. Len(p) <= Len(f) BY <1>5, <5>2, <5>3, PrefixIs
          <6> QED BY <1>5, <5>2, <6>1, PrefixAnti
        <5> QED BY <5>1, <5>3
      <4> QED BY <1>12, <4>2, <4>4 DEF Items
    <3> QED BY <1>5, <3>1, PathLength
  <2>3. job'[c].src = p BY <1>4, <1>14
  <2>4. pc'[c] = "undo" => HasParent(job[c].src)'
    BY <2>2, <2>3 DEF HasParent, Parent, At
  <2>5. pc'[c] = "undo" => Under(job[c].src)' = {} BY <2>1, <2>3 DEF Under
  <2> QED BY <1>14, <2>4, <2>5 DEF CleanIsAlone, Owner
<1>25. InTop(c)'
  <2>1. IsPrefix(p, p) BY <1>5, PrefixRefl
  <2>2. place'[i] = q BY <1>2, <1>10, <2>1
  <2> QED BY <1>4, <1>14, <2>2 DEF InTop, q
<1>26. RequestOK(c)' BY <1>14, <1>23, <1>24, <1>25 DEF RequestOK, OwnIsNew, Owner
<1> QED
  BY <1>2, <1>4, <1>10, <1>14, <1>16, <1>20, <1>21, <1>22, <1>26, StepKeeps DEF Owner

(* What was under an item of the trash goes back to its place.             *)
LEMMA BackFromTrash ==
  ASSUME AllPaths, IInv, NEW c \in Callers, pc[c] \in Locks,
         NEW t \in Items, t = job[c].item, NEW p \in Paths, p \in Area(job[c]),
         job[c].clean => Under(p) = {},
         RenameWorks(TrashPlace(t), p), place' = Renamed(TrashPlace(t), p),
         from' \in [Items -> Paths \cup {NoPath}],
         \A i \in Items \ {t} : from'[i] = from[i],
         pc[c] # "undo" \/ from'[t] = from[t],
         Return(c), UNCHANGED history
  PROVE  IInv' /\ StepOf(c)
<1> DEFINE q == TrashPlace(t)
<1>1. /\ Shapes /\ Tree(place) /\ TopIsItsOwn /\ RequestOK(c) /\ OneLock
      /\ \A k \in answered : k \in Items
  BY DEF IInv, Shapes
<1>2. UNCHANGED <<answered, excused>> /\ Active(c) BY DEF history, Active, Locks
<1>3. q \in Tops /\ q \in TrashPlaces /\ q \notin Paths BY TrashTop, PlacesDiffer DEF Tops
<1>4. p \in Places /\ p \in Seq(Symbols) BY PathsAre DEF Places
<1>5. ~ IsPrefix(q, p) BY <1>4, UnderTrash, PlacesDiffer
<1>6. HasParent(p) /\ (Taken(p) => At(q) \cup At(p) \subseteq Files) BY DEF RenameWorks
<1>7. /\ place' \in [Items -> Places] /\ Tree(place')
      /\ \A k \in Items :
           IF IsPrefix(q, place[k]) THEN IsPrefix(p, place'[k]) /\ place'[k] \in Paths
           ELSE place'[k] = IF place[k] = p THEN Gone ELSE place[k]
  BY <1>1, <1>3, <1>5, <1>6, RenameStep
<1>8. \A k \in Items : IsPrefix(q, place[k]) => place[k] \in TrashPlaces
  BY <1>1, UnderTrash DEF Shapes
<1> HIDE DEF q
<1>9. Others(c) /\ Shapes' BY <1>1, <1>2, <1>7, ReturnIs DEF Shapes
<1>10. TopIsItsOwn'
  <2>1. \A k \in Items : TrashPlace(k) \in TrashPlaces BY TrashTop
  <2> QED BY <1>1, <1>7, <2>1, PlacesDiffer DEF TopIsItsOwn
<1>11. \A d \in Callers \ {c} : pc[d] \notin Locks BY <1>1 DEF OneLock
<1>12. MovesOwn(c)
  <2>1. ASSUME NEW k \in Items, IsPrefix(q, place[k])
        PROVE  /\ Near(job[c], place[k]) /\ Near(job[c], place'[k]) /\ place'[k] # Nowhere
               /\ ~ job[c].clean /\ k \in answered => k \in excused'
               /\ Reachable(k)'
    <3>1. ~ job[c].clean /\ k \in answered => k \in excused
      BY <1>1, <2>1 DEF RequestOK, DirtyIsExcused, Under, q
    <3> QED BY <1>2, <1>7, <1>8, <2>1, <3>1, PlacesDiffer DEF Near, Reachable
  <2>2. ASSUME NEW k \in Items, place[k] = p
        PROVE  /\ Near(job[c], p) /\ Near(job[c], Gone) /\ Gone # Nowhere
               /\ ~ job[c].clean /\ (k \in answered => k \in excused')
    <3>1. IsPrefix(p, p) BY <1>4, PrefixRefl
    <3>2. k \in Under(p) BY <2>2, <3>1 DEF Under
    <3>3. ~ job[c].clean /\ k \in answered => k \in excused
      BY <1>1, <1>2, <3>2 DEF RequestOK, DirtyIsExcused
    <3> QED BY <1>2, <3>1, <3>2, <3>3, PlacesDiffer DEF Near
  <2> QED BY <1>7, <1>11, <2>1, <2>2 DEF MovesOwn
<1>13. KeepsTrash(c)
  <2>1. SUFFICES ASSUME NEW k \in Items, place'[k] = place[k], place[k] \in TrashPlaces,
                        Reachable(k)
                 PROVE  Reachable(k)'
    BY <1>1 DEF KeepsTrash
  <2>2. ~ IsPrefix(q, place[k]) /\ place[k] \notin Paths BY <1>7, <2>1, PlacesDiffer
  <2>3. \A m \in Items : from[m] # NoPath /\ IsPrefix(TrashPlace(m), place[k]) => from'[m] # NoPath
    BY <2>2 DEF q
  <2>4. \A d \in Callers : pc[d] = "undo" => d = c BY <1>11 DEF Locks
  <2> QED BY <2>1, <2>2, <2>3, <2>4 DEF Reachable, q
<1>14. StepOf(c) BY <1>2, <1>9, <1>12, <1>13 DEF StepOf, AnswersOwn
<1> QED BY <1>7, <1>10, <1>14, ReturnKeeps

LEMMA UndoTrashKeeps ==
  ASSUME AllPaths, IInv, NEW c \in Callers, UndoTrash(c)
  PROVE  IInv' /\ StepOf(c)
<1> DEFINE p == job[c].src
           t == job[c].item
<1>1. /\ Shapes /\ Tree(place) /\ TopIsItsOwn /\ JobOK(pc[c], job[c]) /\ RequestOK(c) /\ OneLock
      /\ \A k \in answered : k \in Items
  BY DEF IInv, Shapes
<1>2. /\ pc[c] = "undo" /\ Return(c) /\ UNCHANGED <<from, history>>
      /\ place' = IF RenameWorks(TrashPlace(t), p) THEN Renamed(TrashPlace(t), p) ELSE place
  BY DEF UndoTrash
<1>3. p \in Paths /\ p \in Area(job[c]) /\ t \in Items /\ Active(c)
  BY <1>1, <1>2, PathsAre DEF JobOK, Active, Area, NoPath, Locks
<1>4. job[c].clean => Under(p) = {} BY <1>1, <1>2 DEF RequestOK, CleanIsAlone
<1>5. CASE RenameWorks(TrashPlace(t), p)
  <2>1. from' \in [Items -> Paths \cup {NoPath}] BY <1>1, <1>2 DEF Shapes
  <2>2. place' = Renamed(TrashPlace(t), p) BY <1>2, <1>5
  <2> HIDE DEF p, t
  <2>3. t = job[c].item BY DEF t
  <2> QED BY <1>2, <1>3, <1>4, <1>5, <2>1, <2>2, <2>3, BackFromTrash DEF Locks
<1>6. CASE ~ RenameWorks(TrashPlace(t), p)
  <2>1. UNCHANGED <<place, from, answered, excused>> BY <1>2, <1>6 DEF history
  <2>2. ~ job[c].clean
    <3>1. Taken(TrashPlace(t)) BY <1>1, <1>2, <1>3 DEF RequestOK, InTop, Taken, At
    <3>2. p # TrashPlace(t) BY <1>3, TrashTop, PlacesDiffer
    <3>3. job[c].clean => ~ Taken(p)
      BY <1>3, <1>4, PathsAre, PrefixRefl DEF Taken, At, Under
    <3>4. job[c].clean => HasParent(p) BY <1>1, <1>2 DEF RequestOK, CleanIsAlone
    <3> QED BY <1>6, <3>1, <3>2, <3>3, <3>4 DEF RenameWorks
  <2>3. Others(c) /\ Shapes' BY <1>1, <1>2, <2>1, ReturnIs DEF Shapes
  <2>4. KeepsTrash(c)
    <3>1. \A d \in Callers : pc[d] = "undo" => d = c BY <1>1, <1>2 DEF OneLock, Locks
    <3>2. \A k \in answered \ excused : ~ IsPrefix(TrashPlace(t), place[k])
      BY <1>1, <1>2, <2>2 DEF RequestOK, DirtyIsExcused, Locks, Under
    <3> QED BY <2>1, <3>1, <3>2 DEF KeepsTrash, Reachable
  <2>5. StepOf(c) BY <1>3, <2>1, <2>3, <2>4 DEF StepOf, MovesOwn, AnswersOwn
  <2>6. Tree(place') /\ TopIsItsOwn' BY <1>1, <2>1 DEF TopIsItsOwn
  <2> QED BY <1>2, <2>5, <2>6, ReturnKeeps
<1> QED BY <1>5, <1>6

LEMMA RestoreKeeps ==
  ASSUME AllPaths, IInv, NEW c \in Callers, Restore(c)
  PROVE  IInv' /\ StepOf(c)
<1> DEFINE p == job[c].dst
           t == job[c].item
           works == RenameWorks(TrashPlace(t), p)
<1>1. Shapes /\ JobOK(pc[c], job[c]) /\ RequestOK(c) BY DEF IInv
<1>2. /\ pc[c] = "restore" /\ Return(c) /\ UNCHANGED history
      /\ place' = IF works THEN Renamed(TrashPlace(t), p) ELSE place
      /\ from' = IF works THEN [from EXCEPT ![t] = NoPath] ELSE from
  BY DEF Restore
<1>3. p \in Paths /\ p \in Area(job[c]) /\ t \in Items /\ Active(c)
  BY <1>1, <1>2, PathsAre DEF JobOK, Active, Area, NoPath, Locks
<1>4. job[c].clean => Under(p) = {} BY <1>1, <1>2 DEF RequestOK, CleanIsAlone
<1>5. CASE works
  <2>1. from' \in [Items -> Paths \cup {NoPath}] /\ \A i \in Items \ {t} : from'[i] = from[i]
    BY <1>1, <1>2, <1>5 DEF Shapes
  <2>2. place' = Renamed(TrashPlace(t), p) /\ RenameWorks(TrashPlace(t), p) BY <1>2, <1>5
  <2> HIDE DEF p, t, works
  <2>3. t = job[c].item BY DEF t
  <2> QED BY <1>2, <1>3, <1>4, <2>1, <2>2, <2>3, BackFromTrash DEF Locks
<1>6. CASE ~ works
  BY <1>2, <1>3, <1>6, QuietReturn DEF history
<1> QED BY <1>5, <1>6

LEMMA PublishKeeps ==
  ASSUME AllPaths, IInv, NEW c \in Callers, NEW i \in Items, Publish(c, i)
  PROVE  IInv' /\ StepOf(c)
<1> DEFINE q == job[c].dst
           cleared == Removed(At(q))
<1>1. /\ Shapes /\ Tree(place) /\ TopIsItsOwn /\ job[c] \in Jobs /\ JobOK(pc[c], job[c])
      /\ RequestOK(c) /\ \A k \in answered : k \in Items /\ place[k] # Nowhere
  BY DEF IInv, Shapes
<1>2. /\ pc[c] = "publish" /\ i \in Files /\ place[i] = Nowhere /\ At(q) \subseteq Files
      /\ Parent(q) = job[c].own /\ place' = [cleared EXCEPT ![i] = q] /\ from' = from
      /\ answered' = answered \cup {i} /\ Return(c)
      /\ excused \subseteq excused' /\ (~ job[c].clean => i \in excused')
  BY DEF Publish, Made
<1>3. q \in Paths /\ q \in Area(job[c]) /\ q \in Seq(Symbols) /\ Active(c)
  BY <1>1, <1>2, PathsAre DEF JobOK, Active, Area, NoPath
<1>4. IsPrefix(q, q) /\ q # Nowhere BY <1>3, PrefixRefl, PlacesDiffer
<1>5. /\ Gone \in Places /\ q \in Places /\ \A k \in Items : TrashPlace(k) \in TrashPlaces
      /\ Gone # q /\ Gone # Nowhere /\ Gone \notin TrashPlaces /\ q \notin TrashPlaces /\ Gone \notin Paths
  BY <1>3, TrashTop, PlacesDiffer DEF Places
<1>6. /\ cleared \in [Items -> Places]
      /\ \A k \in Items : cleared[k] = IF place[k] = q THEN Gone ELSE place[k]
  BY <1>1, <1>5 DEF Removed, At, Shapes
<1>7. Tree(cleared)
  <2>1. ASSUME NEW m \in Items, NEW k \in Items, m \in At(q), place[m] \in StrictPrefixes(place[k])
        PROVE  FALSE
    <3>1. q \in StrictPrefixes(place[k]) BY <2>1 DEF At
    <3>2. PICK f \in Folders : place[f] = q
      BY <1>1, <1>3, <3>1, PathsAndTops DEF Tree
    <3> QED BY <1>2, <3>2, ItemsAssumption DEF At, Items
  <2> QED BY <1>1, <2>1, RemoveKeepsTree
<1>8. Len(q) = 1 \/ \E k \in Folders : place[k] = Front(q) /\ Front(q) # q
  <2>1. CASE Len(q) > 1
    <3>1. Len(q) # 1
      <4>1. \A n \in Nat : n > 1 => n # 1 OBVIOUS
      <4>2. Len(q) \in Nat BY <1>3, LenProperties
      <4> QED BY <2>1, <4>1, <4>2
    <3>2. \E k \in Folders : place[k] = Front(q)
      BY <1>1, <1>2, <3>1 DEF JobOK, Parent, At
    <3>3. Front(q) \in StrictPrefixes(q) BY <1>3, <2>1, FrontIs
    <3>4. Front(q) # q BY <1>3, <3>3, StrictPrefixIs
    <3> QED BY <3>2, <3>4
  <2> QED BY <1>3, <2>1, PathLength
<1> HIDE DEF cleared, q
<1>9. /\ place' \in [Items -> Places]
      /\ \A k \in Items : place'[k] = IF k = i THEN q ELSE IF place[k] = q THEN Gone ELSE place[k]
  BY <1>2, <1>5, <1>6
<1>10. Tree(place')
  <2>1. cleared[i] = Nowhere /\ \A k \in Items : cleared[k] # q BY <1>2, <1>4, <1>5, <1>6
  <2>2. Len(q) = 1 \/ \E k \in Folders : cleared[k] = Front(q) BY <1>6, <1>8 DEF Items
  <2> QED BY <1>2, <1>3, <1>6, <1>7, <2>1, <2>2, CreateKeepsTree
<1>11. TopIsItsOwn' BY <1>1, <1>5, <1>9 DEF TopIsItsOwn
<1>12. Others(c) /\ Shapes' BY <1>1, <1>2, <1>9, ReturnIs DEF Shapes
<1>13. ASSUME NEW k \in Items, place[k] = q
       PROVE  ~ job[c].clean /\ (k \in answered => k \in excused)
  <2>1. k \in Under(q) BY <1>4, <1>13 DEF Under
  <2>2. ~ job[c].clean BY <1>1, <1>2, <2>1 DEF RequestOK, CleanIsAlone, q
  <2> QED BY <1>1, <1>3, <2>1, <2>2 DEF RequestOK, DirtyIsExcused
<1>14. MovesOwn(c)
  BY <1>1, <1>2, <1>3, <1>4, <1>5, <1>9, <1>13, PlacesDiffer DEF MovesOwn, Near
<1>15. AnswersOwn(c) BY <1>2, <1>3, <1>4, <1>9 DEF AnswersOwn, q
<1>16. KeepsTrash(c)
  <2>1. \A d \in Callers : pc[d] = "undo" => pc'[d] = "undo" /\ job'[d] = job[d]
    BY <1>2, <1>12 DEF Others
  <2> QED BY <1>2, <2>1 DEF KeepsTrash, Reachable
<1>17. StepOf(c) BY <1>2, <1>3, <1>12, <1>14, <1>15, <1>16 DEF StepOf
<1> QED BY <1>2, <1>10, <1>11, <1>17, ReturnKeeps

-----------------------------------------------------------------------------
(* Steps of no request.                                                    *)

LEMMA PurgeKeeps ==
  ASSUME AllPaths, IInv, NEW i \in Items, Purge(i)
  PROVE  IInv'
<1> DEFINE q == TrashPlace(i)
<1>1. /\ Shapes /\ Tree(place) /\ TopIsItsOwn /\ \A c \in Callers : RequestOK(c)
      /\ \A c \in Callers : job[c] \in Jobs /\ JobOK(pc[c], job[c])
      /\ \A k \in answered : k \in Items /\ place[k] # Nowhere
  BY DEF IInv, Shapes
<1>2. /\ ~ TrashLocked /\ place' = Removed(Under(q)) /\ from' = [from EXCEPT ![i] = NoPath]
      /\ answered' = answered \ Under(q) /\ UNCHANGED <<pc, job, excused>>
  BY DEF Purge
<1>3. q \in Seq(Symbols) BY TrashTop
<1>4. \A k \in Items : IsPrefix(q, place[k]) => place[k] \in TrashPlaces
  BY <1>1, UnderTrash DEF Shapes
<1>5. \A c \in Callers : pc[c] \notin Locks BY <1>2 DEF TrashLocked, Locks
<1> HIDE DEF q
<1>6. \A k \in Items : place'[k] = IF IsPrefix(q, place[k]) THEN Gone ELSE place[k]
  BY <1>2 DEF Removed, Under
<1>7. place' \in [Items -> Places] BY <1>1, <1>2 DEF Removed, Shapes, Places
<1>8. Shapes' BY <1>1, <1>2, <1>7 DEF Shapes
<1>9. Tree(place')
  <2>1. ASSUME NEW m \in Items, NEW k \in Items, m \in Under(q),
               place[m] \in StrictPrefixes(place[k])
        PROVE  k \in Under(q)
    <3>1. place[m] \in Seq(Symbols) /\ place[k] \in Seq(Symbols)
      BY <1>1, PlacesAreSequences DEF Shapes
    <3>2. IsPrefix(place[m], place[k]) BY <2>1, <3>1, StrictPrefixIs
    <3> QED BY <1>3, <2>1, <3>1, <3>2, PrefixTrans DEF Under
  <2> QED BY <1>1, <1>2, <2>1, RemoveKeepsTree
<1>10. TopIsItsOwn'
  <2>1. \A k \in Items : Gone # TrashPlace(k) BY TrashTop, PlacesDiffer
  <2> QED BY <1>1, <1>6, <2>1 DEF TopIsItsOwn
<1>11. ASSUME NEW p \in Paths PROVE \A k \in Items : IsPrefix(p, place'[k]) <=> IsPrefix(p, place[k])
  <2>1. ASSUME NEW k \in Items, IsPrefix(q, place[k]) PROVE ~ IsPrefix(p, place[k])
    BY <1>1, <1>4, <2>1, UnderPath, PlacesDiffer DEF Shapes
  <2>2. ~ IsPrefix(p, Gone) BY UnderPath, PlacesDiffer DEF Places
  <2> QED BY <1>6, <2>1, <2>2
<1>12. \A c \in Callers : \A a \in Area(job[c]) : a \in Paths BY <1>1, AreaIs
<1>13. ASSUME NEW c \in Callers PROVE RequestOK(c)'
  <2>1. DirtyIsExcused(c)'
    BY <1>1, <1>2, <1>5, <1>11, <1>12 DEF RequestOK, DirtyIsExcused, Under, Active
  <2>2. CleanIsAlone(c)'
    <3>1. pc[c] \in Owner \cup {"move", "restore", "publish", "copy"} => job[c].dst \in Paths
      BY <1>1 DEF JobOK, Owner
    <3>2. pc[c] # "undo" BY <1>5 DEF Locks
    <3> QED BY <1>1, <1>2, <1>11, <3>1, <3>2 DEF RequestOK, CleanIsAlone, Under
  <2>3. OwnIsNew(c)'
    BY <1>1, <1>2, <1>6, PlacesDiffer DEF RequestOK, OwnIsNew, Jobs
  <2>4. InTop(c)' BY <1>2, <1>5 DEF InTop, Locks
  <2> QED BY <2>1, <2>2, <2>3, <2>4 DEF RequestOK
<1>14. \A k \in answered' : k \in answered /\ place'[k] = place[k] /\ ~ IsPrefix(q, place[k])
  BY <1>1, <1>2, <1>6 DEF Under
<1>15. AnsweredIsKept'
  <2>1. ASSUME NEW k \in answered' \ excused' PROVE Reachable(k)'
    <3>1. Reachable(k) /\ place'[k] = place[k] /\ ~ IsPrefix(q, place[k])
      BY <1>2, <1>14, <2>1 DEF IInv, AnsweredIsKept
    <3>2. \A m \in Items : from[m] # NoPath /\ IsPrefix(TrashPlace(m), place[k]) => from'[m] # NoPath
      BY <1>1, <1>2, <3>1 DEF q, Shapes
    <3> QED BY <1>5, <3>1, <3>2 DEF Reachable, Locks
  <2> QED BY <2>1 DEF AnsweredIsKept
<1>16. /\ \A c \in Callers : JobOK(pc'[c], job'[c])
       /\ OneLock' /\ OwnersDiffer' /\ RivalsAreDirty'
  BY <1>2 DEF IInv, OneLock, OwnersDiffer, RivalsAreDirty, Active, Overlap, Area
<1>17. \A k \in answered' : place'[k] # Nowhere BY <1>1, <1>14
<1> QED BY <1>8, <1>9, <1>10, <1>13, <1>15, <1>16, <1>17 DEF IInv

LEMMA RestartKeeps ==
  ASSUME AllPaths, IInv, Restart
  PROVE  IInv'
<1>1. Shapes /\ Tree(place) /\ TopIsItsOwn /\ \A k \in answered : place[k] # Nowhere
  BY DEF IInv
<1>2. /\ UNCHANGED <<place, from, answered>> /\ excused \subseteq excused'
      /\ \A c \in Callers : CutOff(c) \subseteq excused'
      /\ pc' = [c \in Callers |-> IF pc[c] = "new" THEN "new" ELSE "done"]
      /\ job' = [c \in Callers |-> NoJob]
  BY DEF Restart
<1>3. NoJob \in Jobs BY DEF NoJob, Jobs
<1>4. \A c \in Callers : pc'[c] \in {"new", "done"} /\ job'[c] = NoJob BY <1>2
<1>5. Shapes' BY <1>1, <1>2, <1>3 DEF Shapes, Steps
<1>6. \A c \in Callers : JobOK(pc'[c], job'[c]) BY <1>4 DEF JobOK, Locks
<1>7. OneLock' /\ OwnersDiffer' /\ RivalsAreDirty'
  BY <1>4 DEF OneLock, OwnersDiffer, RivalsAreDirty, Active, Locks, Owner
<1>8. \A c \in Callers : RequestOK(c)'
  BY <1>4
     DEF RequestOK, DirtyIsExcused, CleanIsAlone, OwnIsNew, InTop, Active, Locks, Owner
<1>9. AnsweredIsKept'
  <2>1. ASSUME NEW k \in answered' \ excused' PROVE Reachable(k)'
    <3>1. Reachable(k) /\ k \in Items BY <1>1, <1>2, <2>1 DEF IInv, AnsweredIsKept, Shapes
    <3>2. ASSUME NEW c \in Callers, pc[c] = "undo", IsPrefix(TrashPlace(job[c].item), place[k])
          PROVE  FALSE
      <4>1. k \in Touched(job[c]) BY <3>1, <3>2 DEF Touched, Under
      <4> QED BY <1>2, <2>1, <3>2, <4>1 DEF CutOff
    <3> QED BY <1>2, <3>1, <3>2 DEF Reachable
  <2> QED BY <2>1 DEF AnsweredIsKept
<1> QED BY <1>1, <1>2, <1>5, <1>6, <1>7, <1>8, <1>9 DEF IInv, TopIsItsOwn

LEMMA NothingHappens ==
  ASSUME IInv, UNCHANGED <<place, from, pc, job, answered, excused>>
  PROVE  IInv'
<1>1. \A c \in Callers : RequestOK(c)'
  BY DEF IInv, RequestOK, DirtyIsExcused, CleanIsAlone, OwnIsNew, InTop, Active, Area, Under,
         HasParent, Parent, At
<1>2. AnsweredIsKept' BY DEF IInv, AnsweredIsKept, Reachable
<1>3. OneLock' /\ OwnersDiffer' /\ RivalsAreDirty'
  BY DEF IInv, OneLock, OwnersDiffer, RivalsAreDirty, Active, Overlap, Area
<1>4. Shapes' /\ Tree(place') /\ TopIsItsOwn' BY DEF IInv, Shapes, TopIsItsOwn
<1> QED BY <1>1, <1>2, <1>3, <1>4 DEF IInv

-----------------------------------------------------------------------------
LEMMA BeginningIs ==
  ASSUME AllPaths, Init
  PROVE  IInv
<1>1. /\ place \in [Items -> Paths \cup {<< >>}] /\ IsTree
      /\ from = [i \in Items |-> NoPath] /\ pc = [c \in Callers |-> "new"]
      /\ job = [c \in Callers |-> NoJob] /\ answered = {i \in Items : place[i] # Nowhere}
      /\ excused = {}
  BY StartAssumption DEF Init
<1>2. Shapes
  <2>1. NoJob \in Jobs BY DEF NoJob, Jobs
  <2>2. place \in [Items -> Places] BY <1>1 DEF Places, Nowhere
  <2> QED BY <1>1, <2>1, <2>2 DEF Shapes, Steps
<1>3. \A i \in Items : place[i] \in Paths \cup {Nowhere} BY <1>1 DEF Nowhere
<1>4. Tree(place)
  <2>1. \A i, k \in Items : place[i] = place[k] /\ place[i] \notin {Nowhere, Gone} => i = k
    BY <1>1, <1>3 DEF IsTree
  <2>2. ASSUME NEW i \in Items, NEW a \in StrictPrefixes(place[i])
        PROVE  \E k \in Folders : place[k] = a
    <3>1. place[i] \in Paths BY <1>3, <2>2 DEF StrictPrefixes, Nowhere
    <3>2. a \in Prefixes(place[i]) \ {<< >>, place[i]}
      <4>1. place[i] \in Seq(Symbols) BY <3>1, PathsAre
      <4>2. a # << >> /\ a # place[i] BY <2>2, <4>1, StrictPrefixIs
      <4>3. PICK n \in 1 .. (Len(place[i]) - 1) : a = SubSeq(place[i], 1, n)
        BY <2>2 DEF StrictPrefixes
      <4>4. n \in 0 .. Len(place[i]) BY <4>1, <4>3
      <4> QED BY <4>2, <4>3, <4>4 DEF Prefixes
    <3> QED BY <1>1, <3>1, <3>2 DEF IsTree, At
  <2> QED BY <2>1, <2>2 DEF Tree
<1>5. TopIsItsOwn BY <1>3, TrashTop, PlacesDiffer DEF TopIsItsOwn
<1>6. AnsweredIsKept BY <1>1, <1>3 DEF AnsweredIsKept, Reachable
<1>7. \A c \in Callers : pc[c] = "new" /\ job[c] = NoJob BY <1>1
<1>8. \A c \in Callers : JobOK(pc[c], job[c]) BY <1>7 DEF JobOK, Locks
<1>9. OneLock /\ OwnersDiffer /\ RivalsAreDirty
  BY <1>7 DEF OneLock, OwnersDiffer, RivalsAreDirty, Active, Locks, Owner
<1>10. \A c \in Callers : RequestOK(c)
  BY <1>7
     DEF RequestOK, DirtyIsExcused, CleanIsAlone, OwnIsNew, InTop, Active, Locks, Owner
<1> QED BY <1>1, <1>2, <1>4, <1>5, <1>6, <1>8, <1>9, <1>10 DEF IInv

LEMMA OnlyReturns ==
  ASSUME AllPaths, IInv, NEW c \in Callers,
         \/ \E ok \in BOOLEAN : RewriteShares(c, ok)
         \/ MoveToTrashFails(c)
         \/ \E ok \in BOOLEAN : RemoveShares(c, ok)
         \/ CreateFails(c) \/ PublishFails(c)
         \/ \E t \in Tokens, ok \in BOOLEAN : CreateShare(c, t, ok)
         \/ CreateShareFails(c)
  PROVE  IInv' /\ StepOf(c)
<1>1. /\ Active(c) /\ pc[c] # "undo" /\ Return(c) /\ UNCHANGED <<place, from, answered>>
      /\ excused \subseteq excused'
  BY DEF RewriteShares, MoveToTrashFails, RemoveShares, CreateFails, PublishFails, CreateShare,
         CreateShareFails, Active, history, Made
<1> QED BY <1>1, QuietReturn

LEMMA StepKeepsIInv ==
  ASSUME AllPaths, IInv, NEW c \in Callers, Step(c)
  PROVE  IInv'
<1>1. CASE \E p, q \in Paths : BeginRename(c, p, q) BY <1>1, RenameBegins
<1>2. CASE \E p, q \in Paths : BeginMove(c, p, q) BY <1>2, MoveBegins
<1>3. CASE Move(c) BY <1>3, MoveKeeps
<1>4. CASE \E p \in Paths : BeginDelete(c, p) BY <1>4, DeleteBegins
<1>5. CASE \E i \in Items, ok \in BOOLEAN : MoveToTrash(c, i, ok) BY <1>5, MoveToTrashKeeps
<1>6. CASE UndoTrash(c) BY <1>6, UndoTrashKeeps
<1>7. CASE \E i \in Items, k \in Folders \cup {Nobody} : BeginRestore(c, i, k)
  BY <1>7, RestoreBegins
<1>8. CASE Restore(c) BY <1>8, RestoreKeeps
<1>9. CASE \E q \in Paths : BeginCreate(c, q) BY <1>9, CreateBegins
<1>10. CASE \E i \in Items : MakeFolder(c, i) BY <1>10, MakeFolderKeeps
<1>11. CASE \E i \in Items : CreateFile(c, i) BY <1>11, CreateFileKeeps
<1>12. CASE WriteFile(c) BY <1>12, AnswerKeeps DEF WriteFile
<1>13. CASE WriteFails(c) BY <1>13, WriteFailsKeeps
<1>14. CASE \E q \in Paths : BeginPublish(c, q) BY <1>14, PublishBegins
<1>15. CASE \E i \in Items : Publish(c, i) BY <1>15, PublishKeeps
<1>16. CASE \E p, q \in Paths : BeginCopy(c, p, q) BY <1>16, CopyBegins DEF BeginCopy, CopyTo
<1>17. CASE \E p, q \in Paths : BeginDuplicate(c, p, q)
  BY <1>17, CopyBegins DEF BeginDuplicate, CopyTo
<1>18. CASE \E i \in Items : CopyTop(c, i) BY <1>18, CopyTopKeeps
<1>19. CASE \E i \in Items : \E n \in job[c].left : CopyChild(c, i, n) BY <1>19, CopyChildKeeps
<1>20. CASE CopyDone(c) BY <1>20, AnswerKeeps DEF CopyDone
<1>21. CASE CopyFails(c) BY <1>21, CopyFailsKeeps
<1>22. CASE CleanUp(c) BY <1>22, CleanUpKeeps
<1>23. CASE \E p \in Paths : BeginShare(c, p) BY <1>23, ShareBegins
<1>24. CASE \/ \E ok \in BOOLEAN : RewriteShares(c, ok)
            \/ MoveToTrashFails(c)
            \/ \E ok \in BOOLEAN : RemoveShares(c, ok)
            \/ CreateFails(c) \/ PublishFails(c)
            \/ \E t \in Tokens, ok \in BOOLEAN : CreateShare(c, t, ok)
            \/ CreateShareFails(c)
  BY <1>24, OnlyReturns
<1> QED
  BY <1>1, <1>2, <1>3, <1>4, <1>5, <1>6, <1>7, <1>8, <1>9, <1>10, <1>11, <1>12, <1>13, <1>14,
     <1>15, <1>16, <1>17, <1>18, <1>19, <1>20, <1>21, <1>22, <1>23, <1>24 DEF Step

LEMMA NextKeeps ==
  ASSUME AllPaths, IInv, [Next]_vars
  PROVE  IInv'
<1>1. ASSUME NEW c \in Callers, Step(c) PROVE IInv' BY <1>1, StepKeepsIInv
<1>2. ASSUME NEW i \in Items, Purge(i) PROVE IInv' BY <1>2, PurgeKeeps
<1>3. CASE RevokeShare BY <1>3, NothingHappens DEF RevokeShare, history
<1>4. CASE Restart BY <1>4, RestartKeeps
<1>5. CASE UNCHANGED vars BY <1>5, NothingHappens DEF vars, history
<1> QED BY <1>1, <1>2, <1>3, <1>4, <1>5 DEF Next

(* No handler loses a file of somebody else (handlers.go:407, 593): what a *)
(* client was told is stored stays in the archive, or can be restored from *)
(* the trash, while requests rename, move, copy, delete, restore, upload   *)
(* and fail at any step, and the server dies between any two of them.      *)
THEOREM AnsweredStaysReachable == ASSUME AllPaths PROVE Spec => []AnsweredIsKept
<1>1. Init => IInv BY BeginningIs
<1>2. IInv /\ [Next]_vars => IInv' BY NextKeeps
<1>3. IInv => AnsweredIsKept BY DEF IInv
<1> QED BY <1>1, <1>2, <1>3, PTL DEF Spec

-----------------------------------------------------------------------------
(* The types of the share store and of the history.                        *)

Records == [Tokens -> Store!Share \cup {NoShare}]

StoreTypes ==
  /\ mem \in Records /\ disk \in Records /\ lapsed \subseteq Tokens
  /\ told \in [Tokens -> {"unused", "created", "failed", "revoked", "removed"}]

Types ==
  /\ StoreTypes
  /\ excused \subseteq Items \cup Tokens /\ leads \in [Tokens -> Items \cup {Nobody}]

LEMMA CreateTypes ==
  ASSUME StoreTypes, NEW t \in Tokens, NEW p \in Paths, NEW ok \in BOOLEAN, Store!Create(t, p, ok)
  PROVE  StoreTypes'
<1>1. Store!NewShare(p) \in Store!Share BY DEF Store!NewShare, Store!Share
<1>2. Store!PruneLocked(mem) \in Records BY DEF StoreTypes, Records, Store!PruneLocked
<1>3. mem' \in Records BY <1>1, <1>2 DEF Records, Store!Create
<1> QED BY <1>3 DEF StoreTypes, Store!Create, Store!SaveLocked

LEMMA RewriteTypes ==
  ASSUME StoreTypes, NEW p, NEW q, NEW ok \in BOOLEAN, Store!RewritePathPrefix(p, q, ok)
  PROVE  StoreTypes'
<1>1. PICK under : under = {t \in Store!Live(mem) : IsPrefix(p, mem[t].path)} OBVIOUS
<1>2. /\ \A t \in under : Store!Rewritten(mem[t].path, p, q) \in Paths
      /\ mem' = [t \in Tokens |->
                   IF t \in under
                   THEN [mem[t] EXCEPT !.path = Store!Rewritten(@, p, q)] ELSE mem[t]]
      /\ Store!SaveLocked(ok) /\ UNCHANGED <<lapsed, told>>
  <2>1. under = {t \in Store!Live(mem) : Store!IsPrefix(p, mem[t].path)}
    BY <1>1 DEF Store!IsPrefix, IsPrefix
  <2> QED BY <2>1 DEF Store!RewritePathPrefix
<1>3. \A t \in under : t \in Tokens /\ mem[t] \in Store!Share
  BY <1>1 DEF StoreTypes, Records, Store!Live
<1>4. ASSUME NEW sh \in Store!Share, NEW r \in Paths
      PROVE  [sh EXCEPT !.path = r] \in Store!Share
  BY DEF Store!Share
<1>5. \A t \in under : [mem[t] EXCEPT !.path = Store!Rewritten(@, p, q)] \in Store!Share
  BY <1>2, <1>3, <1>4
<1>6. mem' \in Records BY <1>2, <1>3, <1>5 DEF StoreTypes, Records
<1> QED BY <1>2, <1>6 DEF StoreTypes, Store!SaveLocked

LEMMA RemoveTypes ==
  ASSUME StoreTypes, NEW p, NEW ok \in BOOLEAN, Store!RemoveByPathPrefix(p, ok)
  PROVE  StoreTypes'
<1>1. mem' \in Records
  BY DEF StoreTypes, Records, Store!RemoveByPathPrefix, Store!Without
<1>2. told' \in [Tokens -> {"unused", "created", "failed", "revoked", "removed"}]
  BY DEF StoreTypes, Store!RemoveByPathPrefix
<1> QED BY <1>1, <1>2 DEF StoreTypes, Store!RemoveByPathPrefix, Store!SaveLocked

LEMMA RevokeTypes ==
  ASSUME StoreTypes, NEW t \in Tokens, NEW ok \in BOOLEAN, Store!Revoke(t, ok)
  PROVE  StoreTypes'
<1>1. mem' \in Records BY DEF StoreTypes, Records, Store!Revoke, Store!Without
<1> QED BY <1>1 DEF StoreTypes, Store!Revoke, Store!SaveLocked

LEMMA TouchedTypes ==
  ASSUME NEW j, j.own \subseteq Items
  PROVE  Touched(j) \subseteq Items \cup Tokens
<1>1. \A p : Under(p) \subseteq Items BY DEF Under
<1>2. {t \in Store!Live(mem) : \E p \in Area(j) : IsPrefix(p, mem[t].path)} \subseteq Tokens
  BY DEF Store!Live
<1> QED BY <1>1, <1>2 DEF Touched

LEMMA BeginTypes ==
  ASSUME Shapes, Types, NEW c \in Callers, NEW s, NEW j, Begin(c, s, j), j.own \subseteq Items
  PROVE  Types'
<1>1. \A d \in Callers : job[d].own \subseteq Items BY DEF Shapes, Jobs
<1>2. excused' \subseteq excused \cup Touched(j) \cup UNION {Touched(job[d]) : d \in Callers}
  BY DEF Begin
<1>3. excused' \subseteq Items \cup Tokens BY <1>1, <1>2, TouchedTypes DEF Types
<1> QED BY <1>3 DEF Begin, Types, StoreTypes, storeVars

LEMMA StepBegins ==
  ASSUME IInv, Types, NEW c \in Callers,
         \/ \E p, q \in Paths : BeginRename(c, p, q)
         \/ \E p, q \in Paths : BeginMove(c, p, q)
         \/ \E p \in Paths : BeginDelete(c, p)
         \/ \E i \in Items, k \in Folders \cup {Nobody} : BeginRestore(c, i, k)
         \/ \E q \in Paths : BeginCreate(c, q)
         \/ \E q \in Paths : BeginPublish(c, q)
         \/ \E p, q \in Paths : CopyTo(c, p, q)
         \/ \E p \in Paths : BeginShare(c, p)
  PROVE  Types'
<1>1. Shapes BY DEF IInv
<1>2. \E s, j : Begin(c, s, j) /\ j.own \subseteq Items
  <2>1. \A p, q, i : /\ [NoJob EXCEPT !.src = p, !.dst = q].own = {}
                     /\ [NoJob EXCEPT !.src = p].own = {}
                     /\ [NoJob EXCEPT !.dst = q].own = {}
                     /\ [NoJob EXCEPT !.dst = q, !.item = i].own = {}
                     /\ [NoJob EXCEPT !.src = p, !.dst = q, !.item = i].own = {}
                     /\ [NoJob EXCEPT !.src = p, !.item = i].own = {}
                     /\ [NoJob EXCEPT !.dst = q, !.own = Parent(q)].own = Parent(q)
    BY DEF NoJob
  <2>2. \A q : Parent(q) \subseteq Items BY DEF Parent, At
  <2>3. CASE \E p, q \in Paths : BeginRename(c, p, q) BY <2>1, <2>3 DEF BeginRename
  <2>4. CASE \E p, q \in Paths : BeginMove(c, p, q) BY <2>1, <2>4 DEF BeginMove
  <2>5. CASE \E p \in Paths : BeginDelete(c, p) BY <2>1, <2>5 DEF BeginDelete
  <2>6. CASE \E i \in Items, k \in Folders \cup {Nobody} : BeginRestore(c, i, k)
    BY <2>1, <2>6 DEF BeginRestore
  <2>7. CASE \E q \in Paths : BeginCreate(c, q) BY <2>1, <2>7 DEF BeginCreate
  <2>8. CASE \E q \in Paths : BeginPublish(c, q)
    <3>1. PICK q \in Paths : Begin(c, "publish", [NoJob EXCEPT !.dst = q, !.own = Parent(q)])
      BY <2>8 DEF BeginPublish
    <3>2. [NoJob EXCEPT !.dst = q, !.own = Parent(q)].own = Parent(q) BY <2>1
    <3>3. Parent(q) \subseteq Items BY <2>2
    <3>4. PICK j : j = [NoJob EXCEPT !.dst = q, !.own = Parent(q)] OBVIOUS
    <3>5. Begin(c, "publish", j) /\ j.own \subseteq Items BY <3>1, <3>2, <3>3, <3>4
    <3> QED BY <3>5
  <2>9. CASE \E p, q \in Paths : CopyTo(c, p, q) BY <2>1, <2>9 DEF CopyTo
  <2>10. CASE \E p \in Paths : BeginShare(c, p) BY <2>1, <2>10 DEF BeginShare
  <2> QED BY <2>3, <2>4, <2>5, <2>6, <2>7, <2>8, <2>9, <2>10
<1> QED BY <1>1, <1>2, BeginTypes

LEMMA StepKeepsTypes ==
  ASSUME IInv, Types, NEW c \in Callers, Step(c)
  PROVE  Types'
<1>1. CASE \/ \E p, q \in Paths : BeginRename(c, p, q)
           \/ \E p, q \in Paths : BeginMove(c, p, q)
           \/ \E p \in Paths : BeginDelete(c, p)
           \/ \E i \in Items, k \in Folders \cup {Nobody} : BeginRestore(c, i, k)
           \/ \E q \in Paths : BeginCreate(c, q)
           \/ \E q \in Paths : BeginPublish(c, q)
           \/ \E p, q \in Paths : CopyTo(c, p, q)
           \/ \E p \in Paths : BeginShare(c, p)
  BY <1>1, StepBegins
<1>2. CASE \/ Move(c) \/ MoveToTrashFails(c) \/ UndoTrash(c) \/ Restore(c) \/ CreateFails(c)
           \/ WriteFails(c) \/ PublishFails(c) \/ CopyFails(c) \/ CleanUp(c) \/ CreateShareFails(c)
           \/ \E i \in Items, ok \in BOOLEAN : MoveToTrash(c, i, ok)
           \/ WriteFile(c) \/ CopyDone(c)
  <2>1. UNCHANGED <<excused, leads, storeVars>>
    BY <1>2 DEF Move, MoveToTrashFails, UndoTrash, Restore, CreateFails, WriteFails, PublishFails,
                CopyFails, CleanUp, CreateShareFails, MoveToTrash, WriteFile, CopyDone, Answer,
                history
  <2> QED BY <2>1 DEF Types, StoreTypes, storeVars
<1>3. CASE \/ \E i \in Items : MakeFolder(c, i) \/ CreateFile(c, i) \/ Publish(c, i) \/ CopyTop(c, i)
           \/ \E i \in Items : \E n \in job[c].left : CopyChild(c, i, n)
  <2>1. \E i \in Items : Made(c, {i}) /\ UNCHANGED <<leads, storeVars>>
    BY <1>3 DEF MakeFolder, CreateFile, Publish, CopyTop, CopyChild, CopyOne
  <2> QED BY <2>1 DEF Types, StoreTypes, storeVars, Made
<1>4. CASE \E ok \in BOOLEAN : RewriteShares(c, ok)
  <2>1. UNCHANGED <<excused, leads>> BY <1>4 DEF RewriteShares, history
  <2>2. StoreTypes' BY <1>4, RewriteTypes DEF RewriteShares, Types, StoreTypes, storeVars
  <2> QED BY <2>1, <2>2 DEF Types
<1>5. CASE \E ok \in BOOLEAN : RemoveShares(c, ok)
  <2>1. UNCHANGED <<excused, leads>> BY <1>5 DEF RemoveShares, history
  <2>2. StoreTypes' BY <1>5, RemoveTypes DEF RemoveShares, Types, StoreTypes, storeVars
  <2> QED BY <2>1, <2>2 DEF Types
<1>6. ASSUME NEW t \in Tokens, NEW ok \in BOOLEAN, CreateShare(c, t, ok) PROVE Types'
  <2>1. job[c].src \in Paths /\ job[c].item \in Items \cup {Nobody}
    BY <1>6 DEF CreateShare, IInv, JobOK, Shapes, Jobs
  <2>2. StoreTypes' BY <1>6, <2>1, CreateTypes DEF CreateShare, Types
  <2>3. leads' \in [Tokens -> Items \cup {Nobody}] BY <1>6, <2>1 DEF CreateShare, Types
  <2>4. excused' \subseteq Items \cup Tokens BY <1>6 DEF CreateShare, Made, Types
  <2> QED BY <2>2, <2>3, <2>4 DEF Types
<1> QED BY <1>1, <1>2, <1>3, <1>4, <1>5, <1>6 DEF Step, BeginCopy, BeginDuplicate

LEMMA NextKeepsTypes ==
  ASSUME IInv, Types, [Next]_vars
  PROVE  Types'
<1>1. ASSUME NEW c \in Callers, Step(c) PROVE Types' BY <1>1, StepKeepsTypes
<1>2. ASSUME NEW i \in Items, Purge(i) PROVE Types'
  BY <1>2 DEF Purge, Types, StoreTypes, storeVars
<1>3. CASE RevokeShare
  <2>1. StoreTypes' BY <1>3, RevokeTypes DEF RevokeShare, Types
  <2> QED BY <1>3, <2>1 DEF RevokeShare, Types, history
<1>4. CASE Restart
  <2>1. StoreTypes' BY <1>4 DEF Restart, Store!Restart, Types, StoreTypes
  <2>2. \A c \in Callers : job[c].own \subseteq Items BY DEF IInv, Shapes, Jobs
  <2>3. \A c \in Callers : CutOff(c) \subseteq Items \cup Tokens
    BY <2>2, TouchedTypes DEF CutOff
  <2>4. excused' \subseteq Items \cup Tokens BY <1>4, <2>3 DEF Restart, Types
  <2> QED BY <1>4, <2>1, <2>4 DEF Restart, Types
<1>5. CASE UNCHANGED vars BY <1>5 DEF vars, history, storeVars, Types, StoreTypes
<1> QED BY <1>1, <1>2, <1>3, <1>4, <1>5 DEF Next

LEMMA BeginningTypes ==
  ASSUME AllPaths, Init
  PROVE  Types
<1>1. /\ place \in [Items -> Paths \cup {<< >>}]
      /\ answered = {i \in Items : place[i] # Nowhere} /\ excused = {}
      /\ leads \in [Tokens -> answered \cup {Nobody}]
      /\ mem = [t \in Tokens |-> Shared(t)] /\ disk = mem /\ lapsed = {}
      /\ told = [t \in Tokens |-> IF leads[t] = Nobody THEN "unused" ELSE "created"]
  BY StartAssumption DEF Init
<1>2. \A t \in Tokens : leads[t] # Nobody => place[leads[t]] \in Paths
  BY <1>1 DEF Nowhere
<1>3. \A p \in Paths : Store!NewShare(p) \in Store!Share BY DEF Store!NewShare, Store!Share
<1>4. mem \in Records BY <1>1, <1>2, <1>3 DEF Shared, Records
<1>5. told \in [Tokens -> {"unused", "created", "failed", "revoked", "removed"}] BY <1>1
<1>6. leads \in [Tokens -> Items \cup {Nobody}] BY <1>1
<1> QED BY <1>1, <1>4, <1>5, <1>6 DEF Types, StoreTypes

(* A place in the trash is the top of an item or leads on from it.         *)
LEMMA TrashShape ==
  ASSUME AllPaths, NEW x \in TrashPlaces
  PROVE  \E i \in Items : x \in InTrash(i)
<1>1. /\ x \in Seq(Symbols) /\ Len(x) >= 2 /\ x[1] = "trash" /\ x[2] \in Items
      /\ \A k \in 3 .. Len(x) : x[k] \in Names
      /\ Len(x) \in Nat
  BY DEF TrashPlaces
<1>2. PICK i \in Items : i = x[2] BY <1>1
<1>3. PICK y : y = TrashPlace(i) OBVIOUS
<1>4. y \in Seq(Symbols) /\ Len(y) = 2 /\ y[1] = "trash" /\ y[2] = i BY <1>3, TrashTop
<1>5. CASE Len(x) = 2
  <2>1. \A k \in 1 .. 2 : x[k] = y[k] BY <1>1, <1>2, <1>4
  <2>2. x = y BY <1>1, <1>4, <1>5, <2>1, SeqEqual
  <2> QED BY <1>3, <2>2 DEF InTrash
<1>6. CASE Len(x) > 2
  <2>1. PICK n \in Nat : Len(x) = n + 2 /\ n > 0
    <3>1. Len(x) - 2 \in Nat /\ Len(x) = (Len(x) - 2) + 2 /\ Len(x) - 2 > 0 BY <1>1, <1>6
    <3> QED BY <3>1
  <2>2. \A k \in 1 .. n : x[k + 2] \in Names
    <3>1. \A k \in 1 .. n : k + 2 \in 3 .. Len(x) BY <2>1
    <3> QED BY <1>1, <3>1
  <2>3. PICK p : p = [k \in 1 .. (n + 1) |-> IF k = 1 THEN x[3] ELSE x[k + 1]] OBVIOUS
  <2>4. p \in Seq(Names) /\ Len(p) = n + 1 /\ \A k \in 1 .. n : p[k + 1] = x[k + 2]
    <3>1. x[3] \in Names BY <1>1, <2>1
    <3>2. \A k \in 1 .. (n + 1) : k # 1 => x[k + 1] \in Names
      <4>1. \A k \in 1 .. (n + 1) : k # 1 => k + 1 \in 3 .. Len(x) BY <2>1
      <4> QED BY <1>1, <4>1
    <3>3. p \in [1 .. (n + 1) -> Names] BY <2>3, <3>1, <3>2
    <3>4. \A k \in 1 .. n : k + 1 \in 1 .. (n + 1) /\ k + 1 # 1 /\ (k + 1) + 1 = k + 2 OBVIOUS
    <3>5. \A k \in 1 .. n : p[k + 1] = x[k + 2] BY <2>3, <3>4
    <3>6. n + 1 \in Nat OBVIOUS
    <3>7. p \in Seq(Names) BY <3>3, <3>6, SeqDef
    <3>8. Len(p) \in Nat /\ DOMAIN p = 1 .. Len(p) /\ DOMAIN p = 1 .. (n + 1)
      BY <3>3, <3>7, LenProperties
    <3>9. Len(p) = n + 1
      <4>1. 1 .. Len(p) = 1 .. (n + 1) BY <3>8
      <4>2. \A m \in Nat : 1 .. m = 1 .. (n + 1) => m = n + 1
        <5>1. ASSUME NEW m \in Nat, 1 .. m = 1 .. (n + 1) PROVE m = n + 1
          <6>1. n + 1 \in 1 .. m BY <5>1
          <6>2. m > 0 BY <6>1
          <6>3. m \in 1 .. (n + 1) BY <5>1, <6>2
          <6> QED BY <6>1, <6>3
        <5> QED BY <5>1
      <4> QED BY <3>8, <4>1, <4>2
    <3> QED BY <3>5, <3>7, <3>9
  <2>5. p \in Paths
    <3>1. p # << >> BY <2>4
    <3> QED BY <2>4, <3>1 DEF AllPaths
  <2>6. PICK z : z = SubSeq(p, 2, Len(p)) OBVIOUS
  <2>7. z \in Seq(Names) /\ Len(z) = n /\ \A k \in 1 .. n : z[k] = p[k + 1]
    BY <2>4, <2>6
  <2>8. z \in Seq(Symbols) BY <2>7 DEF Symbols
  <2>9. /\ y \o z \in Seq(Symbols) /\ Len(y \o z) = Len(y) + Len(z)
        /\ \A k \in 1 .. Len(y) + Len(z) :
             (y \o z)[k] = IF k <= Len(y) THEN y[k] ELSE z[k - Len(y)]
    BY <1>4, <2>8, ConcatProperties
  <2>10. PICK r : r = y \o z OBVIOUS
  <2>11. /\ r \in Seq(Symbols) /\ Len(r) = Len(x)
         /\ \A k \in 1 .. Len(x) : r[k] = IF k <= 2 THEN y[k] ELSE z[k - 2]
    BY <1>4, <2>1, <2>7, <2>9, <2>10
  <2>12. ASSUME NEW k \in 1 .. Len(x) PROVE r[k] = x[k]
    <3>1. CASE k <= 2 BY <1>1, <1>2, <1>4, <2>11, <3>1
    <3>2. CASE k > 2
      <4>1. k - 2 \in 1 .. n /\ (k - 2) + 2 = k BY <2>1, <3>2
      <4>2. r[k] = z[k - 2] BY <2>11, <3>2
      <4>3. z[k - 2] = x[(k - 2) + 2] BY <2>4, <2>7, <4>1
      <4> QED BY <4>1, <4>2, <4>3
    <3> QED BY <3>1, <3>2
  <2>13. r = x BY <1>1, <2>11, <2>12, SeqEqual
  <2> QED BY <1>3, <2>5, <2>6, <2>10, <2>13 DEF InTrash
<1>7. Len(x) = 2 \/ Len(x) > 2
  <2>1. \A n \in Nat : n >= 2 => n = 2 \/ n > 2 OBVIOUS
  <2> QED BY <1>1, <2>1
<1> QED BY <1>5, <1>6, <1>7

LEMMA TypesAreOK ==
  ASSUME AllPaths, IInv, Types
  PROVE  TypeOK
<1>1. Shapes /\ Tree(place) BY DEF IInv
<1>2. \A x \in TrashPlaces : \E i \in Items : x \in InTrash(i) BY TrashShape
<1>3. place \in [Items -> Paths \cup {Nowhere, Gone} \cup UNION {InTrash(i) : i \in Items}]
  BY <1>1, <1>2 DEF Shapes, Places
<1>4. IsTree
  <2>1. \A i, k \in Items : place[i] = place[k] /\ place[i] \in Paths => i = k
    BY <1>1, PlacesDiffer DEF Tree
  <2>2. ASSUME NEW i \in Items, place[i] \in Paths,
               NEW a \in Prefixes(place[i]) \ {<< >>, place[i]}
        PROVE  At(a) \cap Folders # {}
    <3>1. place[i] \in Seq(Symbols) /\ Len(place[i]) \in Nat BY <2>2, PathsAre, LenProperties
    <3>2. PICK n \in 0 .. Len(place[i]) : a = SubSeq(place[i], 1, n) BY DEF Prefixes
    <3>3. n # 0
      <4>1. SubSeq(place[i], 1, 0) = << >> BY <3>1
      <4> QED BY <3>2, <4>1
    <3>4. n # Len(place[i])
      <4>1. SubSeq(place[i], 1, Len(place[i])) = place[i] BY <3>1
      <4> QED BY <3>2, <4>1
    <3>5. n \in 1 .. (Len(place[i]) - 1) BY <3>1, <3>2, <3>3, <3>4
    <3>6. a \in StrictPrefixes(place[i]) BY <3>2, <3>5 DEF StrictPrefixes
    <3>7. a \in Paths BY <2>2, <3>6, PathUp
    <3>8. a # <<"trash">> BY <3>7, PathsAndTops
    <3> QED BY <1>1, <3>6, <3>8 DEF Tree, At, Items
  <2> QED BY <2>1, <2>2 DEF IsTree
<1>5. ASSUME NEW S PROVE << >> \in [{} -> S]
  <2>1. << >> \in Seq(S) /\ Len(<< >>) = 0 OBVIOUS
  <2>2. << >> \in [1 .. 0 -> S] BY <2>1, LenProperties
  <2>3. 1 .. 0 = {} OBVIOUS
  <2> QED BY <2>2, <2>3
<1>6. Store!TypeOK BY <1>5 DEF Types, StoreTypes, Records, Store!TypeOK
<1> QED BY <1>1, <1>3, <1>4, <1>6 DEF TypeOK, Types, Shapes, Steps

(* Whatever the handlers do to each other, the archive stays a tree: one   *)
(* item in a place, only in folders, and only a whole subtree moves to the *)
(* trash and back (trash.go:142, handlers.go:510).                         *)
THEOREM TypeCorrect == ASSUME AllPaths PROVE Spec => []TypeOK
<1>1. Init => IInv /\ Types BY BeginningIs, BeginningTypes
<1>2. IInv /\ Types /\ [Next]_vars => (IInv /\ Types)' BY NextKeeps, NextKeepsTypes
<1>3. IInv /\ Types => TypeOK BY TypesAreOK
<1> QED BY <1>1, <1>2, <1>3, PTL DEF Spec

-----------------------------------------------------------------------------
(* Shares.                                                                 *)

Shares == Store!Live(mem)

Home(t) == place[leads[t]] = mem[t].path

(* The item of a share was moved by c, which is on its way to the store.   *)
Awaits(c, t) ==
  /\ IsPrefix(job[c].src, mem[t].path)
  /\ \/ pc[c] = "rewrite" /\ place[leads[t]] = Moved(mem[t].path, job[c].src, job[c].dst)
     \/ pc[c] = "undo" /\ place[leads[t]] = Moved(mem[t].path, job[c].src, TrashPlace(job[c].item))
     \/ pc[c] = "unshare"

Accounted(t) == Home(t) \/ \E c \in Callers : Awaits(c, t)

(* A request that overlaps with another has its shares excused; one that   *)
(* does not leaves nothing behind, has no share where it goes to, and      *)
(* still finds what it is going to share.                                  *)
SharesOK(c) ==
  Active(c) =>
    /\ ~ job[c].clean => \A t \in Shares : \A a \in Area(job[c]) :
                           IsPrefix(a, mem[t].path) => t \in excused
    /\ job[c].clean /\ job[c].dst \in Paths =>
         \A t \in Shares \ excused : ~ IsPrefix(job[c].dst, mem[t].path)
    /\ job[c].clean /\ pc[c] \in {"rewrite", "undo", "unshare"} => Under(job[c].src) = {}
    /\ job[c].clean /\ pc[c] = "share" =>
         job[c].item \in Items /\ place[job[c].item] = job[c].src

ShareInv ==
  /\ \A t \in Shares \ excused : leads[t] \in Items /\ Accounted(t)
  /\ \A c \in Callers : SharesOK(c)

LEMMA RecordsAre ==
  ASSUME AllPaths, NEW m \in Records, NEW t \in Store!Live(m)
  PROVE  /\ t \in Tokens /\ m[t].path \in Paths /\ m[t].path \in Places
         /\ m[t].path \in Seq(Symbols) /\ m[t].path # Nowhere
<1>1. t \in Tokens /\ m[t].path \in Paths BY DEF Store!Live, Records, Store!Share
<1> QED BY <1>1, PathsAre DEF Nowhere, Places

LEMMA SharesAre ==
  ASSUME AllPaths, Types
  PROVE  \A t \in Shares : /\ t \in Tokens /\ mem[t].path \in Paths /\ mem[t].path \in Places
                           /\ mem[t].path \in Seq(Symbols) /\ mem[t].path # Nowhere
BY RecordsAre DEF Shares, Types, StoreTypes

LEMMA MovedBack ==
  ASSUME NEW S, NEW x \in Seq(S), NEW p \in Seq(S), NEW q \in Seq(S), IsPrefix(p, x)
  PROVE  Moved(Moved(x, p, q), q, p) = x
<1>1. /\ Moved(x, p, q) \in Seq(S) /\ IsPrefix(q, Moved(x, p, q)) BY MovedIs
<1>2. Len(Moved(x, p, q)) = Len(q) + (Len(x) - Len(p)) BY MovedIs
<1>3. \A k \in 1 .. (Len(x) - Len(p)) : Moved(x, p, q)[Len(q) + k] = x[Len(p) + k] BY MovedIs
<1>4. PICK y : y = Moved(x, p, q) OBVIOUS
<1>5. /\ y \in Seq(S) /\ IsPrefix(q, y) /\ Len(y) = Len(q) + (Len(x) - Len(p))
      /\ \A k \in 1 .. (Len(x) - Len(p)) : y[Len(q) + k] = x[Len(p) + k]
  BY <1>1, <1>2, <1>3, <1>4
<1>y. y \in Seq(S) /\ IsPrefix(q, y) BY <1>5
<1>6. Len(p) <= Len(x) /\ \A k \in 1 .. Len(p) : p[k] = x[k] BY PrefixIs
<1>7. Moved(y, q, p) \in Seq(S) BY <1>y, MovedIs
<1>8. Len(Moved(y, q, p)) = Len(p) + (Len(y) - Len(q)) BY <1>y, MovedIs
<1>9. \A k \in 1 .. Len(p) : Moved(y, q, p)[k] = p[k] BY <1>y, MovedIs
<1>10. \A k \in 1 .. (Len(y) - Len(q)) : Moved(y, q, p)[Len(p) + k] = y[Len(q) + k]
  BY <1>y, MovedIs
<1>11. PICK z : z = Moved(y, q, p) OBVIOUS
<1>12. z \in Seq(S) /\ Len(z) = Len(x) BY <1>5, <1>6, <1>7, <1>8, <1>11
<1>13. ASSUME NEW k \in 1 .. Len(x) PROVE z[k] = x[k]
  <2>1. CASE k <= Len(p)
    <3>1. k \in 1 .. Len(p) BY <2>1
    <3> QED BY <1>6, <1>9, <1>11, <3>1
  <2>2. CASE ~ (k <= Len(p))
    <3>1. PICK n \in 1 .. (Len(x) - Len(p)) : k = Len(p) + n
      <4>1. k - Len(p) \in 1 .. (Len(x) - Len(p)) BY <1>6, <2>2
      <4>2. k = Len(p) + (k - Len(p)) OBVIOUS
      <4> QED BY <4>1, <4>2
    <3>2. n \in 1 .. (Len(y) - Len(q)) BY <1>5, <3>1
    <3>3. z[Len(p) + n] = y[Len(q) + n] BY <1>10, <1>11, <3>2
    <3> QED BY <1>5, <3>1, <3>3
  <2> QED BY <2>1, <2>2
<1>14. z = x BY <1>12, <1>13, SeqEqual
<1> QED BY <1>4, <1>11, <1>14

(* What a step of c does to the shares: it leaves them, or they are in its *)
(* area, and home unless another request overlaps.                         *)
SharesOwn(c) ==
  \A t \in Shares' :
    \/ t \in Shares /\ mem'[t].path = mem[t].path /\ leads'[t] = leads[t]
    \/ /\ \E a \in Area(job[c]) : IsPrefix(a, mem'[t].path)
       /\ ~ job[c].clean => t \in excused'
       /\ t \notin excused' => leads'[t] \in Items /\ Home(t)'

(* A share whose item c moves waits for c, and one that waits for c is     *)
(* home, or gone, when c ends.                                             *)
TakesAlong(c) ==
  \A t \in Shares \cap Shares' :
    t \notin excused' /\ mem'[t].path = mem[t].path /\ leads'[t] = leads[t] =>
      /\ Home(t) /\ place'[leads[t]] # place[leads[t]] => Awaits(c, t)'
      /\ Awaits(c, t) => Accounted(t)'

LEMMA OtherSharesStay ==
  ASSUME AllPaths, IInv, Types, Types', ShareInv, NEW c \in Callers, StepOf(c), SharesOwn(c),
         NEW d \in Callers \ {c}
  PROVE  SharesOK(d)'
<1>1. pc'[d] = pc[d] /\ job'[d] = job[d] /\ excused \subseteq excused' BY DEF StepOf, Others
<1>2. SUFFICES ASSUME Active(d) PROVE SharesOK(d)' BY <1>1 DEF SharesOK, Active
<1>3. Shapes /\ job[c] \in Jobs /\ job[d] \in Jobs /\ JobOK(pc[d], job[d]) /\ SharesOK(d)
  BY DEF IInv, Shapes, ShareInv
<1>4. \A a \in Area(job[c]) \cup Area(job[d]) : a \in Paths /\ a \in Seq(Symbols)
  BY <1>3, AreaIs
<1>5. \A t \in Shares' : mem'[t].path \in Seq(Symbols)
  BY RecordsAre DEF Shares, Types, StoreTypes
<1>6. \A t \in Shares' : \A a \in Area(job[d]) :
        IsPrefix(a, mem'[t].path) =>
          \/ t \in Shares /\ mem'[t].path = mem[t].path
          \/ ~ job[d].clean /\ t \in excused'
  <2>1. SUFFICES ASSUME NEW t \in Shares', NEW a \in Area(job[d]), IsPrefix(a, mem'[t].path),
                        NEW b \in Area(job[c]), IsPrefix(b, mem'[t].path),
                        ~ job[c].clean => t \in excused'
                 PROVE  ~ job[d].clean /\ t \in excused'
    BY DEF SharesOwn
  <2>2. IsPrefix(a, b) \/ IsPrefix(b, a) BY <1>4, <1>5, <2>1, PrefixesCompare
  <2>3. Overlap(job[c], job[d]) /\ Overlap(job[d], job[c]) BY <2>1, <2>2 DEF Overlap
  <2>4. ~ job[c].clean /\ ~ job[d].clean BY <1>2, <2>3 DEF IInv, RivalsAreDirty, StepOf
  <2> QED BY <2>1, <2>4
<1>7. ASSUME job[d].clean, NEW p \in Paths, p = job[d].src
      PROVE  Under(p)' = Under(p) /\ \A i \in Under(p) : place'[i] = place[i]
  <2>1. p \in Area(job[d]) BY <1>7, PathsAre DEF Area, NoPath
  <2>2. Apart(job[c], p) BY <1>2, <1>7, <2>1, CleanIsApart DEF StepOf
  <2> QED BY <1>3, <2>2, FarStays
<1>8. ~ job[d].clean => \A t \in Shares' : \A a \in Area(job[d]) :
                          IsPrefix(a, mem'[t].path) => t \in excused'
  BY <1>1, <1>2, <1>3, <1>6 DEF SharesOK
<1>9. job[d].clean /\ job[d].dst \in Paths =>
        \A t \in Shares' \ excused' : ~ IsPrefix(job[d].dst, mem'[t].path)
  <2>1. job[d].dst \in Paths => job[d].dst \in Area(job[d]) BY PathsAre DEF Area, NoPath
  <2> QED BY <1>1, <1>2, <1>3, <1>6, <2>1 DEF SharesOK
<1>10. job[d].clean /\ pc[d] \in {"rewrite", "undo", "unshare"} => Under(job[d].src)' = {}
  <2>1. SUFFICES ASSUME job[d].clean, pc[d] \in {"rewrite", "undo", "unshare"}
                 PROVE  Under(job[d].src)' = {}
    OBVIOUS
  <2>2. PICK p \in Paths : p = job[d].src BY <1>3, <2>1 DEF JobOK
  <2>3. Under(p)' = Under(p) BY <1>7, <2>1, <2>2
  <2>4. Under(p) = {} BY <1>2, <1>3, <2>1, <2>2 DEF SharesOK
  <2> QED BY <1>1, <2>2, <2>3, <2>4
<1>11. job[d].clean /\ pc[d] = "share" =>
         job[d].item \in Items /\ place'[job[d].item] = job[d].src
  <2>1. SUFFICES ASSUME job[d].clean, pc[d] = "share"
                 PROVE  job[d].item \in Items /\ place'[job[d].item] = job[d].src
    OBVIOUS
  <2>2. job[d].src \in Paths /\ job[d].src \in Seq(Symbols) BY <1>3, <2>1, PathsAre DEF JobOK
  <2>3. job[d].item \in Items /\ place[job[d].item] = job[d].src BY <1>2, <1>3, <2>1 DEF SharesOK
  <2>4. job[d].item \in Under(job[d].src) BY <2>2, <2>3, PrefixRefl DEF Under
  <2> QED BY <1>7, <2>1, <2>2, <2>3, <2>4
<1> QED BY <1>1, <1>8, <1>9, <1>10, <1>11 DEF SharesOK, Area

LEMMA OthersStillAwait ==
  ASSUME AllPaths, IInv, Types, ShareInv, NEW c \in Callers, StepOf(c),
         NEW d \in Callers \ {c}, NEW t \in Shares \ excused, Awaits(d, t),
         mem'[t].path = mem[t].path, leads'[t] = leads[t]
  PROVE  Awaits(d, t)'
<1>1. pc'[d] = pc[d] /\ job'[d] = job[d] /\ Active(d) /\ leads[t] \in Items
  BY DEF StepOf, Others, Active, Awaits, ShareInv
<1>2. Shapes /\ job[d] \in Jobs /\ JobOK(pc[d], job[d]) /\ SharesOK(d)
  BY DEF IInv, Shapes, ShareInv
<1>3. mem[t].path \in Paths /\ mem[t].path \in Places /\ mem[t].path \in Seq(Symbols)
  BY SharesAre DEF Places
<1>4. job[d].src \in Paths /\ job[d].src \in Seq(Symbols) BY <1>2, PathsAre DEF Awaits, JobOK
<1>5. job[d].clean
  <2>1. job[d].src \in Area(job[d]) BY <1>4, PathsAre DEF Area, NoPath
  <2> QED BY <1>1, <1>2, <2>1 DEF SharesOK, Awaits
<1>6. ASSUME pc[d] = "rewrite" PROVE place'[leads[t]] = place[leads[t]]
  <2>1. job[d].dst \in Paths /\ job[d].dst \in Seq(Symbols) /\ job[d].dst \in Area(job[d])
    BY <1>2, <1>6, PathsAre DEF JobOK, Area, NoPath
  <2>2. IsPrefix(job[d].dst, place[leads[t]])
    <3>1. IsPrefix(job[d].src, mem[t].path)
          /\ place[leads[t]] = Moved(mem[t].path, job[d].src, job[d].dst)
      BY <1>6 DEF Awaits
    <3>2. IsPrefix(job[d].dst, Moved(mem[t].path, job[d].src, job[d].dst))
      BY <1>3, <1>4, <2>1, <3>1, MovedIs
    <3> QED BY <3>1, <3>2
  <2>3. leads[t] \in Under(job[d].dst) BY <1>1, <2>2 DEF Under
  <2>4. Apart(job[c], job[d].dst) BY <1>1, <1>5, <2>1, CleanIsApart DEF StepOf
  <2> QED BY <1>2, <2>1, <2>3, <2>4, FarStays
<1>7. ASSUME pc[d] = "undo" PROVE place'[leads[t]] = place[leads[t]]
  <2>1. job[d].item \in Items BY <1>2, <1>7 DEF JobOK, Locks
  <2>2. place[leads[t]] \in TrashPlaces BY <1>3, <1>4, <1>7, <2>1, MovedToTrash DEF Awaits
  <2> QED BY <1>1, <1>7, <2>2 DEF StepOf, MovesOwn, Locks
<1> QED BY <1>1, <1>6, <1>7 DEF Awaits

LEMMA StepKeepsShares ==
  ASSUME AllPaths, IInv, Types, Types', ShareInv, NEW c \in Callers, StepOf(c), SharesOwn(c),
         TakesAlong(c), SharesOK(c)'
  PROVE  ShareInv'
<1>1. \A d \in Callers : SharesOK(d)' BY OtherSharesStay
<1>2. ASSUME NEW t \in Shares' \ excused', t \in Shares, mem'[t].path = mem[t].path,
             leads'[t] = leads[t]
      PROVE  leads'[t] \in Items /\ Accounted(t)'
  <2>1. t \in Shares \ excused BY <1>2 DEF StepOf
  <2>2. leads[t] \in Items /\ Accounted(t) BY <2>1 DEF ShareInv
  <2>3. CASE Home(t) /\ place'[leads[t]] = place[leads[t]]
    BY <1>2, <2>2, <2>3 DEF Accounted, Home
  <2>4. CASE Home(t) /\ place'[leads[t]] # place[leads[t]]
    BY <1>2, <2>2, <2>4 DEF TakesAlong, Accounted
  <2>5. ASSUME NEW d \in Callers, Awaits(d, t) PROVE Accounted(t)'
    <3>1. CASE d = c BY <1>2, <2>5, <3>1 DEF TakesAlong
    <3>2. CASE d # c BY <1>2, <2>1, <2>5, <3>2, OthersStillAwait DEF Accounted
    <3> QED BY <3>1, <3>2
  <2> QED BY <1>2, <2>2, <2>3, <2>4, <2>5 DEF Accounted
<1>3. \A t \in Shares' \ excused' : leads'[t] \in Items /\ Accounted(t)'
  BY <1>2 DEF SharesOwn, Accounted
<1> QED BY <1>1, <1>3 DEF ShareInv

(* The step leaves the shares to themselves, and moves nothing but what is *)
(* where it goes to.                                                       *)
LEMMA QuietShares ==
  ASSUME AllPaths, IInv, Types, Types', ShareInv, NEW c \in Callers, StepOf(c),
         UNCHANGED <<mem, leads>>,
         \A i \in Items : place'[i] # place[i] /\ place[i] \in Paths =>
           job[c].dst \in Paths /\ IsPrefix(job[c].dst, place[i]),
         pc[c] \notin {"rewrite", "undo", "unshare"},
         pc'[c] \notin {"rewrite", "undo", "unshare", "share"},
         Active(c)' => /\ job'[c].src = job[c].src /\ job'[c].dst = job[c].dst
                       /\ job'[c].clean = job[c].clean
  PROVE  ShareInv'
<1>1. Active(c) /\ SharesOK(c) /\ excused \subseteq excused' BY DEF StepOf, ShareInv
<1>2. SharesOwn(c) BY DEF SharesOwn, Shares
<1>3. TakesAlong(c)
  <2>1. ASSUME NEW t \in Shares \ excused, Home(t) PROVE place'[leads[t]] = place[leads[t]]
    <3>1. leads[t] \in Items /\ place[leads[t]] \in Paths /\ place[leads[t]] = mem[t].path
      BY <2>1, SharesAre DEF ShareInv, Home
    <3>2. job[c].dst \in Paths => job[c].dst \in Area(job[c]) BY PathsAre DEF Area, NoPath
    <3> QED BY <1>1, <2>1, <3>1, <3>2 DEF SharesOK
  <2>2. \A t : ~ Awaits(c, t) BY DEF Awaits
  <2> QED BY <1>1, <2>1, <2>2 DEF TakesAlong
<1>4. SharesOK(c)' BY <1>1 DEF SharesOK, Area, Shares
<1> QED BY <1>2, <1>3, <1>4, StepKeepsShares

LEMMA QuietEnds ==
  ASSUME AllPaths, IInv, Types, Types', ShareInv, NEW c \in Callers, StepOf(c),
         UNCHANGED <<mem, leads>>, Return(c), pc[c] \notin {"rewrite", "undo", "unshare"},
         \A i \in Items : place'[i] # place[i] /\ place[i] \in Paths =>
           job[c].dst \in Paths /\ IsPrefix(job[c].dst, place[i])
  PROVE  ShareInv'
<1>1. pc'[c] = "done" BY ReturnIs DEF IInv
<1>2. ~ Active(c)' BY <1>1 DEF Active
<1> QED BY <1>1, <1>2, QuietShares

(* Steps that only create.                                                 *)
LEMMA CreationsKeepShares ==
  ASSUME AllPaths, IInv, Types, Types', ShareInv, NEW c \in Callers, StepOf(c), NEW i \in Items,
         \/ MakeFolder(c, i) \/ CreateFile(c, i) \/ CopyTop(c, i)
         \/ \E n \in job[c].left : CopyChild(c, i, n)
  PROVE  ShareInv'
<1>1. Shapes BY DEF IInv
<1>2. /\ UNCHANGED <<mem, leads>> /\ pc[c] \in {"create", "copy", "fill"}
      /\ \E q : CanCreate(i, q) /\ place' = [place EXCEPT ![i] = q]
  BY DEF MakeFolder, CreateFile, CopyTop, CopyChild, CopyOne, storeVars
<1>3. \A k \in Items : place'[k] # place[k] => place[k] \notin Paths
  BY <1>1, <1>2, PlacesDiffer DEF CanCreate, Shapes
<1>4. CASE MakeFolder(c, i) BY <1>2, <1>3, <1>4, QuietEnds DEF MakeFolder
<1>5. CASE CreateFile(c, i) \/ CopyTop(c, i) \/ \E n \in job[c].left : CopyChild(c, i, n)
  <2>1. pc'[c] \in {"write", "fill"}
    BY <1>1, <1>5 DEF CreateFile, CopyTop, CopyChild, CopyOne, Shapes
  <2>2. \/ job' = [job EXCEPT ![c].own = {i}]
        \/ \E left : job' = [job EXCEPT ![c].own = @ \cup {i}, ![c].left = left]
    BY <1>5 DEF CreateFile, CopyTop, CopyChild, CopyOne
  <2>3. /\ job'[c].src = job[c].src /\ job'[c].dst = job[c].dst
        /\ job'[c].clean = job[c].clean
    BY <1>1, <2>2 DEF Shapes, Jobs
  <2> QED BY <1>2, <1>3, <2>1, <2>3, QuietShares
<1> QED BY <1>4, <1>5

(* Steps that end a request, and leave the shares as they are.             *)
LEMMA EndingsKeepShares ==
  ASSUME AllPaths, IInv, Types, Types', ShareInv, NEW c \in Callers, StepOf(c),
         \/ MoveToTrashFails(c) \/ Restore(c) \/ CreateFails(c) \/ WriteFile(c) \/ WriteFails(c)
         \/ \E i \in Items : Publish(c, i)
         \/ PublishFails(c) \/ CopyDone(c) \/ CleanUp(c) \/ CreateShareFails(c)
  PROVE  ShareInv'
<1>1. Shapes /\ JobOK(pc[c], job[c]) BY DEF IInv
<1>2. /\ UNCHANGED <<mem, leads>> /\ Return(c) /\ pc[c] \notin {"rewrite", "undo", "unshare"}
  BY DEF MoveToTrashFails, Restore, CreateFails, WriteFile, WriteFails, Publish, PublishFails,
         CopyDone, CleanUp, CreateShareFails, Answer, storeVars, history
<1>3. \A k \in Items : place'[k] # place[k] /\ place[k] \in Paths =>
        job[c].dst \in Paths /\ IsPrefix(job[c].dst, place[k])
  <2>1. CASE place' = place BY <2>1
  <2>2. \A p \in Paths : IsPrefix(p, p) BY PathsAre, PrefixRefl
  <2>3. CASE Restore(c)
    <3>1. job[c].dst \in Paths /\ job[c].item \in Items BY <1>1, <2>3 DEF JobOK, Restore, Locks
    <3>2. CASE place' = Renamed(TrashPlace(job[c].item), job[c].dst)
      <4>1. \A k \in Items : IsPrefix(TrashPlace(job[c].item), place[k]) => place[k] \notin Paths
        BY <1>1, <3>1, UnderTrash, PlacesDiffer DEF Shapes
      <4>2. \A k \in Items : place'[k] # place[k] =>
              IsPrefix(TrashPlace(job[c].item), place[k]) \/ place[k] = job[c].dst
        BY <3>2 DEF Renamed, Under
      <4> QED BY <2>2, <3>1, <4>1, <4>2
    <3> QED BY <2>1, <2>3, <3>2 DEF Restore
  <2>4. CASE WriteFails(c)
    <3>1. job[c].dst \in Paths BY <1>1, <2>4 DEF JobOK, WriteFails
    <3>2. \A k \in Items : place'[k] # place[k] => place[k] = job[c].dst
      BY <2>4 DEF WriteFails, Removed, At
    <3> QED BY <2>2, <3>1, <3>2
  <2>5. ASSUME NEW i \in Items, Publish(c, i)
        PROVE  \A k \in Items : place'[k] # place[k] /\ place[k] \in Paths =>
                 job[c].dst \in Paths /\ IsPrefix(job[c].dst, place[k])
    <3>1. job[c].dst \in Paths BY <1>1, <2>5 DEF JobOK, Publish
    <3>2. \A k \in Items : place'[k] # place[k] => place[k] = Nowhere \/ place[k] = job[c].dst
      BY <2>5 DEF Publish, Removed, At
    <3> QED BY <2>2, <3>1, <3>2, PlacesDiffer
  <2>6. CASE CleanUp(c)
    <3>1. job[c].dst \in Paths BY <1>1, <2>6 DEF JobOK, CleanUp
    <3> QED BY <2>6, <3>1 DEF CleanUp, Removed, Under
  <2> QED
    BY <2>1, <2>3, <2>4, <2>5, <2>6
       DEF MoveToTrashFails, CreateFails, WriteFile, PublishFails, CopyDone, CreateShareFails, Answer
<1> QED BY <1>2, <1>3, QuietEnds

LEMMA CopyFailsKeepsShares ==
  ASSUME AllPaths, IInv, Types, Types', ShareInv, NEW c \in Callers, StepOf(c), CopyFails(c)
  PROVE  ShareInv'
<1>1. /\ UNCHANGED <<mem, leads, place, job>> /\ pc[c] \in {"copy", "fill"} /\ pc'[c] = "clean"
  BY DEF CopyFails, Goto, storeVars, history, IInv, Shapes
<1> QED BY <1>1, QuietShares

(* Nothing is left at p when what was there went to q.                     *)
LEMMA NothingLeft ==
  ASSUME AllPaths, Shapes, place' \in [Items -> Places], NEW p \in Paths,
         NEW q \in Paths \cup Tops, ~ IsPrefix(p, q), ~ IsPrefix(q, p), place' = Renamed(p, q)
  PROVE  Under(p)' = {}
<1>1. \A i \in Items : place'[i] = IF IsPrefix(p, place[i]) THEN Moved(place[i], p, q)
                                  ELSE IF place[i] = q THEN Gone ELSE place[i]
  BY DEF Renamed, Under, Moved, Store!Rewritten
<1>2. p \in Seq(Symbols) /\ q \in Seq(Symbols) BY PathsAndTops
<1>3. ASSUME NEW i \in Items, IsPrefix(p, place'[i]) PROVE FALSE
  <2>1. place[i] \in Seq(Symbols) /\ place'[i] \in Seq(Symbols) /\ place'[i] \in Paths
    BY <1>3, PlacesAreSequences, UnderPath DEF Shapes
  <2>2. CASE IsPrefix(p, place[i])
    <3>1. place'[i] = Moved(place[i], p, q) BY <1>1, <2>2
    <3>2. IsPrefix(q, Moved(place[i], p, q)) BY <1>2, <2>1, <2>2, MovedIs
    <3> QED BY <1>2, <1>3, <2>1, <3>1, <3>2, PrefixesCompare
  <2>3. CASE ~ IsPrefix(p, place[i]) BY <1>1, <1>3, <2>1, <2>3, PlacesDiffer
  <2> QED BY <2>2, <2>3
<1> QED BY <1>3 DEF Under

LEMMA MoveKeepsShares ==
  ASSUME AllPaths, IInv, Types, Types', ShareInv, NEW c \in Callers, StepOf(c), Move(c)
  PROVE  ShareInv'
<1> DEFINE p == job[c].src
           q == job[c].dst
<1>1. /\ Shapes /\ Shapes' /\ job[c] \in Jobs /\ JobOK(pc[c], job[c]) /\ RequestOK(c)
      /\ SharesOK(c) /\ Active(c) /\ excused \subseteq excused'
  BY DEF IInv, Shapes, ShareInv, StepOf
<1>2. pc[c] = "move" /\ UNCHANGED <<mem, leads, excused>> BY DEF Move, history, storeVars
<1>3. /\ p \in Paths /\ q \in Paths /\ ~ IsPrefix(p, q) /\ p \in Seq(Symbols)
      /\ p \in Area(job[c]) /\ q \in Area(job[c])
  BY <1>1, <1>2, PathsAre DEF JobOK, Area, NoPath
<1>4. CASE ~ RenameWorks(p, q)
  BY <1>2, <1>4, QuietEnds DEF Move
<1>5. CASE RenameWorks(p, q)
  <2>1. place' = Renamed(p, q) /\ job' = job /\ pc'[c] = "rewrite"
    BY <1>1, <1>5 DEF Move, Goto, Shapes
  <2>2. \A i \in Items : place'[i] = IF IsPrefix(p, place[i]) THEN Moved(place[i], p, q)
                                    ELSE IF place[i] = q THEN Gone ELSE place[i]
    BY <2>1 DEF Renamed, Under, Moved, Store!Rewritten
  <2>3. job[c].clean => Under(p)' = {}
    <3>1. ASSUME job[c].clean PROVE ~ IsPrefix(q, p)
      <4>1. Under(q) = {} BY <1>1, <1>2, <3>1 DEF RequestOK, CleanIsAlone
      <4>2. PICK i \in Items : place[i] = p BY <1>5 DEF RenameWorks, Taken, At
      <4> QED BY <4>1, <4>2 DEF Under
    <3>2. place' \in [Items -> Places] BY <1>1 DEF Shapes
    <3> QED BY <1>1, <1>3, <2>1, <3>1, <3>2, NothingLeft
  <2> HIDE DEF p, q
  <2>4. SharesOwn(c) BY <1>2 DEF SharesOwn, Shares
  <2>5. ASSUME NEW t \in Shares \ excused, Home(t), place'[leads[t]] # place[leads[t]]
        PROVE  IsPrefix(p, mem[t].path) /\ place'[leads[t]] = Moved(mem[t].path, p, q)
    <3>1. leads[t] \in Items /\ place[leads[t]] = mem[t].path /\ mem[t].path \in Paths
      BY <2>5, SharesAre DEF ShareInv, Home
    <3>2. ~ (place[leads[t]] = q)
      <4>1. SUFFICES ASSUME mem[t].path = q PROVE FALSE BY <3>1
      <4>2. IsPrefix(q, mem[t].path) BY <1>3, <4>1, PathsAre, PrefixRefl
      <4>3. job[c].clean BY <1>1, <1>3, <2>5, <4>2 DEF SharesOK
      <4> QED BY <1>1, <1>3, <2>5, <4>2, <4>3 DEF SharesOK, q
    <3> QED BY <2>2, <2>5, <3>1, <3>2
  <2>6. TakesAlong(c)
    <3>1. \A t : ~ Awaits(c, t) BY <1>2 DEF Awaits
    <3> QED BY <1>2, <2>1, <2>5, <3>1 DEF TakesAlong, Awaits, p, q
  <2>7. SharesOK(c)' BY <1>1, <1>2, <2>1, <2>3 DEF SharesOK, Shares, Area, p
  <2> QED BY <2>4, <2>6, <2>7, StepKeepsShares
<1> QED BY <1>4, <1>5

LEMMA MoveToTrashKeepsShares ==
  ASSUME AllPaths, IInv, Types, Types', ShareInv, NEW c \in Callers, StepOf(c),
         NEW i \in Items, NEW ok \in BOOLEAN, MoveToTrash(c, i, ok)
  PROVE  ShareInv'
<1> DEFINE p == job[c].src
           q == TrashPlace(i)
<1>1. /\ Shapes /\ Shapes' /\ job[c] \in Jobs /\ JobOK(pc[c], job[c])
      /\ SharesOK(c) /\ Active(c) /\ excused \subseteq excused'
  BY DEF IInv, Shapes, ShareInv, StepOf
<1>2. /\ pc[c] = "trash" /\ place' = Renamed(p, q) /\ UNCHANGED <<mem, leads, excused>>
      /\ pc'[c] \in {"undo", "unshare"} /\ job' = [job EXCEPT ![c].item = i]
  BY <1>1 DEF MoveToTrash, history, storeVars, Shapes
<1>3. /\ job'[c].src = p /\ job'[c].dst = job[c].dst /\ job'[c].item = i
      /\ job'[c].clean = job[c].clean
  BY <1>1, <1>2 DEF Shapes, Jobs
<1>4. p \in Paths /\ p \in Area(job[c]) BY <1>1, <1>2, PathsAre DEF JobOK, Area, NoPath
<1>5. q \in Tops /\ q \in TrashPlaces /\ q \in Places /\ q \notin Paths /\ p \in Places
  BY <1>4, TrashTop, PlacesDiffer DEF Tops, Places
<1>6. \A k \in Items : place'[k] = IF IsPrefix(p, place[k]) THEN Moved(place[k], p, q)
                                  ELSE IF place[k] = q THEN Gone ELSE place[k]
  BY <1>2 DEF Renamed, Under, Moved, Store!Rewritten
<1>7. Under(p)' = {}
  <2>1. ~ IsPrefix(p, q) /\ ~ IsPrefix(q, p) BY <1>4, <1>5, UnderPath, UnderTrash, PlacesDiffer
  <2>2. place' \in [Items -> Places] BY <1>1 DEF Shapes
  <2> QED BY <1>1, <1>2, <1>4, <1>5, <2>1, <2>2, NothingLeft
<1> HIDE DEF p, q
<1>8. SharesOwn(c) BY <1>2 DEF SharesOwn, Shares
<1>9. ASSUME NEW t \in Shares \ excused, Home(t), place'[leads[t]] # place[leads[t]]
      PROVE  IsPrefix(p, mem[t].path) /\ place'[leads[t]] = Moved(mem[t].path, p, q)
  <2>1. leads[t] \in Items /\ place[leads[t]] = mem[t].path /\ mem[t].path \in Paths
    BY <1>9, SharesAre DEF ShareInv, Home
  <2> QED BY <1>5, <1>6, <1>9, <2>1
<1>10. TakesAlong(c)
  <2>1. \A t : ~ Awaits(c, t) BY <1>2 DEF Awaits
  <2> QED BY <1>2, <1>3, <1>9, <2>1 DEF TakesAlong, Awaits, q
<1>11. SharesOK(c)' BY <1>1, <1>2, <1>3, <1>7 DEF SharesOK, Shares, Area, p
<1> QED BY <1>8, <1>10, <1>11, StepKeepsShares

LEMMA UndoTrashKeepsShares ==
  ASSUME AllPaths, IInv, Types, Types', ShareInv, NEW c \in Callers, StepOf(c), UndoTrash(c)
  PROVE  ShareInv'
<1> DEFINE p == job[c].src
           q == TrashPlace(job[c].item)
<1>1. /\ Shapes /\ JobOK(pc[c], job[c]) /\ RequestOK(c) /\ SharesOK(c) /\ Active(c)
  BY DEF IInv, ShareInv, StepOf
<1>2. /\ pc[c] = "undo" /\ Return(c) /\ UNCHANGED <<mem, leads, excused>>
      /\ place' = IF RenameWorks(q, p) THEN Renamed(q, p) ELSE place
  BY DEF UndoTrash, history, storeVars
<1>3. /\ p \in Paths /\ p \in Area(job[c]) /\ job[c].item \in Items
      /\ p \in Seq(Symbols) /\ q \in Seq(Symbols) /\ q \in TrashPlaces
  BY <1>1, <1>2, PathsAre, TrashTop DEF JobOK, Locks, Area, NoPath
<1>4. \A k \in Items : IsPrefix(q, place[k]) => place[k] \notin Paths
  BY <1>1, <1>3, UnderTrash, PlacesDiffer DEF Shapes
<1>5. job[c].clean => RenameWorks(q, p) /\ Under(p) = {}
  <2>1. Taken(q) /\ q # p BY <1>1, <1>2, <1>3, PlacesDiffer DEF RequestOK, InTop, Taken, At
  <2>2. job[c].clean => Under(p) = {} /\ HasParent(p)
    BY <1>1, <1>2 DEF RequestOK, CleanIsAlone
  <2>3. job[c].clean => ~ Taken(p) BY <1>3, <2>2, PrefixRefl DEF Taken, At, Under
  <2> QED BY <2>1, <2>2, <2>3 DEF RenameWorks
<1>6. ~ Active(c)' BY <1>1, <1>2, ReturnIs DEF Active
<1>7. SharesOK(c)' BY <1>6 DEF SharesOK
<1>8. SharesOwn(c) BY <1>2 DEF SharesOwn, Shares
<1>9. TakesAlong(c)
  <2>1. ASSUME NEW t \in Shares \ excused, Home(t) PROVE place'[leads[t]] = place[leads[t]]
    <3>1. leads[t] \in Items /\ place[leads[t]] = mem[t].path /\ mem[t].path \in Paths
      BY <2>1, SharesAre DEF ShareInv, Home
    <3>2. ASSUME place[leads[t]] = p PROVE FALSE
      <4>1. IsPrefix(p, mem[t].path) BY <1>3, <3>1, <3>2, PrefixRefl
      <4>2. job[c].clean BY <1>1, <1>3, <2>1, <4>1 DEF SharesOK
      <4> QED BY <1>5, <3>1, <4>1, <4>2 DEF Under
    <3> QED BY <1>2, <1>4, <3>1, <3>2 DEF Renamed, Under
  <2>2. ASSUME NEW t \in Shares \ excused, Awaits(c, t) PROVE Home(t)'
    <3>1. /\ leads[t] \in Items /\ IsPrefix(p, mem[t].path) /\ mem[t].path \in Places
          /\ mem[t].path \in Seq(Symbols) /\ place[leads[t]] = Moved(mem[t].path, p, q)
      BY <1>2, <2>2, SharesAre DEF ShareInv, Awaits
    <3>2. place' = Renamed(q, p) BY <1>1, <1>2, <1>3, <1>5, <2>2, <3>1 DEF SharesOK
    <3>3. IsPrefix(q, place[leads[t]]) BY <1>3, <3>1, MovedIs
    <3>4. place'[leads[t]] = Moved(place[leads[t]], q, p)
      BY <3>1, <3>2, <3>3 DEF Renamed, Under, Moved, Store!Rewritten
    <3>5. Moved(Moved(mem[t].path, p, q), q, p) = mem[t].path BY <1>3, <3>1, MovedBack
    <3> QED BY <1>2, <3>1, <3>4, <3>5 DEF Home
  <2> QED BY <1>2, <2>1, <2>2 DEF TakesAlong, Accounted
<1> QED BY <1>7, <1>8, <1>9, StepKeepsShares

LEMMA RewriteSharesKeepsShares ==
  ASSUME AllPaths, IInv, Types, Types', ShareInv, NEW c \in Callers, StepOf(c),
         NEW ok \in BOOLEAN, RewriteShares(c, ok)
  PROVE  ShareInv'
<1> DEFINE p == job[c].src
           q == job[c].dst
<1>1. /\ Shapes /\ JobOK(pc[c], job[c]) /\ SharesOK(c) /\ Active(c) /\ mem \in Records
  BY DEF IInv, ShareInv, StepOf, Types, StoreTypes
<1>2. /\ pc[c] = "rewrite" /\ Return(c) /\ UNCHANGED <<place, leads, excused>>
      /\ \/ SharesUnder(p) = {} /\ mem' = mem
         \/ Store!RewritePathPrefix(p, q, ok)
  BY DEF RewriteShares, history, storeVars
<1>3. /\ p \in Paths /\ q \in Paths /\ p \in Seq(Symbols) /\ q \in Seq(Symbols)
      /\ p \in Area(job[c]) /\ q \in Area(job[c])
  BY <1>1, <1>2, PathsAre DEF JobOK, Area, NoPath
<1>4. ~ Active(c)' BY <1>1, <1>2, ReturnIs DEF Active
<1>5. SharesOK(c)' BY <1>4 DEF SharesOK
<1>6. CASE SharesUnder(p) = {} /\ mem' = mem
  <2>1. SharesOwn(c) BY <1>2, <1>6 DEF SharesOwn, Shares
  <2>2. \A t \in Shares : ~ Awaits(c, t) BY <1>6 DEF Awaits, SharesUnder, Shares
  <2>3. TakesAlong(c) BY <1>2, <2>2 DEF TakesAlong
  <2> QED BY <1>5, <2>1, <2>3, StepKeepsShares
<1>7. CASE Store!RewritePathPrefix(p, q, ok)
  <2>1. PICK under : under = {t \in Store!Live(mem) : IsPrefix(p, mem[t].path)} OBVIOUS
  <2>2. mem' = [t \in Tokens |->
                  IF t \in under
                  THEN [mem[t] EXCEPT !.path = Store!Rewritten(@, p, q)] ELSE mem[t]]
    <3>1. under = {t \in Store!Live(mem) : Store!IsPrefix(p, mem[t].path)}
      BY <2>1 DEF Store!IsPrefix, IsPrefix
    <3> QED BY <1>7, <3>1 DEF Store!RewritePathPrefix
  <2>3. ASSUME NEW t \in under
        PROVE  /\ t \in Shares /\ t \in Tokens /\ IsPrefix(p, mem[t].path)
               /\ mem'[t].path = Moved(mem[t].path, p, q)
    <3>1. t \in Shares /\ t \in Tokens /\ IsPrefix(p, mem[t].path) /\ mem[t] \in Store!Share
      BY <1>1, <2>1, <2>3 DEF Shares, Store!Live, Records
    <3>2. mem'[t] = [mem[t] EXCEPT !.path = Moved(mem[t].path, p, q)]
      BY <2>2, <2>3, <3>1 DEF Moved, Store!Rewritten
    <3> QED BY <3>1, <3>2 DEF Store!Share
  <2>4. \A t \in Shares' : t \in under \/ (t \in Shares /\ mem'[t] = mem[t])
    BY <2>2 DEF Shares, Store!Live
  <2> HIDE DEF p, q
  <2>5. ASSUME NEW t \in under, t \notin excused PROVE job[c].clean /\ leads[t] \in Items /\ Home(t)'
    <3>1. /\ t \in Shares /\ leads[t] \in Items /\ Accounted(t) /\ IsPrefix(p, mem[t].path)
          /\ mem[t].path \in Seq(Symbols)
      BY <2>3, <2>5, SharesAre DEF ShareInv
    <3>2. job[c].clean BY <1>1, <1>3, <2>5, <3>1 DEF SharesOK
    <3>3. ~ Home(t)
      <4>1. Under(p) = {} BY <1>1, <1>2, <3>2 DEF SharesOK, p
      <4> QED BY <3>1, <4>1 DEF Home, Under
    <3>4. ASSUME NEW d \in Callers \ {c}, Awaits(d, t) PROVE FALSE
      <4>1. Active(d) /\ IsPrefix(job[d].src, mem[t].path) BY <3>4 DEF Awaits, Active
      <4>2. job[d].src \in Paths BY <3>4 DEF Awaits, IInv, JobOK
      <4>3. job[d].src \in Seq(Symbols) /\ job[d].src \in Area(job[d])
        BY <4>2, PathsAre DEF Area, NoPath
      <4>4. IsPrefix(p, job[d].src) \/ IsPrefix(job[d].src, p)
        BY <1>3, <3>1, <4>1, <4>3, PrefixesCompare
      <4>5. Overlap(job[c], job[d]) BY <1>3, <4>3, <4>4 DEF Overlap
      <4> QED BY <1>1, <3>2, <4>1, <4>5 DEF IInv, RivalsAreDirty
    <3>5. Awaits(c, t) BY <3>1, <3>3, <3>4 DEF Accounted
    <3>6. place[leads[t]] = Moved(mem[t].path, p, q) BY <1>2, <3>5 DEF Awaits, p, q
    <3> QED BY <1>2, <2>3, <3>1, <3>2, <3>6 DEF Home
  <2>6. SharesOwn(c)
    <3>1. ASSUME NEW t \in under
          PROVE  /\ IsPrefix(q, mem'[t].path)
                 /\ ~ job[c].clean => t \in excused'
                 /\ t \notin excused' => leads'[t] \in Items /\ Home(t)'
      <4>1. t \in Shares /\ IsPrefix(p, mem[t].path) /\ mem'[t].path = Moved(mem[t].path, p, q)
        BY <2>3, <3>1
      <4>2. mem[t].path \in Seq(Symbols) BY <4>1, SharesAre
      <4>3. IsPrefix(q, mem'[t].path) BY <1>3, <4>1, <4>2, MovedIs
      <4> QED BY <1>2, <2>5, <4>3
    <3> QED BY <1>2, <1>3, <2>4, <3>1 DEF SharesOwn
  <2>7. TakesAlong(c)
    <3>1. ASSUME NEW t \in Shares \ excused, Awaits(c, t) PROVE Home(t)'
      <4>1. t \in under BY <2>1, <3>1 DEF Awaits, Shares, p
      <4> QED BY <2>5, <3>1, <4>1
    <3> QED BY <1>2, <3>1 DEF TakesAlong, Accounted
  <2> QED BY <1>5, <2>6, <2>7, StepKeepsShares
<1> QED BY <1>2, <1>6, <1>7

LEMMA RemoveSharesKeepsShares ==
  ASSUME AllPaths, IInv, Types, Types', ShareInv, NEW c \in Callers, StepOf(c),
         NEW ok \in BOOLEAN, RemoveShares(c, ok)
  PROVE  ShareInv'
<1>1. Shapes /\ Return(c) /\ UNCHANGED <<place, leads, excused>>
  BY DEF RemoveShares, history, IInv
<1>2. SharesOK(c)' BY <1>1, ReturnIs DEF Active, SharesOK
<1>3. \A t \in Shares' : /\ t \in Shares /\ mem'[t] = mem[t]
                         /\ ~ IsPrefix(job[c].src, mem[t].path)
  <2>1. CASE SharesUnder(job[c].src) = {} /\ mem' = mem
    BY <2>1 DEF SharesUnder, Shares
  <2>2. CASE Store!RemoveByPathPrefix(job[c].src, ok)
    <3>1. PICK under : under = {t \in Store!Live(mem) : IsPrefix(job[c].src, mem[t].path)} OBVIOUS
    <3>2. mem' = Store!Without(mem, under)
      <4>1. under = {t \in Store!Live(mem) : Store!IsPrefix(job[c].src, mem[t].path)}
        BY <3>1 DEF Store!IsPrefix, IsPrefix
      <4> QED BY <2>2, <4>1 DEF Store!RemoveByPathPrefix
    <3> QED BY <3>1, <3>2 DEF Shares, Store!Live, Store!Without
  <2> QED BY <2>1, <2>2 DEF RemoveShares, storeVars
<1>4. SharesOwn(c) BY <1>1, <1>3 DEF SharesOwn
<1>5. TakesAlong(c) BY <1>1, <1>3 DEF TakesAlong, Awaits
<1> QED BY <1>2, <1>4, <1>5, StepKeepsShares

LEMMA CreateShareKeepsShares ==
  ASSUME AllPaths, IInv, Types, Types', ShareInv, NEW c \in Callers, StepOf(c),
         NEW t \in Tokens, NEW ok \in BOOLEAN, CreateShare(c, t, ok)
  PROVE  ShareInv'
<1>1. /\ Shapes /\ JobOK(pc[c], job[c]) /\ SharesOK(c) /\ Active(c) /\ mem \in Records
      /\ leads \in [Tokens -> Items \cup {Nobody}]
  BY DEF IInv, ShareInv, StepOf, Types, StoreTypes
<1>2. /\ pc[c] = "share" /\ Return(c) /\ place' = place /\ Made(c, {t})
      /\ leads' = [leads EXCEPT ![t] = job[c].item]
      /\ mem' = [Store!PruneLocked(mem) EXCEPT ![t] = Store!NewShare(job[c].src)]
  BY DEF CreateShare, Store!Create
<1>3. SharesOK(c)' BY <1>1, <1>2, ReturnIs DEF Active, SharesOK
<1>4. \A u \in Shares' \ {t} : u \in Shares /\ mem'[u] = mem[u] /\ leads'[u] = leads[u]
  BY <1>1, <1>2 DEF Shares, Store!Live, Store!PruneLocked
<1>5. mem'[t].path = job[c].src /\ leads'[t] = job[c].item
  <2>1. mem'[t] = Store!NewShare(job[c].src)
    BY <1>2 DEF Store!PruneLocked
  <2> QED BY <1>1, <1>2, <2>1 DEF Store!NewShare
<1>6. SharesOwn(c)
  <2>1. job[c].src \in Area(job[c]) /\ IsPrefix(job[c].src, mem'[t].path)
    BY <1>1, <1>2, <1>5, PathsAre, PrefixRefl DEF JobOK, Area, NoPath
  <2>2. ~ job[c].clean => t \in excused' BY <1>2 DEF Made
  <2>3. job[c].clean => leads'[t] \in Items /\ Home(t)' BY <1>1, <1>2, <1>5 DEF SharesOK, Home
  <2> QED BY <1>4, <2>1, <2>2, <2>3 DEF SharesOwn
<1>7. TakesAlong(c) BY <1>2 DEF TakesAlong, Awaits
<1> QED BY <1>3, <1>6, <1>7, StepKeepsShares

(* Where an item is on the way of a handler to the store.                  *)
LEMMA AwaitsIs ==
  ASSUME AllPaths, IInv, Types, NEW d \in Callers, NEW t \in Shares, Awaits(d, t)
  PROVE  /\ Active(d) /\ job[d].src \in Paths /\ job[d].src \in Seq(Symbols)
         /\ job[d].src \in Area(job[d]) /\ IsPrefix(job[d].src, mem[t].path)
         /\ pc[d] = "rewrite" => place[leads[t]] \in Paths
         /\ pc[d] = "undo" => place[leads[t]] \in TrashPlaces
<1>1. JobOK(pc[d], job[d]) /\ mem[t].path \in Places BY SharesAre DEF IInv
<1>2. job[d].src \in Paths BY <1>1 DEF Awaits, JobOK
<1>3. job[d].src \in Seq(Symbols) /\ job[d].src \in Area(job[d])
  BY <1>2, PathsAre DEF Area, NoPath
<1>4. pc[d] = "rewrite" => place[leads[t]] \in Paths
  <2>1. pc[d] = "rewrite" => job[d].dst \in Paths BY <1>1 DEF JobOK
  <2> QED BY <1>1, <1>2, <2>1, MovedToPath DEF Awaits
<1>5. pc[d] = "undo" => place[leads[t]] \in TrashPlaces
  <2>1. pc[d] = "undo" => job[d].item \in Items BY <1>1 DEF JobOK, Locks
  <2> QED BY <1>1, <1>2, <2>1, MovedToTrash DEF Awaits
<1> QED BY <1>2, <1>3, <1>4, <1>5 DEF Awaits, Active

LEMMA BeginKeepsShares ==
  ASSUME AllPaths, IInv, Types, ShareInv, NEW c \in Callers, BeginOf(c)
  PROVE  ShareInv'
<1>0. PICK s, j : Beginning(c, s, j) BY DEF BeginOf
<1> DEFINE rivals == {d \in Callers : pc[d] \notin {"new", "done"} /\ Overlap(j, job[d])}
<1>1. /\ pc[c] = "new" /\ pc' = [pc EXCEPT ![c] = s]
      /\ mem' = mem /\ leads' = leads /\ excused \subseteq excused'
      /\ rivals # {} => Touched(j) \subseteq excused'
      /\ \A d \in rivals : Touched(job[d]) \subseteq excused'
  BY <1>0 DEF Beginning, Begin, storeVars
<1>2. job' = [d \in Callers |->
                IF d = c THEN (IF rivals = {} THEN j ELSE [j EXCEPT !.clean = FALSE])
                ELSE IF d \in rivals THEN [job[d] EXCEPT !.clean = FALSE] ELSE job[d]]
  BY <1>0 DEF Beginning, Begin
<1>3. \A d \in Callers : Active(d) /\ Overlap(j, job[d]) => d \in rivals BY DEF Active
<1> HIDE DEF rivals
<1>4. /\ Shapes /\ \A d \in Callers : job[d] \in Jobs /\ JobOK(pc[d], job[d]) /\ SharesOK(d)
      /\ j \in Jobs /\ j.clean = TRUE /\ JobOK(s, j)
      /\ s \notin {"new", "done", "rewrite", "undo", "unshare"}
  BY <1>0 DEF IInv, Shapes, ShareInv, Beginning
<1>5. \A k \in Jobs : [k EXCEPT !.clean = FALSE] \in Jobs /\ Same([k EXCEPT !.clean = FALSE], k)
                      /\ Same(k, k) /\ ~ [k EXCEPT !.clean = FALSE].clean
  BY DEF Jobs, Same
<1>6. /\ pc'[c] = s /\ Same(job'[c], j)
      /\ job'[c].clean <=> rivals = {}
  BY <1>1, <1>2, <1>4, <1>5 DEF Shapes
<1>7. ASSUME NEW d \in Callers \ {c}
      PROVE  /\ pc'[d] = pc[d] /\ Same(job'[d], job[d])
             /\ d \notin rivals => job'[d] = job[d]
             /\ job'[d].clean <=> d \notin rivals /\ job[d].clean
  BY <1>1, <1>2, <1>4, <1>5 DEF Shapes
<1>8. \A k, m : Same(k, m) => Area(k) = Area(m) BY DEF Same, Area
<1>9. \A a \in Area(j) : a \in Paths /\ a \in Seq(Symbols) BY <1>4, AreaIs
<1>10. \A i \in Items : place[i] # Nowhere => place'[i] = place[i]
  BY <1>0 DEF Beginning
<1>11. Shares' = Shares BY <1>1 DEF Shares
<1>12. ASSUME NEW t \in Shares' \ excused' PROVE leads'[t] \in Items /\ Accounted(t)'
  <2>1. /\ t \in Shares \ excused /\ leads[t] \in Items /\ Accounted(t)
        /\ mem[t].path # Nowhere
    BY <1>1, <1>11, <1>12, SharesAre DEF ShareInv
  <2>2. CASE Home(t) BY <1>1, <1>10, <2>1, <2>2 DEF Home, Accounted
  <2>3. ASSUME NEW d \in Callers, Awaits(d, t) PROVE Awaits(d, t)'
    <3>1. d # c BY <1>1, <2>3 DEF Awaits
    <3>2. pc[d] \in {"rewrite", "undo"} => place'[leads[t]] = place[leads[t]]
      BY <1>10, <2>1, <2>3, AwaitsIs, PlacesDiffer
    <3> QED BY <1>1, <1>7, <2>3, <3>1, <3>2 DEF Awaits, Same
  <2> QED BY <1>1, <2>1, <2>2, <2>3 DEF Accounted
<1>13. SharesOK(c)'
  <2>1. ASSUME rivals # {}, NEW t \in Shares, NEW a \in Area(j), IsPrefix(a, mem[t].path)
        PROVE  t \in excused'
    BY <1>1, <2>1 DEF Touched, Shares
  <2>2. ASSUME rivals = {}, j.dst \in Paths, NEW t \in Shares \ excused,
               IsPrefix(j.dst, mem[t].path)
        PROVE  FALSE
    <3>1. leads[t] \in Items /\ Accounted(t) /\ mem[t].path \in Seq(Symbols)
      BY <2>2, SharesAre DEF ShareInv
    <3>2. ~ Home(t) BY <1>0, <2>2, <3>1 DEF Beginning, Home, Under
    <3>3. PICK d \in Callers : Awaits(d, t) BY <3>1, <3>2 DEF Accounted
    <3>4. j.dst \in Area(j) /\ j.dst \in Seq(Symbols) BY <2>2, PathsAre DEF Area, NoPath
    <3>5. /\ Active(d) /\ job[d].src \in Seq(Symbols)
          /\ job[d].src \in Area(job[d]) /\ IsPrefix(job[d].src, mem[t].path)
      BY <2>2, <3>3, AwaitsIs
    <3>6. IsPrefix(j.dst, job[d].src) \/ IsPrefix(job[d].src, j.dst)
      BY <2>2, <3>1, <3>4, <3>5, PrefixesCompare
    <3>7. Overlap(j, job[d]) BY <3>4, <3>5, <3>6 DEF Overlap
    <3> QED BY <1>3, <2>2, <3>5, <3>7
  <2>3. s = "share" => j.item \in Items /\ place'[j.item] = j.src
    <3>1. s = "share" => j.item \in Items /\ place[j.item] = j.src /\ j.src \in Paths
      BY <1>0, <1>4 DEF Beginning, JobOK
    <3> QED BY <1>10, <3>1, PlacesDiffer
  <2>4. Area(job'[c]) = Area(j) /\ job'[c].dst = j.dst /\ job'[c].src = j.src /\ job'[c].item = j.item
    BY <1>6, <1>8 DEF Same
  <2>5. ~ job'[c].clean => \A t \in Shares' : \A a \in Area(job'[c]) :
                             IsPrefix(a, mem'[t].path) => t \in excused'
    BY <1>1, <1>6, <1>11, <2>1, <2>4
  <2>6. job'[c].clean /\ job'[c].dst \in Paths =>
          \A t \in Shares' \ excused' : ~ IsPrefix(job'[c].dst, mem'[t].path)
    BY <1>1, <1>6, <1>11, <2>2, <2>4
  <2> QED BY <1>4, <1>6, <2>3, <2>4, <2>5, <2>6 DEF SharesOK
<1>14. ASSUME NEW d \in Callers \ {c} PROVE SharesOK(d)'
  <2>1. SUFFICES ASSUME Active(d) PROVE SharesOK(d)' BY <1>7 DEF SharesOK, Active
  <2>2. /\ Area(job'[d]) = Area(job[d]) /\ job'[d].dst = job[d].dst /\ job'[d].src = job[d].src
        /\ job'[d].item = job[d].item /\ pc'[d] = pc[d]
    BY <1>7, <1>8 DEF Same
  <2>3. SharesOK(d) /\ JobOK(pc[d], job[d]) BY <1>4
  <2>4. ~ job'[d].clean => \A t \in Shares' : \A a \in Area(job'[d]) :
                             IsPrefix(a, mem'[t].path) => t \in excused'
    <3>1. CASE d \in rivals
      <4>1. ASSUME NEW t \in Shares, NEW a \in Area(job[d]), IsPrefix(a, mem[t].path)
            PROVE  t \in excused'
        BY <1>1, <3>1, <4>1 DEF Touched, Shares
      <4> QED BY <1>1, <1>11, <2>2, <4>1
    <3>2. CASE d \notin rivals
      BY <1>1, <1>7, <1>11, <2>1, <2>2, <2>3, <3>2 DEF SharesOK
    <3> QED BY <3>1, <3>2
  <2>5. job'[d].clean /\ job'[d].dst \in Paths =>
          \A t \in Shares' \ excused' : ~ IsPrefix(job'[d].dst, mem'[t].path)
    BY <1>1, <1>7, <1>11, <2>1, <2>2, <2>3 DEF SharesOK
  <2>6. ASSUME job'[d].clean, pc[d] \in {"rewrite", "undo", "unshare"}
        PROVE  Under(job[d].src)' = {}
    <3>1. PICK p : p = job[d].src OBVIOUS
    <3>2. d \notin rivals /\ Under(p) = {} /\ p \in Paths
      BY <1>7, <2>1, <2>3, <2>6, <3>1 DEF SharesOK, JobOK
    <3>3. p \in Seq(Symbols) /\ p \in Area(job[d]) BY <3>1, <3>2, PathsAre DEF Area, NoPath
    <3>4. ASSUME NEW i \in Items, IsPrefix(p, place'[i]) PROVE FALSE
      <4>1. place'[i] # place[i] BY <3>2, <3>4 DEF Under
      <4>2. place'[i] \in Paths /\ j.dst \in Paths /\ IsPrefix(place'[i], j.dst)
        BY <1>0, <4>1 DEF Beginning
      <4>3. place'[i] \in Seq(Symbols) /\ j.dst \in Seq(Symbols) /\ j.dst \in Area(j)
        BY <4>2, PathsAre DEF Area, NoPath
      <4>4. IsPrefix(p, j.dst) BY <3>3, <3>4, <4>2, <4>3, PrefixTrans
      <4>5. Overlap(j, job[d]) BY <3>3, <4>3, <4>4 DEF Overlap
      <4> QED BY <1>3, <2>1, <3>2, <4>5
    <3>5. Under(p)' = {} BY <3>4 DEF Under
    <3>6. job'[d].src = p BY <2>2, <3>1
    <3> QED BY <2>2, <3>5, <3>6 DEF Under
  <2>7. job'[d].clean /\ pc[d] = "share" =>
          job[d].item \in Items /\ place'[job[d].item] = job[d].src
    <3>1. job'[d].clean /\ pc[d] = "share" =>
            /\ job[d].item \in Items /\ place[job[d].item] = job[d].src /\ job[d].src \in Paths
      BY <1>7, <2>1, <2>3 DEF SharesOK, JobOK
    <3> QED BY <1>10, <3>1, PlacesDiffer
  <2> QED BY <2>2, <2>4, <2>5, <2>6, <2>7 DEF SharesOK
<1> QED BY <1>12, <1>13, <1>14 DEF ShareInv

LEMMA RequestKeepsShares ==
  ASSUME AllPaths, IInv, Types, ShareInv, NEW c \in Callers, Step(c)
  PROVE  ShareInv'
<1>0. Types' BY StepKeepsTypes
<1>1. CASE \/ \E p, q \in Paths : BeginRename(c, p, q)
           \/ \E p, q \in Paths : BeginMove(c, p, q)
           \/ \E p \in Paths : BeginDelete(c, p)
           \/ \E i \in Items, k \in Folders \cup {Nobody} : BeginRestore(c, i, k)
           \/ \E q \in Paths : BeginCreate(c, q)
           \/ \E q \in Paths : BeginPublish(c, q)
           \/ \E p, q \in Paths : CopyTo(c, p, q) /\ UNCHANGED <<place, from>>
           \/ \E p \in Paths : BeginShare(c, p)
  <2>1. BeginOf(c)
    BY <1>1, RenameBegins, MoveBegins, DeleteBegins, RestoreBegins, CreateBegins, PublishBegins,
       CopyBegins, ShareBegins
  <2> QED BY <2>1, BeginKeepsShares
<1>2. CASE Move(c) BY <1>0, <1>2, MoveKeeps, MoveKeepsShares
<1>3. CASE \E ok \in BOOLEAN : RewriteShares(c, ok)
  BY <1>0, <1>3, OnlyReturns, RewriteSharesKeepsShares
<1>4. ASSUME NEW i \in Items, NEW ok \in BOOLEAN, MoveToTrash(c, i, ok) PROVE ShareInv'
  BY <1>0, <1>4, MoveToTrashKeeps, MoveToTrashKeepsShares
<1>5. CASE UndoTrash(c) BY <1>0, <1>5, UndoTrashKeeps, UndoTrashKeepsShares
<1>6. CASE \E ok \in BOOLEAN : RemoveShares(c, ok)
  BY <1>0, <1>6, OnlyReturns, RemoveSharesKeepsShares
<1>7. ASSUME NEW i \in Items,
             \/ MakeFolder(c, i) \/ CreateFile(c, i) \/ CopyTop(c, i)
             \/ \E n \in job[c].left : CopyChild(c, i, n)
      PROVE  ShareInv'
  <2>1. StepOf(c)
    BY <1>7, MakeFolderKeeps, CreateFileKeeps, CopyTopKeeps, CopyChildKeeps
  <2> QED BY <1>0, <1>7, <2>1, CreationsKeepShares
<1>8. CASE \/ MoveToTrashFails(c) \/ Restore(c) \/ CreateFails(c) \/ WriteFile(c) \/ WriteFails(c)
           \/ \E i \in Items : Publish(c, i)
           \/ PublishFails(c) \/ CopyDone(c) \/ CleanUp(c) \/ CreateShareFails(c)
  <2>1. StepOf(c)
    BY <1>8, OnlyReturns, RestoreKeeps, AnswerKeeps, WriteFailsKeeps, PublishKeeps, CleanUpKeeps
       DEF WriteFile, CopyDone
  <2> QED BY <1>0, <1>8, <2>1, EndingsKeepShares
<1>9. CASE CopyFails(c) BY <1>0, <1>9, CopyFailsKeeps, CopyFailsKeepsShares
<1>10. ASSUME NEW t \in Tokens, NEW ok \in BOOLEAN, CreateShare(c, t, ok) PROVE ShareInv'
  BY <1>0, <1>10, OnlyReturns, CreateShareKeepsShares
<1> QED
  BY <1>1, <1>2, <1>3, <1>4, <1>5, <1>6, <1>7, <1>8, <1>9, <1>10
     DEF Step, BeginCopy, BeginDuplicate, CopyTo

(* A purge, and a share that is revoked: what is left stays as it is, but  *)
(* for what was in the trash.                                              *)
LEMMA ShareInvStays ==
  ASSUME AllPaths, IInv, Types, ShareInv, UNCHANGED <<pc, job, excused, leads>>,
         \A t \in Shares' : t \in Shares /\ mem'[t] = mem[t],
         \A i \in Items : place'[i] # place[i] =>
           place[i] \in TrashPlaces /\ place'[i] = Gone /\ ~ TrashLocked
  PROVE  ShareInv'
<1>1. \A d \in Callers : JobOK(pc[d], job[d]) /\ SharesOK(d) BY DEF IInv, ShareInv
<1>2. ASSUME NEW t \in Shares' \ excused' PROVE leads'[t] \in Items /\ Accounted(t)'
  <2>1. /\ t \in Shares /\ mem'[t] = mem[t] /\ leads[t] \in Items /\ Accounted(t)
        /\ mem[t].path \in Paths
    BY <1>2, SharesAre DEF ShareInv
  <2>2. CASE Home(t) BY <2>1, <2>2, PlacesDiffer DEF Home, Accounted
  <2>3. ASSUME NEW d \in Callers, Awaits(d, t) PROVE Awaits(d, t)'
    <3>1. pc[d] \in {"rewrite", "undo"} => place'[leads[t]] = place[leads[t]]
      BY <2>1, <2>3, AwaitsIs, PlacesDiffer DEF TrashLocked
    <3> QED BY <2>1, <2>3, <3>1 DEF Awaits
  <2> QED BY <2>1, <2>2, <2>3 DEF Accounted
<1>3. ASSUME NEW d \in Callers PROVE SharesOK(d)'
  <2>1. ASSUME NEW p \in Paths PROVE Under(p)' \subseteq Under(p)
    <3>1. ~ IsPrefix(p, Gone) BY UnderPath, PlacesDiffer DEF Places
    <3> QED BY <3>1 DEF Under
  <2>2. pc[d] \in {"rewrite", "undo", "unshare", "share"} => job[d].src \in Paths
    BY <1>1 DEF JobOK
  <2>3. job[d].clean /\ pc[d] \in {"rewrite", "undo", "unshare"} /\ Active(d) =>
          Under(job[d].src)' = {}
    <3>1. PICK p : p = job[d].src OBVIOUS
    <3>2. job[d].clean /\ pc[d] \in {"rewrite", "undo", "unshare"} /\ Active(d) => Under(p)' = {}
      BY <1>1, <2>1, <2>2, <3>1 DEF SharesOK
    <3>3. job'[d].src = p BY <3>1
    <3> QED BY <3>2, <3>3 DEF Under
  <2>4. job[d].clean /\ pc[d] = "share" /\ Active(d) =>
          job[d].item \in Items /\ place'[job[d].item] = job[d].src
    BY <1>1, <2>2, PlacesDiffer DEF SharesOK
  <2>5. Active(d)' <=> Active(d) BY DEF Active
  <2>6. Area(job[d])' = Area(job[d]) BY DEF Area
  <2>7. Active(d) /\ ~ job[d].clean => \A t \in Shares' : \A a \in Area(job[d]) :
                                         IsPrefix(a, mem'[t].path) => t \in excused'
    BY <1>1 DEF SharesOK
  <2>8. Active(d) /\ job[d].clean /\ job[d].dst \in Paths =>
          \A t \in Shares' \ excused' : ~ IsPrefix(job[d].dst, mem'[t].path)
    BY <1>1 DEF SharesOK
  <2> QED BY <2>3, <2>4, <2>5, <2>6, <2>7, <2>8 DEF SharesOK
<1> QED BY <1>2, <1>3 DEF ShareInv

LEMMA RestartKeepsShares ==
  ASSUME AllPaths, IInv, Types, ShareInv, Restart
  PROVE  ShareInv'
<1>1. /\ mem' = disk /\ UNCHANGED <<place, leads>>
      /\ excused \subseteq excused' /\ {t \in Tokens : mem[t] # disk[t]} \subseteq excused'
      /\ \A c \in Callers : CutOff(c) \subseteq excused'
      /\ \A c \in Callers : pc'[c] \in {"new", "done"}
  BY DEF Restart, Store!Restart
<1>2. ASSUME NEW t \in Shares' \ excused' PROVE leads'[t] \in Items /\ Accounted(t)'
  <2>1. t \in Shares \ excused /\ mem'[t] = mem[t]
    BY <1>1, <1>2 DEF Shares, Store!Live
  <2>2. ASSUME NEW c \in Callers, Awaits(c, t) PROVE FALSE
    <3>1. job[c].src \in Area(job[c]) /\ IsPrefix(job[c].src, mem[t].path) BY <2>1, <2>2, AwaitsIs
    <3>2. t \in Touched(job[c]) BY <2>1, <3>1 DEF Touched, Shares
    <3>3. pc[c] \in {"rewrite", "undo", "unshare"} BY <2>2 DEF Awaits
    <3> QED BY <1>1, <1>2, <3>2, <3>3 DEF CutOff
  <2> QED BY <1>1, <2>1, <2>2 DEF ShareInv, Accounted, Home
<1>3. \A c \in Callers : SharesOK(c)' BY <1>1 DEF SharesOK, Active
<1> QED BY <1>2, <1>3 DEF ShareInv

LEMMA NextKeepsShares ==
  ASSUME AllPaths, IInv, Types, ShareInv, [Next]_vars
  PROVE  ShareInv'
<1>1. ASSUME NEW c \in Callers, Step(c) PROVE ShareInv' BY <1>1, RequestKeepsShares
<1>2. ASSUME NEW i \in Items, Purge(i) PROVE ShareInv'
  <2>1. /\ ~ TrashLocked /\ place' = Removed(Under(TrashPlace(i)))
        /\ UNCHANGED <<pc, job, excused, leads, mem>>
    BY <1>2 DEF Purge, storeVars
  <2>2. \A k \in Under(TrashPlace(i)) : place[k] \in TrashPlaces
    BY UnderTrash DEF IInv, Shapes, Under
  <2> QED BY <2>1, <2>2, ShareInvStays DEF Removed, Shares
<1>3. CASE RevokeShare
  <2>1. \A t \in Shares' : t \in Shares /\ mem'[t] = mem[t]
    BY <1>3 DEF RevokeShare, Store!Revoke, Store!Without, Shares, Store!Live
  <2> QED BY <1>3, <2>1, ShareInvStays DEF RevokeShare, history
<1>4. CASE Restart BY <1>4, RestartKeepsShares
<1>5. CASE UNCHANGED vars BY <1>5, ShareInvStays DEF vars, history, storeVars, Shares
<1> QED BY <1>1, <1>2, <1>3, <1>4, <1>5 DEF Next

LEMMA BeginningShares ==
  ASSUME AllPaths, Init
  PROVE  ShareInv
<1>1. /\ pc = [c \in Callers |-> "new"] /\ answered \subseteq Items
      /\ leads \in [Tokens -> answered \cup {Nobody}]
      /\ mem = [t \in Tokens |-> Shared(t)]
  BY DEF Init
<1>2. ASSUME NEW t \in Shares PROVE leads[t] \in Items /\ Home(t)
  <2>1. t \in Tokens /\ mem[t] # NoShare BY DEF Shares, Store!Live
  <2>2. leads[t] \in Items /\ mem[t] = Store!NewShare(place[leads[t]]) BY <1>1, <2>1 DEF Shared
  <2> QED BY <2>2 DEF Home, Store!NewShare
<1>3. \A c \in Callers : SharesOK(c) BY <1>1 DEF SharesOK, Active
<1> QED BY <1>2, <1>3 DEF ShareInv, Accounted

LEMMA SharesAreHome ==
  ASSUME AllPaths, IInv, Types, ShareInv
  PROVE  SharesLeadHome
<1>1. ASSUME NEW t \in Shares \ excused, NEW c \in Callers, Awaits(c, t)
      PROVE  ~ Taken(mem[t].path)
  <2>1. /\ Active(c) /\ job[c].src \in Area(job[c]) /\ IsPrefix(job[c].src, mem[t].path)
        /\ pc[c] \in {"rewrite", "undo", "unshare"}
    BY <1>1, AwaitsIs DEF Awaits
  <2>2. Under(job[c].src) = {} BY <1>1, <2>1 DEF ShareInv, SharesOK
  <2> QED BY <2>1, <2>2 DEF Taken, At, Under
<1> QED BY <1>1 DEF SharesLeadHome, ShareInv, Shares, Accounted, Home, Awaits

(* A share leads to the item it was made for wherever handleRename,        *)
(* handleMove, bulkMove, moveToTrash and its roll-back take it, and to     *)
(* nothing else (handlers.go:517, 590, 671, bulk.go:63, 157): handlers     *)
(* rewrite and remove share paths after they renamed, without a lock that  *)
(* spans both, and only what overlaps in time, or a crash cuts off, is     *)
(* excused.                                                                *)
THEOREM SharesStayHome == ASSUME AllPaths PROVE Spec => []SharesLeadHome
<1>1. Init => IInv /\ Types /\ ShareInv BY BeginningIs, BeginningTypes, BeginningShares
<1>2. IInv /\ Types /\ ShareInv /\ [Next]_vars => (IInv /\ Types /\ ShareInv)'
  BY NextKeeps, NextKeepsTypes, NextKeepsShares
<1>3. IInv /\ Types /\ ShareInv => SharesLeadHome BY SharesAreHome
<1> QED BY <1>1, <1>2, <1>3, PTL DEF Spec

=============================================================================
