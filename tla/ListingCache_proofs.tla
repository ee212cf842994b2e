------------------------- MODULE ListingCache_proofs -------------------------
(***************************************************************************)
(* Proofs about ListingCache, for any archive, any number of requests and  *)
(* any capacity.  When the listings and the disk usage may be out of date, *)
(* and what the cache holds at all, does not depend on what a listing is,  *)
(* only on its being a function of what exists.                            *)
(*                                                                         *)
(* The last part is about PathVault: where the walk of safePath gets, for  *)
(* any archive with any links, and any path; and that therefore nothing    *)
(* hidden is listed.                                                       *)
(***************************************************************************)
EXTENDS ListingCache, SequenceTheorems, WellFoundedInduction, TLAPS

ReaderStates == {"idle", "next", "read", "store", "measure", "measured"}
WriterStates == {"idle", "changed", "invalidated"}

Shape ==
  /\ pc = [c \in Readers \cup Writers |-> pc[c]]
  /\ \A r \in Readers : pc[r] \in ReaderStates
  /\ \A w \in Writers : pc[w] \in WriterStates
  /\ key = [r \in Readers |-> key[r]]
  /\ buf = [r \in Readers |-> buf[r]]
  /\ entry = [k \in Keys |-> entry[k]]

ListExcuse == "list" \in quiet \/ \E w \in Writers : pc[w] = "changed"

UsageExcuse ==
  "usage" \in quiet \/ \E w \in Writers : pc[w] \in {"changed", "invalidated"}

(* What a reader carries is as fresh as what is in the cache, unless an    *)
(* invalidation has overtaken it; the disk usage cannot be overtaken,      *)
(* because who measures it holds the mutex.                                *)
ReaderInv(r) ==
  /\ pc[r] = "store" /\ Stale(here, key[r], buf[r]) => r \in missed \/ ListExcuse
  /\ pc[r] \in {"measure", "measured"} => walker = r
  /\ pc[r] = "measured" /\ buf[r] # here => UsageExcuse

ListInv ==
  \A k \in Keys :
    entry[k] # None /\ Stale(here, k, entry[k]) => k \in late \/ ListExcuse

UsageInv == usage \notin {None, here} => UsageExcuse

CacheInv ==
  /\ Shape /\ ListInv /\ UsageInv
  /\ \A r \in Readers : ReaderInv(r)

(* Nothing but reader r moves, and the archive stays as it is.             *)
Alone(r) ==
  /\ here' = here /\ quiet' = quiet
  /\ \A q \in Readers \ {r} : pc'[q] = pc[q] /\ key'[q] = key[q] /\ buf'[q] = buf[q]
  /\ \A w \in Writers : pc'[w] = pc[w]

(* A reader goes to another state, with a key and a buffer of its own.     *)
LEMMA MovesAlone ==
  ASSUME Shape, NEW r \in Readers, NEW s \in ReaderStates, NEW k, NEW b,
         Goto(r, s), UNCHANGED <<here, quiet>>,
         key' = key \/ key' = [key EXCEPT ![r] = k],
         buf' = buf \/ buf' = [buf EXCEPT ![r] = b],
         entry' = [j \in Keys |-> entry'[j]]
  PROVE  Shape' /\ Alone(r) /\ pc'[r] = s
<1>1. /\ pc' = [c \in Readers \cup Writers |-> pc'[c]] /\ pc'[r] = s
      /\ \A c \in (Readers \cup Writers) \ {r} : pc'[c] = pc[c]
  BY DEF Shape, Goto
<1>2. /\ key' = [q \in Readers |-> key'[q]]
      /\ \A q \in Readers \ {r} : key'[q] = key[q]
  BY DEF Shape
<1>3. /\ buf' = [q \in Readers |-> buf'[q]]
      /\ \A q \in Readers \ {r} : buf'[q] = buf[q]
  BY DEF Shape
<1>4. \A w \in Writers : w # r BY CacheAssumption
<1>5. Shape' BY <1>1, <1>2, <1>3, <1>4 DEF Shape
<1>6. Alone(r) BY <1>1, <1>2, <1>3, <1>4 DEF Alone
<1> QED BY <1>1, <1>5, <1>6

(* Whoever uses a listing is not going to store it.                        *)
LEMMA UseGoesOn ==
  ASSUME NEW r \in Readers, NEW k, NEW nodes, Use(r, k, nodes)
  PROVE  /\ Goto(r, "idle") \/ Goto(r, "next")
         /\ key' = [key EXCEPT ![r] = None] /\ buf' = [buf EXCEPT ![r] = None]
BY DEF Use, Return, Visit

(* So is whoever could not read its directory.                             *)
LEMMA FailureGoesOn ==
  ASSUME NEW r \in Readers, ReadDirFails(r)
  PROVE  /\ Goto(r, "idle") \/ Goto(r, "next")
         /\ key' = [key EXCEPT ![r] = None] /\ buf' = [buf EXCEPT ![r] = None]
BY DEF ReadDirFails, Return, Skip

LEMMA ExcusesKeep ==
  ASSUME NEW r \in Readers, Alone(r)
  PROVE  ListExcuse' = ListExcuse /\ UsageExcuse' = UsageExcuse
BY DEF Alone, ListExcuse, UsageExcuse

(* What another reader carries is not touched.                             *)
LEMMA OthersKeep ==
  ASSUME CacheInv, NEW r \in Readers, Alone(r),
         missed' = missed \/ missed' = missed \ {r},
         walker' = walker \/ walker \in {None, r}
  PROVE  \A q \in Readers \ {r} : ReaderInv(q)'
<1> SUFFICES ASSUME NEW q \in Readers \ {r} PROVE ReaderInv(q)'
  OBVIOUS
<1>1. pc'[q] = pc[q] /\ key'[q] = key[q] /\ buf'[q] = buf[q] /\ here' = here
  BY DEF Alone
<1>2. ReaderInv(q) BY DEF CacheInv
<1>3. Stale(here, key[q], buf[q])' = Stale(here, key[q], buf[q])
  BY <1>1 DEF Stale
<1>4. q \in missed => q \in missed'
  OBVIOUS
<1>5. walker = q => walker' = q
  BY CacheAssumption
<1> QED BY <1>1, <1>2, <1>3, <1>4, <1>5, ExcusesKeep DEF ReaderInv

(* What is in the cache stays as good as it was.                           *)
LEMMA CacheKeeps ==
  ASSUME CacheInv, NEW r \in Readers, Alone(r), UNCHANGED <<entry, late>>
  PROVE  ListInv'
<1>1. here' = here BY DEF Alone
<1>2. ASSUME NEW k \in Keys
      PROVE  Stale(here, k, entry[k])' = Stale(here, k, entry[k])
  BY <1>1 DEF Stale
<1> QED BY <1>2, ExcusesKeep DEF CacheInv, ListInv

LEMMA UsageKeeps ==
  ASSUME CacheInv, NEW r \in Readers, Alone(r), usage' = usage
  PROVE  UsageInv'
BY ExcusesKeep DEF Alone, CacheInv, UsageInv

(* A step of one reader after which it carries nothing.                    *)
LEMMA EmptyHanded ==
  ASSUME CacheInv, NEW r \in Readers, Alone(r), Shape',
         pc'[r] \in {"idle", "next", "read"},
         UNCHANGED <<entry, late, usage, walker, missed>>
  PROVE  CacheInv'
<1>1. ReaderInv(r)' BY DEF ReaderInv
<1> QED BY <1>1, OthersKeep, CacheKeeps, UsageKeeps DEF CacheInv

LEMMA GetKeeps ==
  ASSUME CacheInv, NEW r \in Readers, NEW k \in Keys, Get(r, k)
  PROVE  CacheInv'
<1>1. Shape /\ entry' = [j \in Keys |-> entry'[j]]
  BY DEF CacheInv, Shape, Get
<1>2. UNCHANGED <<here, quiet, entry, late, usage, walker, missed>>
  BY DEF Get, disk, history
<1>3. CASE entry[k] # None
  <2>1. Use(r, k, entry[k]) BY <1>3 DEF Get
  <2>2. /\ Goto(r, "idle") \/ Goto(r, "next")
        /\ key' = [key EXCEPT ![r] = None] /\ buf' = [buf EXCEPT ![r] = None]
    BY <2>1, UseGoesOn
  <2> QED BY <1>1, <1>2, <2>2, MovesAlone, EmptyHanded DEF ReaderStates
<1>4. CASE entry[k] = None
  <2>1. Goto(r, "read") /\ key' = [key EXCEPT ![r] = k] /\ buf' = buf
    BY <1>4 DEF Get
  <2> QED BY <1>1, <1>2, <2>1, MovesAlone, EmptyHanded DEF ReaderStates
<1> QED BY <1>3, <1>4

LEMMA ReadDirFailsKeeps ==
  ASSUME CacheInv, NEW r \in Readers, ReadDirFails(r)
  PROVE  CacheInv'
<1>1. Shape /\ entry' = [j \in Keys |-> entry'[j]]
  BY DEF CacheInv, Shape, ReadDirFails, archive
<1>2. UNCHANGED <<here, quiet, entry, late, usage, walker, missed>>
  BY DEF ReadDirFails, archive, disk, history
<1>3. /\ Goto(r, "idle") \/ Goto(r, "next")
      /\ key' = [key EXCEPT ![r] = None] /\ buf' = [buf EXCEPT ![r] = None]
  BY FailureGoesOn
<1> QED BY <1>1, <1>2, <1>3, MovesAlone, EmptyHanded DEF ReaderStates

LEMMA SearchSteps ==
  ASSUME CacheInv, NEW r \in Readers, BeginSearch(r) \/ EndSearch(r)
  PROVE  CacheInv'
<1>1. Shape /\ entry' = [j \in Keys |-> entry'[j]]
  BY DEF CacheInv, Shape, BeginSearch, EndSearch, archive
<1>2. UNCHANGED <<here, quiet, entry, late, usage, walker, missed>>
  BY DEF BeginSearch, EndSearch, archive, disk, history
<1>3. /\ Goto(r, "idle") \/ Goto(r, "next")
      /\ key' = key \/ key' = [key EXCEPT ![r] = None]
      /\ buf' = buf \/ buf' = [buf EXCEPT ![r] = None]
  BY DEF BeginSearch, EndSearch, Return
<1> QED BY <1>1, <1>2, <1>3, MovesAlone, EmptyHanded DEF ReaderStates

(* A directory that has just been read is as it is.                        *)
LEMMA ReadDirKeeps ==
  ASSUME CacheInv, NEW r \in Readers, ReadDir(r)
  PROVE  CacheInv'
<1>1. Shape /\ entry' = [j \in Keys |-> entry'[j]]
  BY DEF CacheInv, Shape, ReadDir, archive
<1>2. UNCHANGED <<here, quiet, entry, late, usage, walker, missed, key>>
  BY DEF ReadDir, archive, disk, history
<1>3. Goto(r, "store") /\ buf' = [buf EXCEPT ![r] = Listing(here, key[r])]
  BY DEF ReadDir
<1>4. Shape' /\ Alone(r) /\ pc'[r] = "store"
  BY <1>1, <1>2, <1>3, MovesAlone DEF ReaderStates
<1>5. buf'[r] = Listing(here, key[r]) BY <1>1, <1>3 DEF Shape
<1>6. ~ Stale(here, key[r], buf[r])' BY <1>2, <1>5 DEF ReadDir, Stale
<1>7. ReaderInv(r)' BY <1>4, <1>6 DEF ReaderInv
<1> QED BY <1>2, <1>4, <1>7, OthersKeep, CacheKeeps, UsageKeeps DEF CacheInv

(* A listing that was overtaken marks its key; any other listing is as     *)
(* good as the excuses say, and evictions only remove.                     *)
LEMMA StoreKeeps ==
  ASSUME CacheInv, NEW r \in Readers, Store(r)
  PROVE  CacheInv'
<1>1. Shape /\ ReaderInv(r) /\ ListInv BY DEF CacheInv
<1>2. /\ UNCHANGED <<here, quiet, usage, walker>> /\ missed' = missed \ {r}
      /\ late' = IF r \in missed THEN late \cup {key[r]} ELSE late \ {key[r]}
  BY DEF Store, disk
<1>3. /\ entry' = [j \in Keys |-> entry'[j]]
      /\ \A j \in Keys : IF j = key[r] THEN entry'[j] = buf[r]
                         ELSE entry'[j] \in {entry[j], None}
  <2>1. PICK kept : entry' = [j \in Keys |-> IF j = key[r] THEN buf[r]
                                 ELSE IF j \in ToSet(kept) THEN entry[j] ELSE None]
    BY DEF Store, Set
  <2> QED BY <2>1
<1>4. Use(r, key[r], buf[r]) BY DEF Store
<1>5. /\ Goto(r, "idle") \/ Goto(r, "next")
      /\ key' = [key EXCEPT ![r] = None] /\ buf' = [buf EXCEPT ![r] = None]
  BY <1>4, UseGoesOn
<1>6. Shape' /\ Alone(r) /\ pc'[r] \in {"idle", "next"}
  BY <1>1, <1>2, <1>3, <1>5, MovesAlone DEF ReaderStates
<1>7. ReaderInv(r)' BY <1>6 DEF ReaderInv
<1>8. ListInv'
  <2> SUFFICES ASSUME NEW k \in Keys, entry'[k] # None, Stale(here', k, entry'[k])
               PROVE  k \in late' \/ ListExcuse
    BY <1>6, ExcusesKeep DEF ListInv
  <2>1. Stale(here, k, entry'[k]) BY <1>2
  <2>2. CASE k = key[r]
    <3>1. entry'[k] = buf[r] BY <1>3, <2>2
    <3>2. pc[r] = "store" BY DEF Store
    <3>3. r \in missed \/ ListExcuse BY <1>1, <2>1, <2>2, <3>1, <3>2 DEF ReaderInv
    <3> QED BY <1>2, <2>2, <3>3
  <2>3. CASE k # key[r]
    <3>1. entry'[k] = entry[k] BY <1>3, <2>3
    <3>2. k \in late \/ ListExcuse BY <1>1, <2>1, <3>1 DEF ListInv
    <3> QED BY <1>2, <2>3, <3>2
  <2> QED BY <2>2, <2>3
<1> QED BY <1>2, <1>6, <1>7, <1>8, OthersKeep, UsageKeeps DEF CacheInv

(* The disk usage: one reader at a time measures it.                       *)
LEMMA MeasureSteps ==
  ASSUME CacheInv, NEW r \in Readers, BeginMeasure(r) \/ Measure(r) \/ EndMeasure(r)
  PROVE  CacheInv'
<1>1. Shape /\ entry' = [j \in Keys |-> entry'[j]]
  BY DEF CacheInv, Shape, BeginMeasure, Measure, EndMeasure, archive
<1>2. UNCHANGED <<here, quiet, entry, late, missed>>
  BY DEF BeginMeasure, Measure, EndMeasure, archive, history
<1>3. ReaderInv(r) BY DEF CacheInv
<1>4. CASE BeginMeasure(r)
  <2>1. Shape' /\ Alone(r) /\ pc'[r] = "measure" /\ walker' = r
        /\ usage' = usage /\ walker = None
    BY <1>1, <1>2, <1>4, MovesAlone DEF BeginMeasure, ReaderStates
  <2>2. ReaderInv(r)' BY <2>1 DEF ReaderInv
  <2> QED BY <1>2, <2>1, <2>2, OthersKeep, CacheKeeps, UsageKeeps DEF CacheInv
<1>5. CASE Measure(r)
  <2>1. Shape' /\ Alone(r) /\ pc'[r] = "measured"
        /\ UNCHANGED <<usage, walker>>
    BY <1>1, <1>2, <1>5, MovesAlone DEF Measure, ReaderStates, disk
  <2>2. buf'[r] = here' BY <1>1, <1>2, <1>5 DEF Measure, Shape
  <2>3. walker' = r BY <1>3, <1>5, <2>1 DEF Measure, ReaderInv
  <2>4. ReaderInv(r)' BY <2>1, <2>2, <2>3 DEF ReaderInv
  <2> QED BY <1>2, <2>1, <2>4, OthersKeep, CacheKeeps, UsageKeeps DEF CacheInv
<1>6. CASE EndMeasure(r)
  <2>1. Shape' /\ Alone(r) /\ pc'[r] = "idle"
    BY <1>1, <1>2, <1>6, MovesAlone DEF EndMeasure, Return, ReaderStates
  <2>2. usage' = buf[r] /\ pc[r] = "measured" /\ walker = r
    BY <1>3, <1>6 DEF EndMeasure, ReaderInv
  <2>3. UsageInv'
    BY <1>2, <1>3, <2>1, <2>2, ExcusesKeep DEF UsageInv, ReaderInv
  <2>4. ReaderInv(r)' BY <2>1 DEF ReaderInv
  <2> QED BY <1>2, <2>1, <2>2, <2>3, <2>4, OthersKeep, CacheKeeps DEF CacheInv
<1> QED BY <1>4, <1>5, <1>6

(* An announced change is an excuse until both invalidations have run, an  *)
(* unannounced one until the next announced change is.                     *)
LEMMA ChangesExcuse ==
  ASSUME CacheInv, UNCHANGED <<entry, late, usage, walker, missed, key, buf>>,
         Shape', ListExcuse', UsageExcuse', \A r \in Readers : pc'[r] = pc[r]
  PROVE  CacheInv'
<1>1. ASSUME NEW r \in Readers PROVE ReaderInv(r)'
  BY <1>1 DEF CacheInv, ReaderInv
<1> QED BY <1>1 DEF CacheInv, ListInv, UsageInv

LEMMA WriterMoves ==
  ASSUME Shape, NEW w \in Writers, NEW s \in WriterStates, Goto(w, s),
         UNCHANGED <<key, buf>>, entry' = [j \in Keys |-> entry'[j]]
  PROVE  /\ Shape' /\ pc'[w] = s
         /\ \A c \in (Readers \cup Writers) \ {w} : pc'[c] = pc[c]
         /\ \A r \in Readers : pc'[r] = pc[r]
<1>1. /\ pc' = [c \in Readers \cup Writers |-> pc'[c]] /\ pc'[w] = s
      /\ \A c \in (Readers \cup Writers) \ {w} : pc'[c] = pc[c]
  BY DEF Shape, Goto
<1>2. \A r \in Readers : r # w BY CacheAssumption
<1> QED BY <1>1, <1>2 DEF Shape

LEMMA ChangeKeeps ==
  ASSUME CacheInv, NEW w \in Writers, NEW p \in Places, Change(w, p)
  PROVE  CacheInv'
<1>1. Shape /\ entry' = [j \in Keys |-> entry'[j]]
  BY DEF CacheInv, Shape, Change
<1>2. Shape' /\ pc'[w] = "changed" /\ \A r \in Readers : pc'[r] = pc[r]
  BY <1>1, WriterMoves DEF Change, WriterStates
<1> QED
  BY <1>2, ChangesExcuse DEF Change, disk, history, ListExcuse, UsageExcuse

LEMMA ChangeQuietlyKeeps ==
  ASSUME CacheInv, NEW p \in Places, ChangeQuietly(p)
  PROVE  CacheInv'
<1>1. Shape' BY DEF CacheInv, Shape, ChangeQuietly
<1> QED
  BY <1>1, ChangesExcuse DEF ChangeQuietly, disk, ListExcuse, UsageExcuse

(* The cache is empty; readers on their way to it are noted as overtaken;  *)
(* the disk usage has its excuse until its own invalidation.               *)
LEMMA InvalidateKeeps ==
  ASSUME CacheInv, NEW w \in Writers, Invalidate(w)
  PROVE  CacheInv'
<1>1. /\ Shape /\ entry' = [j \in Keys |-> None]
      /\ UNCHANGED <<here, usage, walker, key, buf>>
  BY DEF CacheInv, Invalidate, disk
<1>2. /\ Shape' /\ pc'[w] = "invalidated"
      /\ \A r \in Readers : pc'[r] = pc[r]
  BY <1>1, WriterMoves DEF Invalidate, WriterStates
<1>3. UsageExcuse' BY <1>2 DEF UsageExcuse
<1>4. ASSUME NEW r \in Readers PROVE ReaderInv(r)'
  <2>1. pc'[r] = "store" => r \in missed' BY <1>2 DEF Invalidate
  <2> QED BY <1>1, <1>2, <1>3, <2>1 DEF CacheInv, ReaderInv
<1>5. ListInv' BY <1>1 DEF ListInv
<1> QED BY <1>2, <1>3, <1>4, <1>5 DEF CacheInv, UsageInv

(* While nobody holds the mutex nobody carries a measurement.              *)
LEMMA InvalidateUsageKeeps ==
  ASSUME CacheInv, NEW w \in Writers, InvalidateUsage(w)
  PROVE  CacheInv'
<1>1. /\ Shape /\ UNCHANGED <<here, entry, late, missed, walker, key, buf>>
      /\ usage' = None /\ walker = None /\ pc[w] = "invalidated"
      /\ quiet' = quiet \ {"usage"}
  BY DEF CacheInv, InvalidateUsage, archive
<1>2. /\ Shape' /\ pc'[w] = "idle"
      /\ \A c \in (Readers \cup Writers) \ {w} : pc'[c] = pc[c]
      /\ \A r \in Readers : pc'[r] = pc[r]
  BY <1>1, WriterMoves DEF InvalidateUsage, Shape, WriterStates
<1>3. ListExcuse' = ListExcuse BY <1>1, <1>2 DEF ListExcuse
<1>4. ASSUME NEW r \in Readers PROVE ReaderInv(r)'
  <2>1. pc[r] \notin {"measure", "measured"}
    BY <1>1, CacheAssumption DEF CacheInv, ReaderInv
  <2>2. Stale(here, key[r], buf[r])' = Stale(here, key[r], buf[r])
    BY <1>1 DEF Stale
  <2>3. ReaderInv(r) BY DEF CacheInv
  <2> QED BY <1>1, <1>2, <1>3, <2>1, <2>2, <2>3 DEF ReaderInv
<1>5. ListInv' BY <1>1, <1>3 DEF CacheInv, ListInv, Stale
<1>6. UsageInv' BY <1>1 DEF UsageInv
<1> QED BY <1>2, <1>4, <1>5, <1>6 DEF CacheInv

LEMMA NothingElseMoves ==
  ASSUME CacheInv, usage' \in {usage, None},
         UNCHANGED <<here, entry, pc, key, buf, walker, history>>
  PROVE  CacheInv'
<1>1. ListExcuse' = ListExcuse /\ UsageExcuse' = UsageExcuse
  BY DEF history, ListExcuse, UsageExcuse
<1>2. ASSUME NEW r \in Readers PROVE ReaderInv(r)'
  BY <1>1 DEF CacheInv, ReaderInv, Stale, history
<1>3. ListInv' BY <1>1 DEF CacheInv, ListInv, Stale, history
<1>4. UsageInv' BY <1>1 DEF CacheInv, UsageInv
<1>5. Shape' BY DEF CacheInv, Shape
<1> QED BY <1>2, <1>3, <1>4, <1>5 DEF CacheInv

LEMMA CacheStep == CacheInv /\ [Next]_vars => CacheInv'
<1> SUFFICES ASSUME CacheInv, [Next]_vars PROVE CacheInv'
  OBVIOUS
<1>1. CASE \E r \in Readers, k \in Keys : Tree(r, k) \/ Search(r, k)
  BY <1>1, GetKeeps DEF Tree, Search
<1>2. CASE \E r \in Readers : BeginSearch(r) \/ EndSearch(r)
  BY <1>2, SearchSteps
<1>3. CASE \E r \in Readers : ReadDir(r) \/ ReadDirFails(r) \/ Store(r)
  BY <1>3, ReadDirKeeps, ReadDirFailsKeeps, StoreKeeps
<1>4. CASE \E r \in Readers : BeginMeasure(r) \/ Measure(r) \/ EndMeasure(r)
  BY <1>4, MeasureSteps
<1>5. CASE UsageExpires
  BY <1>5, NothingElseMoves DEF UsageExpires, archive
<1>6. CASE \/ \E w \in Writers, p \in Places : Change(w, p)
           \/ \E p \in Places : ChangeQuietly(p)
  BY <1>6, ChangeKeeps, ChangeQuietlyKeeps
<1>7. CASE \E w \in Writers : Invalidate(w) \/ InvalidateUsage(w)
  BY <1>7, InvalidateKeeps, InvalidateUsageKeeps
<1>8. CASE UNCHANGED vars
  BY <1>8, NothingElseMoves DEF vars, archive, disk
<1> QED BY <1>1, <1>2, <1>3, <1>4, <1>5, <1>6, <1>7, <1>8 DEF Next

LEMMA CacheInitially == Init => CacheInv
BY CacheAssumption DEF Init, CacheInv, Shape, ListInv, UsageInv, ReaderInv,
                       ReaderStates, WriterStates

LEMMA CacheInvariant == Spec => []CacheInv
BY CacheInitially, CacheStep, PTL DEF Spec

(* The cache (cache.go, handlers.go:140-168) holds an outdated listing     *)
(* only for one of three reasons, whatever the archive, the requests and   *)
(* the capacity.                                                           *)
THEOREM StaleListingsAreExplained == Spec => []StaleIsExplained
<1>1. CacheInv => StaleIsExplained
  BY DEF CacheInv, ListInv, ListExcuse, StaleIsExplained
<1> QED BY <1>1, CacheInvariant, PTL

(* The cached disk usage (disk.go:29-47) is outdated only between a change *)
(* and its invalidation: the mutex that is held while it is measured       *)
(* leaves no room for a measurement that was overtaken.                    *)
THEOREM DiskUsageIsFresh == Spec => []UsageIsFresh
<1>1. CacheInv => UsageIsFresh
  BY DEF CacheInv, UsageInv, UsageExcuse, UsageIsFresh
<1> QED BY <1>1, CacheInvariant, PTL

-----------------------------------------------------------------------------
(* The list of the cache and its map hold the same keys.                   *)

(* Taking one element out of a list without repetitions.                   *)
LEMMA RemovedAt ==
  ASSUME NEW S, NEW s \in Seq(S), IsInjective(s), NEW i \in 1 .. Len(s)
  PROVE  /\ RemoveAt(s, i) \in Seq(S) /\ Len(RemoveAt(s, i)) = Len(s) - 1
         /\ IsInjective(RemoveAt(s, i))
         /\ ToSet(RemoveAt(s, i)) = ToSet(s) \ {s[i]}
<1> DEFINE a == SubSeq(s, 1, i - 1)
           b == SubSeq(s, i + 1, Len(s))
           t == RemoveAt(s, i)
<1>1. a \in Seq(S) /\ Len(a) = i - 1 /\ \A j \in 1 .. i - 1 : a[j] = s[j]
  BY SubSeqProperties
<1>2. b \in Seq(S) /\ Len(b) = Len(s) - i /\ \A j \in 1 .. Len(s) - i : b[j] = s[i + j]
  BY SubSeqProperties
<1>3. /\ t \in Seq(S) /\ Len(t) = Len(s) - 1
      /\ \A j \in 1 .. Len(s) - 1 : t[j] = IF j < i THEN s[j] ELSE s[j + 1]
  <2>1. t = a \o b BY DEF RemoveAt
  <2> HIDE DEF a, b, t
  <2>2. /\ a \o b \in Seq(S) /\ Len(a \o b) = Len(s) - 1
        /\ \A j \in 1 .. Len(s) - 1 : (a \o b)[j] = IF j <= i - 1 THEN a[j] ELSE b[j - (i - 1)]
    <3>1. Len(a) + Len(b) = Len(s) - 1 BY <1>1, <1>2
    <3>2. /\ a \o b \in Seq(S) /\ Len(a \o b) = Len(a) + Len(b)
          /\ \A j \in 1 .. Len(a) + Len(b) :
               (a \o b)[j] = IF j <= Len(a) THEN a[j] ELSE b[j - Len(a)]
      BY <1>1, <1>2, ConcatProperties
    <3> QED BY <1>1, <3>1, <3>2
  <2>3. ASSUME NEW j \in 1 .. Len(s) - 1 PROVE t[j] = IF j < i THEN s[j] ELSE s[j + 1]
    <3>1. CASE j < i BY <1>1, <2>1, <2>2, <3>1
    <3>2. CASE j >= i
      <4>1. j - (i - 1) \in 1 .. Len(s) - i /\ i + (j - (i - 1)) = j + 1 BY <3>2
      <4>2. t[j] = b[j - (i - 1)] BY <2>1, <2>2, <3>2
      <4> QED BY <1>2, <3>2, <4>1, <4>2
    <3> QED BY <3>1, <3>2
  <2> QED BY <2>1, <2>2, <2>3
<1> HIDE DEF t
<1>4. DOMAIN t = 1 .. Len(s) - 1 /\ DOMAIN s = 1 .. Len(s) /\ Len(s) \in Nat
  BY <1>3
<1>5. IsInjective(t)
  <2> SUFFICES ASSUME NEW j \in DOMAIN t, NEW n \in DOMAIN t, t[j] = t[n] PROVE j = n
    BY DEF IsInjective
  <2> DEFINE at(l) == IF l < i THEN l ELSE l + 1
  <2>1. ASSUME NEW l \in DOMAIN t PROVE at(l) \in DOMAIN s /\ t[l] = s[at(l)]
    <3>1. l \in 1 .. Len(s) - 1 /\ t[l] = IF l < i THEN s[l] ELSE s[l + 1] BY <1>3, <1>4
    <3>2. at(l) \in 1 .. Len(s) BY <1>4, <3>1
    <3> QED BY <1>4, <3>1, <3>2
  <2>2. at(j) = at(n) BY <2>1 DEF IsInjective
  <2> QED BY <1>4, <2>2
<1>6. ASSUME NEW x \in ToSet(s) \ {s[i]} PROVE x \in ToSet(t)
  <2>1. PICK j \in 1 .. Len(s) : s[j] = x BY <1>4 DEF ToSet
  <2>2. CASE j < i
    <3>1. j \in 1 .. Len(s) - 1 BY <1>4, <2>1, <2>2
    <3>2. j \in DOMAIN t /\ t[j] = x BY <1>3, <1>4, <2>1, <2>2, <3>1
    <3> QED BY <3>2 DEF ToSet
  <2>3. CASE j > i
    <3>1. j - 1 \in 1 .. Len(s) - 1 /\ ~ (j - 1 < i) /\ (j - 1) + 1 = j
      BY <1>4, <2>1, <2>3
    <3>2. j - 1 \in DOMAIN t /\ t[j - 1] = x BY <1>3, <1>4, <2>1, <3>1
    <3> QED BY <3>2 DEF ToSet
  <2>4. j # i BY <1>6, <2>1
  <2> QED BY <1>4, <2>1, <2>2, <2>3, <2>4
<1>7. ASSUME NEW j \in DOMAIN t PROVE t[j] \in ToSet(s) \ {s[i]}
  <2>1. j \in 1 .. Len(s) - 1 /\ t[j] = IF j < i THEN s[j] ELSE s[j + 1] BY <1>3, <1>4
  <2> DEFINE n == IF j < i THEN j ELSE j + 1
  <2>2. n \in DOMAIN s /\ t[j] = s[n] /\ n # i /\ i \in DOMAIN s BY <1>4, <2>1
  <2> HIDE DEF n
  <2>3. s[n] # s[i] BY <2>2 DEF IsInjective
  <2> QED BY <2>2, <2>3 DEF ToSet
<1>8. ToSet(t) \subseteq ToSet(s) \ {s[i]} BY <1>7 DEF ToSet
<1> QED BY <1>3, <1>5, <1>6, <1>8 DEF t

LEMMA RemovedFirst ==
  ASSUME NEW S, NEW s \in Seq(S), IsInjective(s), NEW k
  PROVE  /\ RemoveFirst(s, k) \in Seq(S) /\ Len(RemoveFirst(s, k)) <= Len(s)
         /\ k \in ToSet(s) => Len(RemoveFirst(s, k)) = Len(s) - 1
         /\ IsInjective(RemoveFirst(s, k))
         /\ ToSet(RemoveFirst(s, k)) = ToSet(s) \ {k}
<1>1. CASE \E i \in 1 .. Len(s) : s[i] = k
  <2>1. PICK i \in 1 .. Len(s) : s[i] = k BY <1>1
  <2>2. {j \in 1 .. Len(s) : s[j] = k} = {i} BY <2>1 DEF IsInjective
  <2>3. Min({i}) = i BY DEF Min
  <2>4. SelectInSeq(s, LAMBDA v : v = k) = i BY <2>2, <2>3 DEF SelectInSeq
  <2>5. RemoveFirst(s, k) = RemoveAt(s, i) BY <1>1, <2>4 DEF RemoveFirst
  <2> QED BY <2>1, <2>5, RemovedAt
<1>2. CASE ~ \E i \in 1 .. Len(s) : s[i] = k
  <2>1. RemoveFirst(s, k) = s BY <1>2 DEF RemoveFirst
  <2>2. k \notin ToSet(s) BY <1>2 DEF ToSet
  <2> QED BY <2>1, <2>2
<1> QED BY <1>1, <1>2

(* A key that is used goes to the front of the list.                       *)
LEMMA MovedToFront ==
  ASSUME lru \in Seq(Keys), IsInjective(lru), NEW k \in Keys
  PROVE  /\ ToFront(k) \in Seq(Keys) /\ IsInjective(ToFront(k))
         /\ Len(ToFront(k)) \in 1 .. Len(lru) + 1 /\ ToFront(k)[1] = k
         /\ k \in ToSet(lru) => Len(ToFront(k)) <= Len(lru)
         /\ ToSet(ToFront(k)) = ToSet(lru) \cup {k}
<1> DEFINE s == RemoveFirst(lru, k)
           t == ToFront(k)
<1>1. /\ s \in Seq(Keys) /\ Len(s) <= Len(lru) /\ IsInjective(s)
      /\ k \in ToSet(lru) => Len(s) = Len(lru) - 1
      /\ ToSet(s) = ToSet(lru) \ {k}
  BY RemovedFirst
<1>2. t = <<k>> \o s BY DEF ToFront
<1> HIDE DEF s, t
<1>3. /\ t \in Seq(Keys) /\ Len(t) = Len(s) + 1 /\ t[1] = k
      /\ \A j \in 1 .. Len(s) : t[j + 1] = s[j]
  BY <1>1, <1>2
<1>4. DOMAIN t = 1 .. Len(s) + 1 /\ DOMAIN s = 1 .. Len(s) /\ Len(s) \in Nat /\ Len(lru) \in Nat
  BY <1>1, <1>3
<1>5. \A i \in DOMAIN t : i = 1 \/ (i - 1 \in DOMAIN s /\ t[i] = s[i - 1])
  <2> SUFFICES ASSUME NEW i \in DOMAIN t, i # 1 PROVE i - 1 \in DOMAIN s /\ t[i] = s[i - 1]
    OBVIOUS
  <2>1. i - 1 \in 1 .. Len(s) /\ (i - 1) + 1 = i BY <1>4
  <2> QED BY <1>3, <1>4, <2>1
<1>6. \A j \in DOMAIN s : s[j] \in ToSet(s) BY DEF ToSet
<1>7. ToSet(t) = ToSet(s) \cup {k}
  <2>1. ASSUME NEW i \in DOMAIN t PROVE t[i] \in ToSet(s) \cup {k}
    BY <1>3, <1>5, <1>6
  <2>2. ASSUME NEW x \in ToSet(s) \cup {k} PROVE \E i \in DOMAIN t : t[i] = x
    <3>1. CASE x = k BY <1>3, <1>4, <3>1
    <3>2. CASE x # k
      <4>1. PICK j \in DOMAIN s : s[j] = x BY <3>2 DEF ToSet
      <4>2. j + 1 \in DOMAIN t BY <1>4
      <4> QED BY <1>3, <1>4, <4>1, <4>2
    <3> QED BY <3>1, <3>2
  <2> QED BY <2>1, <2>2 DEF ToSet
<1>8. IsInjective(t)
  <2> SUFFICES ASSUME NEW i \in DOMAIN t, NEW j \in DOMAIN t, t[i] = t[j] PROVE i = j
    BY DEF IsInjective
  <2>1. \A n \in DOMAIN s : s[n] # k BY <1>1, <1>6
  <2>2. CASE i = 1 \/ j = 1 BY <1>3, <1>5, <2>1, <2>2
  <2>3. CASE i # 1 /\ j # 1
    <3>1. i - 1 = j - 1 BY <1>1, <1>5, <2>3 DEF IsInjective
    <3> QED BY <1>4, <3>1
  <2> QED BY <2>2, <2>3
<1>9. ToSet(t) = ToSet(lru) \cup {k} BY <1>1, <1>7
<1> QED BY <1>1, <1>3, <1>4, <1>8, <1>9 DEF t

(* Cutting the last element off.                                           *)
LEMMA CutOff ==
  ASSUME NEW S, NEW s \in Seq(S), Len(s) > 1, IsInjective(s)
  PROVE  /\ Front(s) \in Seq(S) /\ IsInjective(Front(s)) /\ Len(Front(s)) = Len(s) - 1
         /\ s[1] \in ToSet(Front(s)) /\ ToSet(Front(s)) \subseteq ToSet(s)
<1> DEFINE t == Front(s)
<1>1. t = SubSeq(s, 1, Len(s) - 1) BY DEF Front
<1>2. /\ t \in Seq(S) /\ Len(t) = Len(s) - 1
      /\ \A i \in 1 .. Len(s) - 1 : t[i] = s[i]
  BY <1>1, SubSeqProperties
<1> HIDE DEF t
<1>3. DOMAIN t = 1 .. Len(s) - 1 /\ DOMAIN s = 1 .. Len(s) BY <1>2
<1>4. IsInjective(t) BY <1>2, <1>3 DEF IsInjective
<1>5. 1 \in DOMAIN t /\ s[1] = t[1] BY <1>2, <1>3
<1>6. \A i \in DOMAIN t : t[i] = s[i] /\ i \in DOMAIN s BY <1>2, <1>3
<1> QED BY <1>2, <1>4, <1>5, <1>6 DEF t, ToSet

(* The list is one of keys, and what a reader is about to store is a       *)
(* listing of a key.                                                       *)
CarriedInv(r) ==
  /\ pc[r] \in {"read", "store"} => key[r] \in Keys
  /\ pc[r] = "store" => buf[r] # None

ListOK ==
  /\ lru \in Seq(Keys) /\ IsInjective(lru) /\ Len(lru) <= MaxEntries
  /\ ToSet(lru) = {k \in Keys : entry[k] # None}

RestOK ==
  /\ Fixed \subseteq here /\ here \subseteq Places
  /\ key \in [Readers -> Keys \cup {None}]
  /\ missed \subseteq Readers /\ late \subseteq Keys /\ quiet \subseteq {"list", "usage"}

TypeInv == ListOK /\ RestOK /\ \A r \in Readers : CarriedInv(r)

(* A hit neither adds a key nor drops one.                                 *)
LEMMA TouchKeepsList ==
  ASSUME ListOK, NEW k \in Keys, entry[k] # None, lru' = ToFront(k), entry' = entry
  PROVE  ListOK'
<1>1. k \in ToSet(lru) BY DEF ListOK
<1>2. /\ ToFront(k) \in Seq(Keys) /\ IsInjective(ToFront(k))
      /\ Len(ToFront(k)) <= Len(lru) /\ ToSet(ToFront(k)) = ToSet(lru)
  BY <1>1, MovedToFront DEF ListOK
<1>3. Len(lru) \in Nat /\ Len(ToFront(k)) \in Nat /\ MaxEntries \in Nat
  BY <1>2, CacheAssumption DEF ListOK
<1>4. Len(lru') <= MaxEntries BY <1>2, <1>3 DEF ListOK
<1> QED BY <1>2, <1>4 DEF ListOK

(* A set puts its key in both, and an eviction takes one out of both.      *)
LEMMA SetKeepsList ==
  ASSUME ListOK, NEW k \in Keys, NEW nodes, nodes # None, Set(k, nodes)
  PROVE  ListOK'
<1> DEFINE t == ToFront(k)
           kept == IF Len(t) > MaxEntries THEN Front(t) ELSE t
<1>1. /\ t \in Seq(Keys) /\ IsInjective(t) /\ t[1] = k
      /\ Len(t) \in 1 .. Len(lru) + 1
      /\ ToSet(t) = ToSet(lru) \cup {k}
  BY MovedToFront DEF ListOK
<1>2. lru' = kept
      /\ entry' = [j \in Keys |-> IF j = k THEN nodes
                                  ELSE IF j \in ToSet(kept) THEN entry[j] ELSE None]
  BY DEF Set
<1> HIDE DEF t
<1>3. MaxEntries \in Nat \ {0} /\ Len(lru) \in Nat /\ Len(lru) <= MaxEntries
  BY CacheAssumption DEF ListOK
<1>4. /\ kept \in Seq(Keys) /\ IsInjective(kept) /\ Len(kept) <= MaxEntries
      /\ k \in ToSet(kept) /\ ToSet(kept) \subseteq ToSet(lru) \cup {k}
  <2>1. CASE Len(t) > MaxEntries
    <3>1. Len(t) > 1 /\ Len(t) - 1 <= MaxEntries /\ kept = Front(t)
      BY <1>1, <1>3, <2>1
    <3>2. /\ Front(t) \in Seq(Keys) /\ IsInjective(Front(t)) /\ Len(Front(t)) = Len(t) - 1
          /\ t[1] \in ToSet(Front(t)) /\ ToSet(Front(t)) \subseteq ToSet(t)
      BY <1>1, <3>1, CutOff
    <3> QED BY <1>1, <3>1, <3>2
  <2>2. CASE ~ (Len(t) > MaxEntries)
    <3>1. kept = t /\ Len(t) <= MaxEntries BY <1>1, <1>3, <2>2
    <3> QED BY <1>1, <3>1
  <2> QED BY <2>1, <2>2
<1> HIDE DEF kept
<1>5. ToSet(kept) \subseteq Keys BY <1>4 DEF ListOK
<1>6. \A j \in Keys : entry'[j] # None <=> j \in ToSet(kept)
  BY <1>2, <1>4 DEF ListOK
<1> QED BY <1>2, <1>4, <1>5, <1>6 DEF ListOK

(* A step of one reader after which it carries nothing into the cache.     *)
LEMMA ReaderSteps ==
  ASSUME Shape, TypeInv, ListOK', NEW r \in Readers, NEW s \in ReaderStates,
         NEW k \in Keys \cup {None}, NEW b, Goto(r, s), UNCHANGED <<here, quiet>>,
         entry' = [j \in Keys |-> entry'[j]],
         key' = key \/ key' = [key EXCEPT ![r] = k],
         buf' = buf \/ buf' = [buf EXCEPT ![r] = b],
         missed' \subseteq Readers, late' \subseteq Keys,
         s \in {"read", "store"} => key'[r] \in Keys,
         s = "store" => buf'[r] # None
  PROVE  TypeInv'
<1>1. Alone(r) /\ pc'[r] = s BY MovesAlone
<1>2. CarriedInv(r)' BY <1>1 DEF CarriedInv
<1>3. \A q \in Readers \ {r} : CarriedInv(q)' BY <1>1 DEF Alone, CarriedInv, TypeInv
<1>4. key' \in [Readers -> Keys \cup {None}] BY DEF TypeInv, RestOK
<1>5. RestOK' BY <1>4 DEF TypeInv, RestOK
<1> QED BY <1>2, <1>3, <1>5 DEF TypeInv

LEMMA GetTypes ==
  ASSUME Shape, TypeInv, NEW r \in Readers, NEW k \in Keys, Get(r, k)
  PROVE  TypeInv'
<1>1. UNCHANGED <<here, quiet, missed, late, entry>> BY DEF Get, history
<1>2. /\ entry' = [j \in Keys |-> entry'[j]] /\ ListOK
      /\ missed' \subseteq Readers /\ late' \subseteq Keys
  BY <1>1 DEF Shape, TypeInv, RestOK
<1>3. CASE entry[k] # None
  <2>1. Use(r, k, entry[k]) /\ lru' = ToFront(k) BY <1>3 DEF Get
  <2>2. /\ Goto(r, "idle") \/ Goto(r, "next")
        /\ key' = [key EXCEPT ![r] = None] /\ buf' = [buf EXCEPT ![r] = None]
    BY <2>1, UseGoesOn
  <2>3. ListOK' BY <1>1, <1>2, <1>3, <2>1, TouchKeepsList
  <2> QED BY <1>1, <1>2, <2>2, <2>3, ReaderSteps DEF ReaderStates
<1>4. CASE entry[k] = None
  <2>1. Goto(r, "read") /\ key' = [key EXCEPT ![r] = k] /\ buf' = buf /\ lru' = lru
    BY <1>4 DEF Get
  <2>2. ListOK' BY <1>1, <1>2, <2>1 DEF ListOK
  <2>3. key'[r] \in Keys BY <2>1 DEF Shape
  <2> QED BY <1>1, <1>2, <2>1, <2>2, <2>3, ReaderSteps DEF ReaderStates
<1> QED BY <1>3, <1>4

LEMMA StoreTypes ==
  ASSUME Shape, TypeInv, NEW r \in Readers, Store(r)
  PROVE  TypeInv'
<1>1. key[r] \in Keys /\ buf[r] # None BY DEF Store, TypeInv, CarriedInv
<1>2. ListOK' BY <1>1, SetKeepsList DEF Store, TypeInv
<1>3. /\ Goto(r, "idle") \/ Goto(r, "next")
      /\ key' = [key EXCEPT ![r] = None] /\ buf' = [buf EXCEPT ![r] = None]
  BY UseGoesOn DEF Store
<1>4. entry' = [j \in Keys |-> entry'[j]]
  <2>1. PICK kept : entry' = [j \in Keys |-> IF j = key[r] THEN buf[r]
                                 ELSE IF j \in ToSet(kept) THEN entry[j] ELSE None]
    BY DEF Store, Set
  <2> QED BY <2>1
<1>5. missed' \subseteq Readers /\ late' \subseteq Keys
  BY <1>1 DEF Store, TypeInv, RestOK
<1>6. UNCHANGED <<here, quiet>> BY DEF Store
<1> QED BY <1>2, <1>3, <1>4, <1>5, <1>6, ReaderSteps DEF ReaderStates

(* The other steps of readers leave the cache alone.                       *)
LEMMA OtherReaderSteps ==
  ASSUME Shape, TypeInv, NEW r \in Readers,
         \/ BeginSearch(r) \/ EndSearch(r) \/ ReadDir(r) \/ ReadDirFails(r)
         \/ BeginMeasure(r) \/ Measure(r) \/ EndMeasure(r)
  PROVE  TypeInv'
<1>1. UNCHANGED <<here, quiet, missed, late, entry, lru>>
  BY DEF BeginSearch, EndSearch, ReadDir, ReadDirFails, BeginMeasure, Measure,
         EndMeasure, history, archive
<1>2. /\ entry' = [j \in Keys |-> entry'[j]] /\ ListOK'
      /\ missed' \subseteq Readers /\ late' \subseteq Keys
  BY <1>1 DEF Shape, TypeInv, RestOK, ListOK
<1>3. CASE ReadDir(r)
  <2>1. /\ Goto(r, "store") /\ key' = key
        /\ buf' = [buf EXCEPT ![r] = Listing(here, key[r])]
    BY <1>3 DEF ReadDir
  <2>2. key[r] \in Keys BY <1>3 DEF ReadDir, TypeInv, CarriedInv
  <2>3. Listing(here, key[r]) # None BY <2>2, NoListing DEF TypeInv, RestOK
  <2>4. buf'[r] # None BY <2>1, <2>3 DEF Shape
  <2> QED BY <1>1, <1>2, <2>1, <2>2, <2>4, ReaderSteps DEF ReaderStates
<1>4. CASE ReadDirFails(r)
  <2>1. /\ Goto(r, "idle") \/ Goto(r, "next")
        /\ key' = [key EXCEPT ![r] = None] /\ buf' = [buf EXCEPT ![r] = None]
    BY <1>4, FailureGoesOn
  <2> QED BY <1>1, <1>2, <2>1, ReaderSteps DEF ReaderStates
<1>5. CASE BeginSearch(r) \/ EndSearch(r) \/ BeginMeasure(r) \/ Measure(r) \/ EndMeasure(r)
  <2>1. /\ Goto(r, "next") \/ Goto(r, "idle") \/ Goto(r, "measure") \/ Goto(r, "measured")
        /\ key' = key \/ key' = [key EXCEPT ![r] = None]
        /\ \/ buf' = buf \/ buf' = [buf EXCEPT ![r] = None]
           \/ buf' = [buf EXCEPT ![r] = here]
    BY <1>5 DEF BeginSearch, EndSearch, BeginMeasure, Measure, EndMeasure, Return
  <2> QED BY <1>1, <1>2, <2>1, ReaderSteps DEF ReaderStates
<1> QED BY <1>3, <1>4, <1>5

LEMMA ToggleTypes ==
  ASSUME RestOK, NEW p \in Places, Toggle(p)
  PROVE  Fixed \subseteq here' /\ here' \subseteq Places
BY DEF RestOK, Toggle

LEMMA WriterTypes ==
  ASSUME Shape, TypeInv, NEW w \in Writers,
         (\E p \in Places : Change(w, p)) \/ Invalidate(w) \/ InvalidateUsage(w)
  PROVE  TypeInv'
<1>1. UNCHANGED <<key, buf>> BY DEF Change, Invalidate, InvalidateUsage
<1>2. \A r \in Readers : pc'[r] = pc[r]
  <2>1. \A r \in Readers : r # w BY CacheAssumption
  <2> QED BY <2>1 DEF Shape, Goto, Change, Invalidate, InvalidateUsage
<1>3. \A r \in Readers : CarriedInv(r)' BY <1>1, <1>2 DEF TypeInv, CarriedInv
<1>4. CASE \E p \in Places : Change(w, p)
  <2>1. UNCHANGED <<entry, lru, missed, late, quiet>> BY <1>4 DEF Change, history
  <2>2. Fixed \subseteq here' /\ here' \subseteq Places
    BY <1>4, ToggleTypes DEF Change, TypeInv
  <2>3. ListOK' BY <2>1 DEF TypeInv, ListOK
  <2>4. RestOK' BY <1>1, <2>1, <2>2 DEF TypeInv, RestOK
  <2> QED BY <1>3, <2>3, <2>4 DEF TypeInv
<1>5. CASE Invalidate(w)
  <2>1. ListOK'
    <3>1. lru' = << >> /\ entry' = [k \in Keys |-> None] BY <1>5 DEF Invalidate
    <3>2. lru' \in Seq(Keys) /\ Len(lru') = 0 /\ DOMAIN lru' = {} BY <3>1
    <3> QED BY <3>1, <3>2, CacheAssumption DEF ListOK, IsInjective, ToSet
  <2>2. RestOK' BY <1>1, <1>5 DEF TypeInv, RestOK, Invalidate
  <2> QED BY <1>3, <2>1, <2>2 DEF TypeInv
<1>6. CASE InvalidateUsage(w)
  <2>1. UNCHANGED <<here, entry, lru, missed, late>> /\ quiet' \subseteq quiet
    BY <1>6 DEF InvalidateUsage, archive
  <2>2. ListOK' BY <2>1 DEF TypeInv, ListOK
  <2>3. RestOK' BY <1>1, <2>1 DEF TypeInv, RestOK
  <2> QED BY <1>3, <2>2, <2>3 DEF TypeInv
<1> QED BY <1>4, <1>5, <1>6

LEMMA TypeStep == Shape /\ TypeInv /\ [Next]_vars => TypeInv'
<1> SUFFICES ASSUME Shape, TypeInv, [Next]_vars PROVE TypeInv'
  OBVIOUS
<1>1. CASE \E r \in Readers, k \in Keys : Tree(r, k) \/ Search(r, k)
  BY <1>1, GetTypes DEF Tree, Search
<1>2. CASE \E r \in Readers : Store(r)
  BY <1>2, StoreTypes
<1>3. CASE \E r \in Readers :
             \/ BeginSearch(r) \/ EndSearch(r) \/ ReadDir(r) \/ ReadDirFails(r)
             \/ BeginMeasure(r) \/ Measure(r) \/ EndMeasure(r)
  BY <1>3, OtherReaderSteps
<1>4. CASE \E w \in Writers : (\E p \in Places : Change(w, p)) \/ Invalidate(w) \/ InvalidateUsage(w)
  BY <1>4, WriterTypes
<1>5. CASE \E p \in Places : ChangeQuietly(p)
  <2>1. Fixed \subseteq here' /\ here' \subseteq Places
    BY <1>5, ToggleTypes DEF ChangeQuietly, TypeInv
  <2> QED BY <1>5, <2>1 DEF ChangeQuietly, TypeInv, ListOK, RestOK, CarriedInv
<1>6. CASE UsageExpires \/ UNCHANGED vars
  BY <1>6 DEF UsageExpires, vars, archive, history, TypeInv, ListOK, RestOK, CarriedInv
<1> QED BY <1>1, <1>2, <1>3, <1>4, <1>5, <1>6 DEF Next

LEMMA TypesInitially == Init => TypeInv
<1> SUFFICES ASSUME Init PROVE TypeInv
  OBVIOUS
<1>1. ListOK
  <2>1. lru = << >> /\ entry = [k \in Keys |-> None] BY DEF Init
  <2>2. lru \in Seq(Keys) /\ Len(lru) = 0 /\ DOMAIN lru = {} BY <2>1
  <2> QED BY <2>1, <2>2, CacheAssumption DEF ListOK, IsInjective, ToSet
<1> QED BY <1>1, CacheAssumption DEF Init, TypeInv, RestOK, CarriedInv

LEMMA TypeInvariant == Spec => []TypeInv
<1>1. CacheInv => Shape BY DEF CacheInv
<1>2. CacheInv /\ TypeInv /\ [Next]_vars => TypeInv' BY <1>1, TypeStep
<1> QED BY <1>2, TypesInitially, CacheInvariant, PTL DEF Spec

(* The map and the list of the cache (cache.go:11-15) hold the same keys,  *)
(* no key twice and never more than dirCacheMaxEntries, whatever the cap   *)
(* and however gets, sets, evictions and invalidations interleave.         *)
THEOREM TypeCorrect == Spec => []TypeOK
<1>1. Shape /\ TypeInv => TypeOK
  BY DEF Shape, TypeInv, ListOK, RestOK, TypeOK, ReaderStates, WriterStates
<1>2. CacheInv => Shape BY DEF CacheInv
<1> QED BY <1>1, <1>2, CacheInvariant, TypeInvariant, PTL

-----------------------------------------------------------------------------
(* The path vault.                                                         *)

LEMMA LeastNumber ==
  ASSUME NEW T \in SUBSET Nat, T # {}
  PROVE  \E n \in T : \A m \in T : n <= m
<1>1. PICK n \in T : \A m \in T : ~ (<<m, n>> \in OpToRel(<, Nat))
  BY NatLessThanWellFounded, WFMin
<1>2. \A m \in T : ~ (m < n)
  BY <1>1, Zenon DEF OpToRel
<1> QED BY <1>2

LEMMA Induction ==
  ASSUME NEW S, 0 \in S, \A n \in Nat : n \in S => n + 1 \in S
  PROVE  Nat \subseteq S
<1> SUFFICES ASSUME Nat \ S # {} PROVE FALSE
  OBVIOUS
<1>1. PICK n \in Nat \ S : \A m \in Nat \ S : n <= m
  BY LeastNumber
<1>2. n # 0 /\ n - 1 \in Nat /\ n - 1 \in S /\ (n - 1) + 1 = n
  BY <1>1
<1> QED BY <1>1, <1>2

(* A sequence of steps, each a function of its number and of what was      *)
(* before it, exists.                                                      *)
Runs(f, D, b, n, F) ==
  f \in [0 .. n -> D] /\ f[0] = b /\ \A k \in 1 .. n : f[k] = F[k][f[k - 1]]

LEMMA Recursion ==
  ASSUME NEW D, NEW b \in D, NEW n \in Nat, NEW F \in [1 .. n -> [D -> D]]
  PROVE  \E f : Runs(f, D, b, n, F)
<1> DEFINE Goes(f, m) == f[0] = b /\ \A k \in 1 .. m : f[k] = F[k][f[k - 1]]
           T == {m \in Nat : m <= n => \E f \in [0 .. m -> D] : Goes(f, m)}
<1>1. 0 \in T
  <2> DEFINE f == [k \in 0 .. 0 |-> b]
  <2>1. f \in [0 .. 0 -> D] /\ f[0] = b /\ 1 .. 0 = {} OBVIOUS
  <2> QED BY <2>1
<1>2. ASSUME NEW m \in Nat, m \in T PROVE m + 1 \in T
  <2> SUFFICES ASSUME m + 1 <= n PROVE \E f \in [0 .. m + 1 -> D] : Goes(f, m + 1)
    OBVIOUS
  <2>1. PICK f \in [0 .. m -> D] : Goes(f, m) BY <1>2
  <2> DEFINE g == [k \in 0 .. m + 1 |-> IF k = m + 1 THEN F[m + 1][f[m]] ELSE f[k]]
  <2>2. m + 1 \in 1 .. n /\ f[m] \in D BY <1>2
  <2>3. F[m + 1][f[m]] \in D BY <2>2
  <2>4. g \in [0 .. m + 1 -> D]
    <3>1. \A k \in 0 .. m + 1 : k = m + 1 \/ k \in 0 .. m BY <1>2
    <3> QED BY <2>3, <3>1
  <2>5. /\ g[m + 1] = F[m + 1][f[m]] /\ \A k \in 0 .. m : g[k] = f[k]
    BY <1>2
  <2> HIDE DEF g
  <2>6. g[0] = b BY <1>2, <2>1, <2>5
  <2>7. ASSUME NEW k \in 1 .. m + 1 PROVE g[k] = F[k][g[k - 1]]
    <3>1. CASE k = m + 1
      <4>1. k - 1 = m /\ m \in 0 .. m BY <1>2, <3>1
      <4> QED BY <2>5, <3>1, <4>1
    <3>2. CASE k # m + 1
      <4>1. k \in 1 .. m /\ k \in 0 .. m /\ k - 1 \in 0 .. m BY <1>2, <3>2
      <4> QED BY <2>1, <2>5, <4>1
    <3> QED BY <3>1, <3>2
  <2> QED BY <2>4, <2>6, <2>7
<1> HIDE DEF T
<1>3. Nat \subseteq T BY <1>1, <1>2, Induction
<1>4. n \in T BY <1>3
<1> QED BY <1>4 DEF T, Runs

(* What holds at first and passes from each step to the next holds of all. *)
LEMMA Along ==
  ASSUME NEW n \in Nat, NEW S, 0 \in S, \A k \in 1 .. n : k - 1 \in S => k \in S
  PROVE  0 .. n \subseteq S
<1> DEFINE T == {k \in Nat : k <= n => k \in S}
<1>1. 0 \in T OBVIOUS
<1>2. ASSUME NEW k \in Nat, k \in T PROVE k + 1 \in T
  <2>1. k + 1 <= n => k + 1 \in 1 .. n /\ (k + 1) - 1 = k /\ k <= n OBVIOUS
  <2> QED BY <1>2, <2>1
<1> HIDE DEF T
<1>3. Nat \subseteq T BY <1>1, <1>2, Induction
<1> QED BY <1>3 DEF T

LEMMA OneMore ==
  ASSUME NEW M, NEW p \in Seq(M), NEW x \in M
  PROVE  LET q == Append(p, x)
         IN /\ q \in Seq(M) /\ Len(q) = Len(p) + 1 /\ q # Root /\ Front(q) = p
            /\ \A i \in 1 .. Len(p) : SubSeq(q, 1, i) = SubSeq(p, 1, i)
            /\ SubSeq(q, 1, Len(p) + 1) = q
            /\ ~ HasHidden(p) /\ x \notin Hidden => ~ HasHidden(q)
<1> DEFINE q == Append(p, x)
<1>1. /\ q \in Seq(M) /\ Len(q) = Len(p) + 1 /\ Len(p) \in Nat
      /\ \A i \in 1 .. Len(p) : q[i] = p[i]
      /\ q[Len(p) + 1] = x
  OBVIOUS
<1> HIDE DEF q
<1>2. q # Root
  <2>1. Len(Root) = 0 BY DEF Root
  <2> QED BY <1>1, <2>1
<1>3. ASSUME NEW i \in 1 .. Len(p) PROVE SubSeq(q, 1, i) = SubSeq(p, 1, i)
  <2>1. /\ SubSeq(q, 1, i) \in Seq(M) /\ Len(SubSeq(q, 1, i)) = i
        /\ \A j \in 1 .. i : SubSeq(q, 1, i)[j] = q[1 + j - 1]
    BY <1>1, SubSeqProperties
  <2>2. /\ SubSeq(p, 1, i) \in Seq(M) /\ Len(SubSeq(p, 1, i)) = i
        /\ \A j \in 1 .. i : SubSeq(p, 1, i)[j] = p[1 + j - 1]
    BY <1>1, SubSeqProperties
  <2>3. \A j \in 1 .. i : 1 + j - 1 = j /\ q[j] = p[j] BY <1>1
  <2>4. \A j \in 1 .. i : SubSeq(q, 1, i)[j] = SubSeq(p, 1, i)[j] BY <2>1, <2>2, <2>3
  <2> QED BY <2>1, <2>2, <2>4, SeqEqual
<1>4. SubSeq(q, 1, Len(p) + 1) = q
  <2>1. /\ SubSeq(q, 1, Len(q)) \in Seq(M) /\ Len(SubSeq(q, 1, Len(q))) = Len(q)
        /\ \A j \in 1 .. Len(q) : SubSeq(q, 1, Len(q))[j] = q[1 + j - 1]
    BY <1>1, SubSeqProperties
  <2>2. \A j \in 1 .. Len(q) : 1 + j - 1 = j BY <1>1
  <2>3. SubSeq(q, 1, Len(q)) = q BY <1>1, <2>1, <2>2, SeqEqual
  <2> QED BY <1>1, <2>3
<1>5. Front(q) = p
  <2>1. Front(q) = SubSeq(q, 1, Len(q) - 1) BY DEF Front
  <2>2. /\ Front(q) \in Seq(M) /\ Len(Front(q)) = Len(p)
        /\ \A j \in 1 .. Len(p) : Front(q)[j] = q[1 + j - 1]
    BY <1>1, <2>1, SubSeqProperties
  <2>3. \A j \in 1 .. Len(p) : 1 + j - 1 = j BY <1>1
  <2> QED BY <1>1, <2>2, <2>3, SeqEqual
<1>6. ASSUME ~ HasHidden(p), x \notin Hidden PROVE ~ HasHidden(q)
  <2>1. \A i \in DOMAIN q : i \in DOMAIN p \/ i = Len(p) + 1 BY <1>1
  <2>2. \A i \in DOMAIN p : q[i] = p[i] BY <1>1
  <2> QED BY <1>1, <1>6, <2>1, <2>2 DEF HasHidden
<1> QED BY <1>1, <1>2, <1>3, <1>4, <1>5, <1>6 DEF q

(* Cleaning a path, name by name.                                          *)
LEMMA AddNameIsPath ==
  ASSUME NEW M, NEW done \in Seq(M), NEW x \in M
  PROVE  AddName(done, x) \in Seq(M)
<1>1. done # Root => Front(done) \in Seq(M)
  <2> SUFFICES ASSUME done # Root PROVE Front(done) \in Seq(M) OBVIOUS
  <2>1. Len(done) \in Nat /\ Len(done) > 0
    <3>1. Len(done) \in Nat /\ (Len(done) = 0 => done = << >>) OBVIOUS
    <3> QED BY <3>1 DEF Root
  <2> QED BY <2>1, SubSeqProperties DEF Front
<1>2. Append(done, x) \in Seq(M) /\ Root \in Seq(M) BY DEF Root
<1> QED BY <1>1, <1>2 DEF AddName

LEMMA CleanGoes ==
  ASSUME NEW M, NEW path \in Seq(M)
  PROVE  \E g : /\ g[0] = Root
                /\ \A k \in 1 .. Len(path) : g[k] = AddName(g[k - 1], path[k])
                /\ Clean(path) = g[Len(path)]
<1> DEFINE n == Len(path)
           D == Seq(M)
           F == [k \in 1 .. n |-> [done \in D |-> AddName(done, path[k])]]
           Is(g) == g = [k \in 0 .. n |-> IF k = 0 THEN Root ELSE AddName(g[k - 1], path[k])]
<1>0. n \in Nat /\ \A k \in 1 .. n : path[k] \in M OBVIOUS
<1>1. F \in [1 .. n -> [D -> D]]
  <2>1. \A k \in 1 .. n : \A done \in D : AddName(done, path[k]) \in D
    BY <1>0, AddNameIsPath
  <2> HIDE DEF D
  <2> QED BY <2>1
<1>2. Root \in D BY DEF Root
<1>3. PICK f \in [0 .. n -> D] : f[0] = Root /\ \A k \in 1 .. n : f[k] = F[k][f[k - 1]]
  <2> HIDE DEF F, n, D, Is
  <2>1. n \in Nat /\ Root \in D /\ F \in [1 .. n -> [D -> D]] BY <1>0, <1>1, <1>2
  <2>2. \E f : Runs(f, D, Root, n, F) BY <2>1, Recursion
  <2> QED BY <2>2 DEF Runs
<1>4. Is(f)
  <2>1. ASSUME NEW k \in 0 .. n
        PROVE  f[k] = IF k = 0 THEN Root ELSE AddName(f[k - 1], path[k])
    <3>1. CASE k = 0 BY <1>3, <3>1
    <3>2. CASE k # 0
      <4>1. k \in 1 .. n /\ k - 1 \in 0 .. n BY <1>0, <3>2
      <4>2. f[k] = F[k][f[k - 1]] /\ f[k - 1] \in D BY <1>3, <4>1
      <4> HIDE DEF D, n
      <4> QED BY <3>2, <4>1, <4>2
    <3> QED BY <3>1, <3>2
  <2>2. f = [k \in 0 .. n |-> f[k]] OBVIOUS
  <2> HIDE DEF n, F, D
  <2> QED BY <2>1, <2>2
<1> DEFINE g == CHOOSE u : Is(u)
<1>5. Is(g) BY <1>4
<1>6. Clean(path) = g[n] BY DEF Clean
<1> HIDE DEF g
<1>7. g[0] = Root BY <1>0, <1>5
<1>8. ASSUME NEW k \in 1 .. n PROVE g[k] = AddName(g[k - 1], path[k])
  <2>1. k \in 0 .. n /\ k # 0 BY <1>0
  <2> QED BY <1>5, <2>1
<1> QED BY <1>6, <1>7, <1>8

LEMMA CleanIsPath ==
  ASSUME NEW M, NEW path \in Seq(M)
  PROVE  Clean(path) \in Seq(M)
<1> DEFINE n == Len(path)
<1>0. n \in Nat /\ \A k \in 1 .. n : path[k] \in M OBVIOUS
<1>1. PICK g : /\ g[0] = Root
               /\ \A k \in 1 .. n : g[k] = AddName(g[k - 1], path[k])
               /\ Clean(path) = g[n]
  BY CleanGoes
<1> DEFINE S == {k \in 0 .. n : g[k] \in Seq(M)}
<1> HIDE DEF n
<1>2. 0 \in S
  <2>1. 0 \in 0 .. n /\ Root \in Seq(M) BY <1>0 DEF Root
  <2> QED BY <1>1, <2>1
<1>3. ASSUME NEW k \in 1 .. n, k - 1 \in S PROVE k \in S
  <2>1. k \in 0 .. n /\ g[k - 1] \in Seq(M) BY <1>0, <1>3
  <2> QED BY <1>0, <1>1, <2>1, AddNameIsPath
<1> HIDE DEF S
<1>4. 0 .. n \subseteq S BY <1>0, <1>2, <1>3, Along
<1> QED BY <1>0, <1>1, <1>4 DEF S

(* The archive is a tree of places.                                        *)
Grown(h) == h \subseteq Places /\ \A p \in h : IsDir(h, Front(p))

Walker(M) == [at : Seq(M), st : {"ok", "missing", "denied"}]

LEMMA PlacesAreSequences ==
  ASSUME NEW M, NamesUsed \subseteq M
  PROVE  \A p \in Places : p \in Seq(M)
<1>1. \A p \in Places : p \in Seq(NamesUsed) BY PlacesAssumption
<1>2. \A p \in Seq(NamesUsed) : p \in Seq(M) OBVIOUS
<1> QED BY <1>1, <1>2

LEMMA EnterIsWalker ==
  ASSUME NEW M, NamesUsed \subseteq M, NEW h \in SUBSET Places,
         NEW w \in Walker(M), NEW x \in M
  PROVE  Enter(h, w, x) \in Walker(M)
<1> DEFINE q == Append(w.at, x)
<1>1. w = [at |-> w.at, st |-> w.st] /\ w.at \in Seq(M) /\ w.st \in {"ok", "missing", "denied"}
  BY DEF Walker
<1>2. q \in Seq(M) BY <1>1
<1>3. Root \in Seq(M) BY DEF Root
<1>4. Follow(h, q) \in Walker(M)
  <2>1. CASE Target[q] \in h /\ ~ HasHidden(Target[q])
    <3>1. Target[q] \in Seq(M) BY <2>1, PlacesAreSequences
    <3>2. Follow(h, q) = [at |-> Target[q], st |-> "ok"] BY <2>1 DEF Follow
    <3> QED BY <3>1, <3>2 DEF Walker
  <2>2. CASE ~ (Target[q] \in h /\ ~ HasHidden(Target[q]))
    <3>1. Follow(h, q) = [at |-> Root, st |-> "denied"] BY <2>2 DEF Follow
    <3> QED BY <1>3, <3>1 DEF Walker
  <2> QED BY <2>1, <2>2
<1> HIDE DEF q
<1>5. /\ [w EXCEPT !.at = q] \in Walker(M)
      /\ [w EXCEPT !.st = "denied"] \in Walker(M)
      /\ [at |-> q, st |-> "missing"] \in Walker(M)
  BY <1>1, <1>2 DEF Walker
<1>6. CASE w.st = "denied" BY <1>6 DEF Enter
<1>7. CASE w.st = "missing" BY <1>5, <1>7 DEF Enter, q
<1>8. CASE w.st = "ok" BY <1>4, <1>5, <1>8 DEF Enter, q
<1> QED BY <1>1, <1>6, <1>7, <1>8

LEMMA OpenIsPath ==
  ASSUME NEW M, NamesUsed \subseteq M, "denied" \in M, NEW h \in SUBSET Places,
         NEW at \in Seq(M), NEW x \in M
  PROVE  Open(h, at, x) \in Seq(M)
<1>1. Append(at, x) \in Seq(M) OBVIOUS
<1>2. Denied \in Seq(M) BY DEF Denied
<1>3. Target[Append(at, x)] \in h => Target[Append(at, x)] \in Seq(M)
  BY PlacesAreSequences
<1> QED BY <1>1, <1>2, <1>3 DEF Open

(* The walk, name by name.                                                 *)
LEMMA WalkGoes ==
  ASSUME NEW M, NamesUsed \subseteq M, NEW h \in SUBSET Places, NEW names \in Seq(M)
  PROVE  \E g : /\ g[0] = [at |-> Root, st |-> "ok"]
                /\ \A k \in 1 .. Len(names) : g[k] = Enter(h, g[k - 1], names[k])
                /\ Walk(h, names) = g[Len(names)]
<1> DEFINE n == Len(names)
           b == [at |-> Root, st |-> "ok"]
           D == Walker(M)
           F == [k \in 1 .. n |-> [w \in D |-> Enter(h, w, names[k])]]
           Is(g) == g = [k \in 0 .. n |-> IF k = 0 THEN b ELSE Enter(h, g[k - 1], names[k])]
<1>0. n \in Nat /\ \A k \in 1 .. n : names[k] \in M OBVIOUS
<1>1. F \in [1 .. n -> [D -> D]]
  <2>1. \A k \in 1 .. n : \A w \in D : Enter(h, w, names[k]) \in D BY <1>0, EnterIsWalker
  <2> HIDE DEF D
  <2> QED BY <2>1
<1>2. b \in D BY DEF Walker, Root
<1>3. PICK f \in [0 .. n -> D] : f[0] = b /\ \A k \in 1 .. n : f[k] = F[k][f[k - 1]]
  <2> HIDE DEF F, n, D, b, Is
  <2>1. n \in Nat /\ b \in D /\ F \in [1 .. n -> [D -> D]] BY <1>0, <1>1, <1>2
  <2>2. \E f : Runs(f, D, b, n, F)
    BY <2>1, Recursion
  <2> QED BY <2>2 DEF Runs
<1>4. Is(f)
  <2>1. ASSUME NEW k \in 0 .. n
        PROVE  f[k] = IF k = 0 THEN b ELSE Enter(h, f[k - 1], names[k])
    <3>1. CASE k = 0 BY <1>3, <3>1
    <3>2. CASE k # 0
      <4>1. k \in 1 .. n /\ k - 1 \in 0 .. n BY <1>0, <3>2
      <4>2. f[k] = F[k][f[k - 1]] /\ f[k - 1] \in D BY <1>3, <4>1
      <4> HIDE DEF D, n
      <4> QED BY <3>2, <4>1, <4>2
    <3> QED BY <3>1, <3>2
  <2>2. f = [k \in 0 .. n |-> f[k]] OBVIOUS
  <2> HIDE DEF n, F, D, b
  <2> QED BY <2>1, <2>2
<1> DEFINE g == CHOOSE u : Is(u)
<1>5. Is(g) BY <1>4
<1>6. Walk(h, names) = g[n] BY DEF Walk
<1> HIDE DEF g, b
<1>7. g[0] = b BY <1>0, <1>5
<1>8. ASSUME NEW k \in 1 .. n PROVE g[k] = Enter(h, g[k - 1], names[k])
  <2>1. k \in 0 .. n /\ k # 0 BY <1>0
  <2> QED BY <1>5, <2>1
<1> QED BY <1>6, <1>7, <1>8 DEF b

(* What the operating system passes, name by name.                         *)
LEMMA StationsGo ==
  ASSUME NEW M, NamesUsed \subseteq M, "denied" \in M, NEW h \in SUBSET Places,
         NEW names \in Seq(M)
  PROVE  LET g == Stations(h, names)
         IN g[0] = Root /\ \A k \in 1 .. Len(names) : g[k] = Open(h, g[k - 1], names[k])
<1> DEFINE n == Len(names)
           D == Seq(M)
           F == [k \in 1 .. n |-> [at \in D |-> Open(h, at, names[k])]]
           Is(g) == g = [k \in 0 .. n |-> IF k = 0 THEN Root ELSE Open(h, g[k - 1], names[k])]
<1>0. n \in Nat /\ \A k \in 1 .. n : names[k] \in M OBVIOUS
<1>1. F \in [1 .. n -> [D -> D]]
  <2>1. \A k \in 1 .. n : \A at \in D : Open(h, at, names[k]) \in D BY <1>0, OpenIsPath
  <2> HIDE DEF D
  <2> QED BY <2>1
<1>2. Root \in D BY DEF Root
<1>3. PICK f \in [0 .. n -> D] : f[0] = Root /\ \A k \in 1 .. n : f[k] = F[k][f[k - 1]]
  <2> HIDE DEF F, n, D, Is
  <2>1. n \in Nat /\ Root \in D /\ F \in [1 .. n -> [D -> D]] BY <1>0, <1>1, <1>2
  <2>2. \E f : Runs(f, D, Root, n, F)
    BY <2>1, Recursion
  <2> QED BY <2>2 DEF Runs
<1>4. Is(f)
  <2>1. ASSUME NEW k \in 0 .. n
        PROVE  f[k] = IF k = 0 THEN Root ELSE Open(h, f[k - 1], names[k])
    <3>1. CASE k = 0 BY <1>3, <3>1
    <3>2. CASE k # 0
      <4>1. k \in 1 .. n /\ k - 1 \in 0 .. n BY <1>0, <3>2
      <4>2. f[k] = F[k][f[k - 1]] /\ f[k - 1] \in D BY <1>3, <4>1
      <4> HIDE DEF D, n
      <4> QED BY <3>2, <4>1, <4>2
    <3> QED BY <3>1, <3>2
  <2>2. f = [k \in 0 .. n |-> f[k]] OBVIOUS
  <2> HIDE DEF n, F, D
  <2> QED BY <2>1, <2>2
<1> DEFINE g == CHOOSE u : Is(u)
<1>5. Is(g) BY <1>4
<1>6. Stations(h, names) = g BY DEF Stations
<1> HIDE DEF g
<1>7. g[0] = Root BY <1>0, <1>5
<1>8. ASSUME NEW k \in 1 .. n PROVE g[k] = Open(h, g[k - 1], names[k])
  <2>1. k \in 0 .. n /\ k # 0 BY <1>0
  <2> QED BY <1>5, <2>1
<1> QED BY <1>6, <1>7, <1>8

(* No name on the way to p is a link.                                      *)
Straight(h, p) ==
  \A i \in 1 .. Len(p) : SubSeq(p, 1, i) \in h => Kind[SubSeq(p, 1, i)] # "link"

(* How the walk stands to where the system gets with the same names.       *)
Together(h, w, at, hidden) ==
  /\ w.st = "ok" =>
       /\ at = w.at /\ ~ HasHidden(w.at) /\ Straight(h, w.at)
       /\ w.at = Root \/ w.at \in h
  /\ w.st = "missing" =>
       /\ at = Denied /\ ~ HasHidden(w.at) /\ Straight(h, w.at)
       /\ w.at # Root /\ w.at \notin h
  /\ w.st = "denied" => at = Denied \/ hidden

LEMMA PlaceIsStraight ==
  ASSUME NEW h \in SUBSET Places, NEW p \in h, Kind[p] # "link"
  PROVE  Straight(h, p)
<1>1. p \in Seq(NamesUsed) BY PlacesAssumption
<1> SUFFICES ASSUME NEW i \in 1 .. Len(p), SubSeq(p, 1, i) \in h
             PROVE  Kind[SubSeq(p, 1, i)] # "link"
  BY DEF Straight
<1>2. CASE i = Len(p)
  <2>1. /\ SubSeq(p, 1, i) \in Seq(NamesUsed) /\ Len(SubSeq(p, 1, i)) = Len(p)
        /\ \A j \in 1 .. Len(p) : SubSeq(p, 1, i)[j] = p[1 + j - 1]
    BY <1>1, <1>2, SubSeqProperties
  <2>2. \A j \in 1 .. Len(p) : 1 + j - 1 = j BY <1>1
  <2>3. SubSeq(p, 1, i) = p BY <1>1, <2>1, <2>2, SeqEqual
  <2> QED BY <2>3
<1>3. CASE i # Len(p)
  <2>1. i \in 1 .. Len(p) - 1 BY <1>1, <1>3
  <2> QED BY <2>1, PlacesAreStraight
<1> QED BY <1>2, <1>3

(* Going on to a name that is not there leaves the way straight.           *)
LEMMA StillStraight ==
  ASSUME NEW M, NEW h, NEW p \in Seq(M), NEW x \in M, Straight(h, p), Append(p, x) \notin h
  PROVE  Straight(h, Append(p, x))
<1> DEFINE q == Append(p, x)
<1>1. /\ Len(q) = Len(p) + 1 /\ SubSeq(q, 1, Len(p) + 1) = q
      /\ \A i \in 1 .. Len(p) : SubSeq(q, 1, i) = SubSeq(p, 1, i)
  BY OneMore
<1> HIDE DEF q
<1> SUFFICES ASSUME NEW i \in 1 .. Len(q), SubSeq(q, 1, i) \in h
             PROVE  Kind[SubSeq(q, 1, i)] # "link"
  BY DEF Straight, q
<1>2. Len(p) \in Nat OBVIOUS
<1>a. q \notin h BY DEF q
<1>b. i # Len(p) + 1 BY <1>1, <1>a
<1>3. i \in 1 .. Len(p) BY <1>1, <1>2, <1>b
<1> QED BY <1>1, <1>3 DEF Straight

LEMMA StayTogether ==
  ASSUME NEW M, NamesUsed \subseteq M, "denied" \in M, NEW h, Grown(h),
         NEW w \in Walker(M), NEW at \in Seq(M), NEW hidden \in BOOLEAN,
         NEW x \in M, x \notin Hidden, Together(h, w, at, hidden)
  PROVE  LET to == Open(h, at, x)
         IN Together(h, Enter(h, w, x), to, hidden \/ HasHidden(to))
<1> DEFINE q == Append(w.at, x)
           to == Open(h, at, x)
           v == Enter(h, w, x)
<1>0. /\ w = [at |-> w.at, st |-> w.st] /\ w.at \in Seq(M)
      /\ w.st \in {"ok", "missing", "denied"} /\ h \in SUBSET Places
  BY DEF Walker, Grown
<1>1. /\ q \in Seq(M) /\ q # Root /\ Front(q) = w.at
      /\ ~ HasHidden(w.at) => ~ HasHidden(q)
  BY <1>0, OneMore
<1> HIDE DEF q
<1>2. at = Denied => to = Denied BY DEF Open
<1>3. Denied # Root BY DEF Denied, Root
<1>4. CASE w.st = "denied"
  <2>1. v = w BY <1>4 DEF Enter
  <2> QED BY <1>2, <1>4, <2>1 DEF Together
<1>5. CASE w.st = "missing"
  <2>1. v = [at |-> q, st |-> "missing"] BY <1>0, <1>5 DEF Enter, q
  <2>2. q \notin h
    <3> SUFFICES ASSUME q \in h PROVE FALSE OBVIOUS
    <3>1. IsDir(h, w.at) BY <1>1 DEF Grown
    <3> QED BY <1>5, <3>1 DEF Together, IsDir
  <2>3. Straight(h, q) BY <1>0, <1>5, <2>2, StillStraight DEF Together, q
  <2> QED BY <1>1, <1>2, <1>5, <2>1, <2>2, <2>3 DEF Together
<1>6. CASE w.st = "ok"
  <2>0. /\ at = w.at /\ ~ HasHidden(w.at) /\ Straight(h, w.at)
        /\ w.at = Root \/ w.at \in h
    BY <1>6 DEF Together
  <2>1. CASE ~ IsDir(h, w.at)
    <3>1. v = [at |-> w.at, st |-> "denied"] BY <1>0, <1>6, <2>1 DEF Enter
    <3>2. to = Denied BY <2>0, <2>1 DEF Open
    <3> QED BY <3>1, <3>2 DEF Together
  <2>2. CASE IsDir(h, w.at) /\ q \notin h
    <3>1. v = [at |-> q, st |-> "missing"] BY <1>6, <2>2 DEF Enter, q
    <3>2. to = Denied BY <2>0, <2>2 DEF Open, q
    <3>3. Straight(h, q) BY <1>0, <2>0, <2>2, StillStraight DEF q
    <3> QED BY <1>1, <2>0, <2>2, <3>1, <3>2, <3>3 DEF Together
  <2>3. CASE IsDir(h, w.at) /\ q \in h
    <3>0. at # Denied
      <4>1. Denied \notin h BY <1>0, DeniedAssumption
      <4> QED BY <1>3, <2>0, <4>1
    <3>1. CASE Kind[q] # "link"
      <4>1. v = [at |-> q, st |-> "ok"] BY <1>0, <1>6, <2>3, <3>1 DEF Enter, q
      <4>2. to = q BY <2>0, <2>3, <3>0, <3>1 DEF Open, q
      <4>3. Straight(h, q) BY <1>0, <2>3, <3>1, PlaceIsStraight
      <4> QED BY <1>1, <2>0, <2>3, <4>1, <4>2, <4>3 DEF Together
    <3>2. CASE Kind[q] = "link"
      <4>1. v = Follow(h, q) BY <1>6, <2>3, <3>2 DEF Enter, q
      <4>2. to = IF Target[q] \in h THEN Target[q] ELSE Denied
        BY <2>0, <2>3, <3>0, <3>2 DEF Open, q
      <4>3. CASE Target[q] \in h /\ ~ HasHidden(Target[q])
        <5>1. v = [at |-> Target[q], st |-> "ok"] /\ to = Target[q]
          BY <4>1, <4>2, <4>3 DEF Follow
        <5>2. Kind[Target[q]] # "link" BY <1>0, <2>3, <3>2, <4>3, PlacesAreStraight
        <5>3. Straight(h, Target[q]) BY <1>0, <4>3, <5>2, PlaceIsStraight
        <5> QED BY <4>3, <5>1, <5>3 DEF Together
      <4>4. CASE ~ (Target[q] \in h /\ ~ HasHidden(Target[q]))
        <5>1. v.st = "denied" BY <4>1, <4>4 DEF Follow
        <5>2. to = Denied \/ HasHidden(to) BY <4>2, <4>4
        <5> QED BY <5>1, <5>2 DEF Together
      <4> QED BY <4>3, <4>4
    <3> QED BY <3>1, <3>2
  <2> QED BY <2>1, <2>2, <2>3
<1> QED BY <1>0, <1>4, <1>5, <1>6

(* With the names of a request that are not hidden, the walk gets where    *)
(* the system gets, or has a reason not to.                                *)
LEMMA WalkTogether ==
  ASSUME NEW M, NamesUsed \subseteq M, "denied" \in M, NEW h, Grown(h),
         NEW names \in Seq(M), ~ HasHidden(names)
  PROVE  /\ Walk(h, names) \in Walker(M)
         /\ Together(h, Walk(h, names), Reaches(h, names), PassesHidden(h, names))
<1> DEFINE n == Len(names)
           at == Stations(h, names)
           Passed(k) == \E i \in 1 .. k : HasHidden(at[i])
<1>0. /\ n \in Nat /\ DOMAIN names = 1 .. n /\ h \in SUBSET Places
      /\ \A k \in 1 .. n : names[k] \in M /\ names[k] \notin Hidden
  BY DEF HasHidden, Grown
<1>1. PICK g : /\ g[0] = [at |-> Root, st |-> "ok"]
               /\ \A k \in 1 .. n : g[k] = Enter(h, g[k - 1], names[k])
               /\ Walk(h, names) = g[n]
  BY <1>0, WalkGoes
<1>2. at[0] = Root /\ \A k \in 1 .. n : at[k] = Open(h, at[k - 1], names[k])
  BY <1>0, StationsGo
<1> HIDE DEF at, n
<1> DEFINE S == {k \in 0 .. n : /\ g[k] \in Walker(M) /\ at[k] \in Seq(M)
                                /\ Together(h, g[k], at[k], Passed(k))}
<1>3. 0 \in S
  <2>1. Root \in Seq(M) /\ Len(Root) = 0 /\ DOMAIN Root = {} BY DEF Root
  <2>2. ~ HasHidden(Root) BY <2>1 DEF HasHidden
  <2>3. Straight(h, Root)
    <3>1. 1 .. Len(Root) = {} BY <2>1
    <3> QED BY <3>1, Zenon DEF Straight
  <2>4. Together(h, g[0], at[0], Passed(0)) BY <1>1, <1>2, <2>2, <2>3 DEF Together
  <2>5. g[0] \in Walker(M) BY <1>1, <2>1 DEF Walker
  <2>6. 0 \in 0 .. n /\ at[0] \in Seq(M) BY <1>0, <1>2, <2>1
  <2> HIDE DEF Passed
  <2> QED BY <2>4, <2>5, <2>6
<1>4. ASSUME NEW k \in 1 .. n, k - 1 \in S PROVE k \in S
  <2>0. k \in 0 .. n /\ k - 1 \in 0 .. n /\ k \in Nat /\ k > 0 BY <1>0
  <2>1. /\ g[k] = Enter(h, g[k - 1], names[k]) /\ at[k] = Open(h, at[k - 1], names[k])
        /\ names[k] \in M /\ names[k] \notin Hidden
    BY <1>0, <1>1, <1>2
  <2>2. /\ g[k - 1] \in Walker(M) /\ at[k - 1] \in Seq(M)
        /\ Together(h, g[k - 1], at[k - 1], Passed(k - 1))
    BY <1>4
  <2>3. g[k] \in Walker(M) /\ at[k] \in Seq(M)
    BY <1>0, <2>1, <2>2, EnterIsWalker, OpenIsPath
  <2>4. Passed(k) = (Passed(k - 1) \/ HasHidden(at[k]))
    <3>1. \A i \in 1 .. k : i = k \/ i \in 1 .. k - 1 BY <2>0
    <3>2. k \in 1 .. k /\ \A i \in 1 .. k - 1 : i \in 1 .. k BY <2>0
    <3> QED BY <3>1, <3>2
  <2>5. Passed(k - 1) \in BOOLEAN OBVIOUS
  <2> HIDE DEF Passed
  <2>6. Together(h, g[k], at[k], Passed(k - 1) \/ HasHidden(at[k]))
    BY <2>1, <2>2, <2>5, StayTogether
  <2>7. Together(h, g[k], at[k], Passed(k)) BY <2>4, <2>6
  <2> QED BY <2>0, <2>3, <2>7
<1> HIDE DEF S
<1>5. 0 .. n \subseteq S BY <1>0, <1>3, <1>4, Along
<1>6. n \in S BY <1>0, <1>5
<1>7. Reaches(h, names) = at[n] /\ PassesHidden(h, names) = Passed(n)
  BY <1>0 DEF Reaches, PassesHidden, at, n
<1> QED BY <1>1, <1>6, <1>7 DEF S

(* For every archive with any links, and every request path, safePath      *)
(* (path.go:65-159) answers with the place the system would open, never    *)
(* with one that is hidden or that a link leads away from, and it refuses  *)
(* nothing that is reached in the open.                                    *)
THEOREM VaultIsSafe ==
  ASSUME NEW h, Grown(h), NEW N, NEW path \in Seq(N)
  PROVE  Guards(h, path)
<1> DEFINE M == N \cup NamesUsed \cup {"denied"}
           names == Clean(path)
           w == Walk(h, names)
           safe == SafePath(h, path)
           real == Reaches(h, names)
<1>1. names \in Seq(M)
  <2>1. path \in Seq(M) OBVIOUS
  <2> QED BY <2>1, CleanIsPath
<1>2. NamesUsed \subseteq M /\ "denied" \in M OBVIOUS
<1> HIDE DEF M, names
<1>3. safe = IF HasHidden(names) \/ w.st = "denied" \/ HasHidden(w.at) THEN Denied ELSE w.at
  BY DEF SafePath, names
<1>4. CASE HasHidden(names)
  <2>1. safe = Denied BY <1>3, <1>4
  <2> QED BY <1>4, <2>1 DEF Guards, names
<1>5. CASE ~ HasHidden(names)
  <2>1. w \in Walker(M) /\ Together(h, w, real, PassesHidden(h, names))
    BY <1>1, <1>2, <1>5, WalkTogether
  <2>2. w.st \in {"ok", "missing", "denied"} BY <2>1 DEF Walker
  <2> HIDE DEF w, real, safe
  <2>3. ASSUME safe # Denied
        PROVE  /\ ~ HasHidden(safe) /\ Straight(h, safe)
               /\ real # Denied => safe = real
    <3>1. safe = w.at /\ w.st # "denied" /\ ~ HasHidden(w.at) BY <1>3, <2>3
    <3> QED BY <2>1, <2>2, <3>1 DEF Together
  <2>4. ASSUME real # Denied, ~ PassesHidden(h, names)
        PROVE  safe = real
    <3>1. w.st = "ok" BY <2>1, <2>2, <2>4 DEF Together
    <3> QED BY <1>3, <1>5, <2>1, <3>1 DEF Together
  <2>5. ASSUME safe # Denied, NEW p \in Through(h, safe) PROVE Kind[p] # "link"
    <3>1. PICK i \in DOMAIN safe : p = SubSeq(safe, 1, i) /\ p \in h BY <2>5 DEF Through
    <3>2. safe \in Seq(M)
      <4>1. safe = w.at BY <1>3, <2>5
      <4> QED BY <2>1, <4>1 DEF Walker
    <3>3. i \in 1 .. Len(safe) BY <3>1, <3>2
    <3> QED BY <2>3, <2>5, <3>1, <3>3 DEF Straight
  <2> QED BY <2>3, <2>4, <2>5 DEF Guards, safe, real, names
<1> QED BY <1>4, <1>5

(* The first i names of p.                                                 *)
LEMMA Beginnings ==
  ASSUME NEW M, NEW p \in Seq(M)
  PROVE  /\ Len(p) \in Nat /\ SubSeq(p, 1, 0) = Root /\ SubSeq(p, 1, Len(p)) = p
         /\ \A i \in 0 .. Len(p) : SubSeq(p, 1, i) \in Seq(M) /\ Len(SubSeq(p, 1, i)) = i
         /\ \A i \in 1 .. Len(p) :
              /\ p[i] \in M /\ SubSeq(p, 1, i) # Root
              /\ SubSeq(p, 1, i) = Append(SubSeq(p, 1, i - 1), p[i])
              /\ Front(SubSeq(p, 1, i)) = SubSeq(p, 1, i - 1)
<1>0. Len(p) \in Nat OBVIOUS
<1>1. ASSUME NEW i \in 0 .. Len(p)
      PROVE  /\ SubSeq(p, 1, i) \in Seq(M) /\ Len(SubSeq(p, 1, i)) = i
             /\ \A j \in 1 .. i : SubSeq(p, 1, i)[j] = p[j]
  <2>1. /\ SubSeq(p, 1, i) \in Seq(M) /\ Len(SubSeq(p, 1, i)) = i
        /\ \A j \in 1 .. i : SubSeq(p, 1, i)[j] = p[1 + j - 1]
    BY <1>0, SubSeqProperties
  <2>2. \A j \in 1 .. i : 1 + j - 1 = j BY <1>0
  <2> QED BY <2>1, <2>2
<1>2. SubSeq(p, 1, 0) = Root
  <2>1. Len(SubSeq(p, 1, 0)) = 0 /\ SubSeq(p, 1, 0) \in Seq(M) BY <1>0, <1>1
  <2> QED BY <2>1 DEF Root
<1>3. SubSeq(p, 1, Len(p)) = p
  <2>1. /\ SubSeq(p, 1, Len(p)) \in Seq(M) /\ Len(SubSeq(p, 1, Len(p))) = Len(p)
        /\ \A j \in 1 .. Len(p) : SubSeq(p, 1, Len(p))[j] = p[j]
    BY <1>0, <1>1
  <2> QED BY <2>1, SeqEqual
<1>4. ASSUME NEW i \in 1 .. Len(p)
      PROVE  /\ p[i] \in M /\ SubSeq(p, 1, i) # Root
             /\ SubSeq(p, 1, i) = Append(SubSeq(p, 1, i - 1), p[i])
             /\ Front(SubSeq(p, 1, i)) = SubSeq(p, 1, i - 1)
  <2> DEFINE b == SubSeq(p, 1, i - 1)
             c == SubSeq(p, 1, i)
             d == Append(b, p[i])
  <2>0. p[i] \in M /\ i \in 0 .. Len(p) /\ i - 1 \in 0 .. Len(p) /\ i \in Nat BY <1>0
  <2>1. /\ b \in Seq(M) /\ Len(b) = i - 1 /\ \A j \in 1 .. i - 1 : b[j] = p[j]
    BY <1>1, <2>0
  <2>2. /\ c \in Seq(M) /\ Len(c) = i /\ \A j \in 1 .. i : c[j] = p[j]
    BY <1>1, <2>0
  <2>3. /\ d \in Seq(M) /\ d # Root /\ Front(d) = b
    <3> HIDE DEF b
    <3> QED BY <2>0, <2>1, OneMore
  <2>4. /\ Len(d) = i /\ \A j \in 1 .. i : d[j] = p[j]
    <3> HIDE DEF b
    <3> QED BY <2>0, <2>1
  <2> HIDE DEF b, c, d
  <2>5. c = d BY <2>2, <2>3, <2>4, SeqEqual
  <2> QED BY <2>0, <2>3, <2>5 DEF b, c, d
<1> QED BY <1>0, <1>1, <1>2, <1>3, <1>4

(* All that a place lies in is there, and is a folder.                     *)
LEMMA LiesInFolders ==
  ASSUME NEW h, Grown(h), NEW p \in h
  PROVE  /\ p \in Seq(NamesUsed) /\ p # Root
         /\ \A i \in 0 .. Len(p) - 1 : IsDir(h, SubSeq(p, 1, i))
<1>0. p \in Seq(NamesUsed) /\ p # Root BY PlacesAssumption DEF Grown, Root
<1> DEFINE n == Len(p)
           S == {k \in 0 .. n : SubSeq(p, 1, n - k) = Root \/ SubSeq(p, 1, n - k) \in h}
<1>1. /\ n \in Nat /\ SubSeq(p, 1, 0) = Root /\ SubSeq(p, 1, n) = p
      /\ \A i \in 1 .. n : /\ SubSeq(p, 1, i) # Root
                           /\ Front(SubSeq(p, 1, i)) = SubSeq(p, 1, i - 1)
  BY <1>0, Beginnings
<1> HIDE DEF n
<1>2. 0 \in S
  <2>1. 0 \in 0 .. n /\ n - 0 = n BY <1>1
  <2> QED BY <1>1, <2>1
<1>3. ASSUME NEW k \in 1 .. n, k - 1 \in S PROVE k \in S
  <2> DEFINE i == n - (k - 1)
  <2>1. k \in 0 .. n /\ i \in 1 .. n /\ i - 1 = n - k BY <1>1
  <2>2. SubSeq(p, 1, i) \in h BY <1>1, <1>3, <2>1
  <2>3. IsDir(h, SubSeq(p, 1, i - 1)) BY <1>1, <2>1, <2>2 DEF Grown
  <2> HIDE DEF i
  <2> QED BY <2>1, <2>3 DEF IsDir
<1> HIDE DEF S
<1>4. 0 .. n \subseteq S BY <1>1, <1>2, <1>3, Along
<1>5. ASSUME NEW i \in 0 .. n - 1 PROVE IsDir(h, SubSeq(p, 1, i))
  <2>1. /\ n - (i + 1) \in 0 .. n /\ n - (n - (i + 1)) = i + 1
        /\ i + 1 \in 1 .. n /\ (i + 1) - 1 = i
    BY <1>1
  <2>2. SubSeq(p, 1, i + 1) \in h BY <1>1, <1>4, <2>1 DEF S
  <2> QED BY <1>1, <2>1, <2>2 DEF Grown
<1> QED BY <1>0, <1>5 DEF n

LEMMA EntersWhatIsThere ==
  ASSUME NEW h, NEW p, NEW x, IsDir(h, p), Append(p, x) \in h
  PROVE  Enter(h, [at |-> p, st |-> "ok"], x) =
           IF Kind[Append(p, x)] = "link" THEN Follow(h, Append(p, x))
           ELSE [at |-> Append(p, x), st |-> "ok"]
<1> DEFINE w == [at |-> p, st |-> "ok"]
           q == Append(p, x)
<1>1. w.at = p /\ w.st = "ok" /\ [w EXCEPT !.at = q] = [at |-> q, st |-> "ok"]
  OBVIOUS
<1> HIDE DEF w, q
<1>2. Append(w.at, x) = q /\ IsDir(h, w.at) /\ q \in h BY <1>1 DEF q
<1>3. Enter(h, w, x) = IF Kind[q] = "link" THEN Follow(h, q) ELSE [w EXCEPT !.at = q]
  BY <1>1, <1>2 DEF Enter
<1> QED BY <1>1, <1>3 DEF w, q

(* A place is its folder and its name.                                     *)
LEMMA FolderAndName ==
  ASSUME NEW h, Grown(h), NEW p \in h
  PROVE  /\ p = Append(Front(p), Last(p))
         /\ Last(p) \in Hidden => HasHidden(p)
         /\ ~ HasHidden(Front(p)) /\ Last(p) \notin Hidden => ~ HasHidden(p)
<1>1. p \in Seq(NamesUsed) /\ p # Root BY LiesInFolders
<1>2. Len(p) \in Nat /\ Len(p) # 0 BY <1>1 DEF Root
<1>3. Len(p) \in 1 .. Len(p) /\ DOMAIN p = 1 .. Len(p) BY <1>1, <1>2
<1>4. /\ p = Append(SubSeq(p, 1, Len(p) - 1), p[Len(p)])
      /\ Front(p) = SubSeq(p, 1, Len(p) - 1)
  BY <1>1, <1>3, Beginnings DEF Front
<1>5. Last(p) = p[Len(p)] BY DEF Last
<1>6. Last(p) \in Hidden => HasHidden(p) BY <1>3, <1>5 DEF HasHidden
<1>7. ~ HasHidden(Front(p)) /\ Last(p) \notin Hidden => ~ HasHidden(p)
  <2>1. Len(p) - 1 \in 0 .. Len(p) BY <1>2
  <2>2. Front(p) \in Seq(NamesUsed) BY <1>1, <1>4, <2>1, Beginnings
  <2>3. Last(p) \in NamesUsed BY <1>1, <1>3, <1>5
  <2>4. p = Append(Front(p), Last(p)) BY <1>4, <1>5
  <2> QED BY <2>2, <2>3, <2>4, OneMore
<1> QED BY <1>4, <1>5, <1>6, <1>7

-----------------------------------------------------------------------------
(* What the vault means for the listings.                                  *)

LEMMA GrowsAsTree ==
  ASSUME Grown(here), NEW p \in Places, Toggle(p)
  PROVE  Grown(here')
<1>1. /\ here' = (here \ {p}) \cup ({p} \ here) /\ IsDir(here, Front(p))
      /\ p \in here => \A q \in here : Front(q) # p
  BY DEF Toggle
<1>2. here' \subseteq Places BY <1>1 DEF Grown
<1>3. ASSUME NEW q \in here' PROVE IsDir(here', Front(q))
  <2>1. IsDir(here, Front(q)) BY <1>1, <1>3 DEF Grown
  <2>2. p \in here => Front(q) # p BY <1>1, <1>3
  <2> QED BY <1>1, <2>1, <2>2 DEF IsDir
<1> QED BY <1>2, <1>3 DEF Grown

LEMMA TreeInvariant == Spec => []Grown(here)
<1>1. Init => Grown(here) BY CacheAssumption DEF Init, Grown
<1>2. Grown(here) /\ [Next]_vars => Grown(here)'
  <2> SUFFICES ASSUME Grown(here), [Next]_vars PROVE Grown(here')
    OBVIOUS
  <2>1. CASE \E p \in Places : Toggle(p) BY <2>1, GrowsAsTree
  <2>2. CASE here' = here BY <2>2
  <2> QED
    BY <2>1, <2>2 DEF Next, vars, archive, Tree, Search, Get, BeginSearch, EndSearch,
       ReadDir, ReadDirFails, Store, BeginMeasure, Measure, EndMeasure, UsageExpires,
       Change, ChangeQuietly, Invalidate, InvalidateUsage
<1> QED BY <1>1, <1>2, PTL DEF Spec

(* In every state of the archive the vault guards every request            *)
(* (path.go:49-54), not only those of the bounded property.                *)
THEOREM VaultAlwaysGuards == Spec => []VaultGuards
<1>1. ASSUME Grown(here) PROVE VaultGuards
  <2>1. ASSUME NEW path \in BoundedSeq(RequestNames, 3) PROVE path \in Seq(RequestNames)
    <3>1. PICK m \in 0 .. 3 : path \in [1 .. m -> RequestNames]
      BY <2>1 DEF BoundedSeq, SeqOf
    <3> QED BY <3>1
  <2> QED BY <1>1, <2>1, VaultIsSafe DEF VaultGuards
<1> QED BY <1>1, TreeInvariant, PTL

(* What a node must be, whatever comes to the archive.                     *)
Visible(nodes) ==
  \A n \in nodes :
    LET real == Reaches(Places, Clean(n.path))
    IN ~ HasHidden(Clean(n.path)) /\ real # Denied /\ ~ HasHidden(real)

VisibleInv ==
  /\ \A k \in Keys : entry[k] # None => Visible(entry[k])
  /\ \A r \in Readers : pc[r] = "store" => Visible(buf[r])

(* Cleaning and walking a path that is one name longer.                    *)
LEMMA CleanOneMore ==
  ASSUME NEW M, NEW path \in Seq(M), NEW x \in M, x \notin {".", ".."}
  PROVE  Clean(Append(path, x)) = Append(Clean(path), x)
<1> DEFINE q == Append(path, x)
           n == Len(path)
<1>0. n \in Nat /\ q \in Seq(M) /\ Len(q) = n + 1 /\ q[n + 1] = x
      /\ \A k \in 1 .. n : q[k] = path[k]
  OBVIOUS
<1>1. PICK c : /\ c[0] = Root /\ \A k \in 1 .. n : c[k] = AddName(c[k - 1], path[k])
               /\ Clean(path) = c[n]
  BY CleanGoes
<1> HIDE DEF q, n
<1>2. PICK g : /\ g[0] = Root /\ \A k \in 1 .. n + 1 : g[k] = AddName(g[k - 1], q[k])
               /\ Clean(q) = g[n + 1]
  BY <1>0, CleanGoes
<1> DEFINE S == {k \in 0 .. n : g[k] = c[k]}
<1>3. 0 \in S BY <1>0, <1>1, <1>2
<1>4. ASSUME NEW k \in 1 .. n, k - 1 \in S PROVE k \in S
  <2>1. k \in 0 .. n /\ k \in 1 .. n + 1 BY <1>0
  <2> QED BY <1>0, <1>1, <1>2, <1>4, <2>1
<1> HIDE DEF S
<1>5. 0 .. n \subseteq S BY <1>0, <1>3, <1>4, Along
<1>6. g[n] = c[n] BY <1>0, <1>5 DEF S
<1>7. n + 1 \in 1 .. n + 1 /\ (n + 1) - 1 = n BY <1>0
<1>8. g[n + 1] = AddName(c[n], x) BY <1>0, <1>2, <1>6, <1>7
<1>9. AddName(c[n], x) = Append(c[n], x) BY DEF AddName
<1> QED BY <1>1, <1>2, <1>8, <1>9 DEF q

LEMMA WalkOneMore ==
  ASSUME NEW M, NamesUsed \subseteq M, NEW h \in SUBSET Places, NEW names \in Seq(M),
         NEW x \in M
  PROVE  Walk(h, Append(names, x)) = Enter(h, Walk(h, names), x)
<1> DEFINE q == Append(names, x)
           n == Len(names)
<1>0. n \in Nat /\ q \in Seq(M) /\ Len(q) = n + 1 /\ q[n + 1] = x
      /\ \A k \in 1 .. n : q[k] = names[k]
  OBVIOUS
<1>1. PICK c : /\ c[0] = [at |-> Root, st |-> "ok"]
               /\ \A k \in 1 .. n : c[k] = Enter(h, c[k - 1], names[k])
               /\ Walk(h, names) = c[n]
  BY WalkGoes
<1> HIDE DEF q, n
<1>2. PICK g : /\ g[0] = [at |-> Root, st |-> "ok"]
               /\ \A k \in 1 .. n + 1 : g[k] = Enter(h, g[k - 1], q[k])
               /\ Walk(h, q) = g[n + 1]
  <2>1. \E g : /\ g[0] = [at |-> Root, st |-> "ok"]
               /\ \A k \in 1 .. Len(q) : g[k] = Enter(h, g[k - 1], q[k])
               /\ Walk(h, q) = g[Len(q)]
    BY <1>0, WalkGoes
  <2>2. Len(q) = n + 1 BY <1>0
  <2> QED BY <2>1, <2>2
<1> DEFINE S == {k \in 0 .. n : g[k] = c[k]}
<1>3. 0 \in S BY <1>0, <1>1, <1>2
<1>4. ASSUME NEW k \in 1 .. n, k - 1 \in S PROVE k \in S
  <2>1. k \in 0 .. n /\ k \in 1 .. n + 1 BY <1>0
  <2> QED BY <1>0, <1>1, <1>2, <1>4, <2>1
<1> HIDE DEF S
<1>5. 0 .. n \subseteq S BY <1>0, <1>3, <1>4, Along
<1>6. g[n] = c[n] BY <1>0, <1>5 DEF S
<1>7. n + 1 \in 1 .. n + 1 /\ (n + 1) - 1 = n BY <1>0
<1>8. g[n + 1] = Enter(h, c[n], x) BY <1>0, <1>2, <1>6, <1>7
<1> QED BY <1>1, <1>2, <1>8 DEF q

(* A place that is reached is still reached when more places exist.        *)
LEMMA ReachesStill ==
  ASSUME NEW M, NamesUsed \subseteq M, "denied" \in M, NEW h \in SUBSET Places,
         NEW names \in Seq(M), Reaches(h, names) # Denied
  PROVE  Reaches(Places, names) = Reaches(h, names)
<1> DEFINE n == Len(names)
           a == Stations(h, names)
           b == Stations(Places, names)
<1>0. n \in Nat /\ Places \in SUBSET Places OBVIOUS
<1>1. a[0] = Root /\ \A k \in 1 .. n : a[k] = Open(h, a[k - 1], names[k])
  BY StationsGo
<1>2. b[0] = Root /\ \A k \in 1 .. n : b[k] = Open(Places, b[k - 1], names[k])
  BY <1>0, StationsGo
<1>3. Reaches(h, names) = a[n] /\ Reaches(Places, names) = b[n] BY DEF Reaches
<1> HIDE DEF n, a, b
<1> DEFINE S == {k \in 0 .. n : a[k] # Denied => b[k] = a[k]}
<1>4. 0 \in S BY <1>0, <1>1, <1>2
<1>5. ASSUME NEW k \in 1 .. n, k - 1 \in S PROVE k \in S
  <2>1. k \in 0 .. n BY <1>0
  <2> SUFFICES ASSUME a[k] # Denied PROVE b[k] = a[k] BY <2>1
  <2> DEFINE at == a[k - 1]
             next == Append(at, names[k])
  <2>2. a[k] = Open(h, at, names[k]) /\ b[k] = Open(Places, b[k - 1], names[k])
    BY <1>1, <1>2
  <2>3. at # Denied BY <2>2 DEF Open
  <2>4. b[k - 1] = at BY <1>5, <2>3
  <2> HIDE DEF at
  <2>5. IsDir(h, at) /\ next \in h BY <2>2 DEF Open
  <2>6. IsDir(Places, at) /\ next \in Places BY <2>5 DEF IsDir
  <2>7. Kind[next] = "link" => Target[next] \in h BY <2>2, <2>3, <2>5 DEF Open
  <2> QED BY <2>2, <2>3, <2>4, <2>5, <2>6, <2>7 DEF Open
<1> HIDE DEF S
<1>6. 0 .. n \subseteq S BY <1>0, <1>4, <1>5, Along
<1>7. n \in S BY <1>0, <1>6
<1> QED BY <1>3, <1>7 DEF S

(* A child of the folder that is listed is there, so the walk that the     *)
(* vault has let through has come to where the system gets.                *)
LEMMA ChildIsReached ==
  ASSUME NEW h, Grown(h), NEW rel \in Keys, IsDir(h, SafePath(h, rel)),
         SafePath(h, rel) # Denied, NEW m \in Names(h, SafePath(h, rel)),
         SafePath(h, Append(rel, m)) # Denied
  PROVE  LET names == Clean(Append(rel, m))
             real == Reaches(h, names)
         IN /\ ~ HasHidden(names) /\ real # Denied /\ ~ HasHidden(real)
            /\ Reaches(Places, names) = real
<1> DEFINE N == UNION {ToSet(k) : k \in Keys}
           M == N \cup NamesUsed \cup {"denied"}
           done == Clean(rel)
           w == Walk(h, done)
           dir == SafePath(h, rel)
           names == Clean(Append(rel, m))
           v == Walk(h, names)
           real == Reaches(h, names)
<1>1. /\ NamesUsed \subseteq M /\ "denied" \in M /\ h \in SUBSET Places
      /\ rel \in Seq(M)
  <2>1. rel \in Seq(N) BY CacheAssumption
  <2> HIDE DEF N
  <2>2. rel \in Seq(M) BY <2>1
  <2>3. NamesUsed \subseteq M /\ "denied" \in M OBVIOUS
  <2> HIDE DEF M
  <2> QED BY <2>2, <2>3 DEF Grown
<1>2. PICK q \in h : Front(q) = dir /\ Last(q) = m BY DEF Names
<1>3. Append(dir, m) \in h /\ m \in NamesUsed
  <2>1. q = Append(Front(q), Last(q)) BY FolderAndName
  <2>2. q \in Seq(NamesUsed) /\ Len(q) \in Nat /\ Len(q) # 0
    BY LiesInFolders DEF Root
  <2>3. Last(q) = q[Len(q)] /\ Len(q) \in 1 .. Len(q) BY <2>2 DEF Last
  <2>4. Append(dir, m) = q BY <1>2, <2>1
  <2>5. m \in NamesUsed BY <1>2, <2>2, <2>3
  <2> HIDE DEF dir
  <2> QED BY <2>4, <2>5
<1> HIDE DEF M
<1>4. m \in M /\ m \notin {".", ".."} BY <1>1, <1>3, NamesAreNames
<1>5. done \in Seq(M) BY <1>1, CleanIsPath
<1>6. names = Append(done, m) BY <1>1, <1>4, CleanOneMore
<1>7. names \in Seq(M) BY <1>4, <1>5, <1>6
<1> HIDE DEF names, done
<1>8. v = Enter(h, w, m) BY <1>1, <1>4, <1>5, <1>6, WalkOneMore
<1>9. ~ HasHidden(done) /\ w.st # "denied" /\ dir = w.at
  BY DEF SafePath, done
<1>10. ~ HasHidden(names) /\ v.st # "denied"
  BY DEF SafePath, names
<1>11. w \in Walker(M) /\ Together(h, w, Reaches(h, done), PassesHidden(h, done))
  BY <1>1, <1>5, <1>9, WalkTogether
<1>12. v \in Walker(M) /\ Together(h, v, real, PassesHidden(h, names))
  BY <1>1, <1>7, <1>10, WalkTogether
<1> HIDE DEF w, v, dir, real
<1>13. w = [at |-> dir, st |-> "ok"]
  <2>1. w = [at |-> w.at, st |-> w.st] /\ w.st \in {"ok", "missing", "denied"}
    BY <1>11 DEF Walker
  <2>2. w.st # "missing"
    <3>1. IsDir(h, w.at) BY <1>9 DEF dir
    <3> QED BY <1>11, <3>1 DEF Together, IsDir
  <2> QED BY <1>9, <2>1, <2>2
<1>14. v.st = "ok"
  <2>1. v = IF Kind[Append(dir, m)] = "link" THEN Follow(h, Append(dir, m))
            ELSE [at |-> Append(dir, m), st |-> "ok"]
    <3>1. IsDir(h, dir) BY DEF dir
    <3> QED BY <1>3, <1>8, <1>13, <3>1, EntersWhatIsThere
  <2>2. v.st \in {"ok", "denied"} BY <2>1 DEF Follow
  <2> QED BY <1>10, <2>2
<1>15. real = v.at /\ ~ HasHidden(real) /\ (real = Root \/ real \in h)
  BY <1>12, <1>14 DEF Together
<1>16. real # Denied
  <2>1. Denied # Root BY DEF Denied, Root
  <2> QED BY <1>1, <1>15, <2>1, DeniedAssumption
<1>17. Reaches(Places, names) = real
  BY <1>1, <1>7, <1>16, ReachesStill DEF real
<1> QED BY <1>10, <1>15, <1>16, <1>17 DEF names, real

LEMMA ListingIsVisible ==
  ASSUME Grown(here), NEW rel \in Keys, Listable(here, rel)
  PROVE  Visible(Listing(here, rel))
<1> SUFFICES ASSUME NEW n \in Listing(here, rel)
             PROVE  LET real == Reaches(Places, Clean(n.path))
                    IN ~ HasHidden(Clean(n.path)) /\ real # Denied /\ ~ HasHidden(real)
  BY DEF Visible
<1>1. PICK m \in Names(here, SafePath(here, rel)) :
        SafePath(here, Append(rel, m)) # Denied /\ n.path = Append(rel, m)
  BY DEF Listing
<1>2. SafePath(here, rel) # Denied /\ IsDir(here, SafePath(here, rel)) BY DEF Listable
<1> QED BY <1>1, <1>2, ChildIsReached

LEMMA VisibleWhen ==
  ASSUME VisibleInv, NEW r \in Readers, Alone(r),
         pc'[r] = "store" => Visible(buf'[r]),
         \A k \in Keys : entry'[k] \in {entry[k], None} \/ Visible(entry'[k])
  PROVE  VisibleInv'
BY DEF VisibleInv, Alone

LEMMA VisibleStep ==
  CacheInv /\ TypeInv /\ Grown(here) /\ VisibleInv /\ [Next]_vars => VisibleInv'
<1> SUFFICES ASSUME CacheInv, TypeInv, Grown(here), VisibleInv, [Next]_vars
             PROVE  VisibleInv'
  OBVIOUS
<1>0. Shape BY DEF CacheInv
<1>1. ASSUME NEW r \in Readers,
             \/ \E k \in Keys : Tree(r, k) \/ Search(r, k)
             \/ BeginSearch(r) \/ EndSearch(r) \/ ReadDirFails(r)
             \/ BeginMeasure(r) \/ Measure(r) \/ EndMeasure(r)
      PROVE  VisibleInv'
  <2>1. UNCHANGED <<here, quiet, entry>>
    BY <1>1 DEF Tree, Search, Get, BeginSearch, EndSearch, ReadDirFails, BeginMeasure,
                Measure, EndMeasure, history, archive
  <2>2. PICK s \in {"idle", "next", "read", "measure", "measured"} : Goto(r, s)
    BY <1>1, UseGoesOn, FailureGoesOn
       DEF Tree, Search, Get, BeginSearch, EndSearch, BeginMeasure, Measure, EndMeasure,
           Return
  <2>3. /\ (\E k : key' = [key EXCEPT ![r] = k]) \/ key' = key
        /\ (\E b : buf' = [buf EXCEPT ![r] = b]) \/ buf' = buf
    BY <1>1, UseGoesOn, FailureGoesOn
       DEF Tree, Search, Get, BeginSearch, EndSearch, BeginMeasure, Measure, EndMeasure,
           Return
  <2>4. entry' = [j \in Keys |-> entry'[j]] BY <1>0, <2>1 DEF Shape
  <2>5. Alone(r) /\ pc'[r] = s
    BY <1>0, <2>1, <2>2, <2>3, <2>4, MovesAlone DEF ReaderStates
  <2> QED BY <2>1, <2>2, <2>5, VisibleWhen
<1>2. ASSUME NEW r \in Readers, ReadDir(r) PROVE VisibleInv'
  <2>1. /\ Goto(r, "store") /\ buf' = [buf EXCEPT ![r] = Listing(here, key[r])]
        /\ UNCHANGED <<here, quiet, entry, key>>
    BY <1>2 DEF ReadDir, history, archive
  <2>2. entry' = [j \in Keys |-> entry'[j]] BY <1>0, <2>1 DEF Shape
  <2>3. Alone(r) BY <1>0, <2>1, <2>2, MovesAlone DEF ReaderStates
  <2>4. buf'[r] = Listing(here, key[r]) BY <1>0, <2>1 DEF Shape
  <2>5. key[r] \in Keys /\ Listable(here, key[r])
    BY <1>2 DEF ReadDir, TypeInv, CarriedInv
  <2>6. Visible(buf'[r]) BY <2>4, <2>5, ListingIsVisible
  <2> QED BY <2>1, <2>3, <2>6, VisibleWhen
<1>3. ASSUME NEW r \in Readers, Store(r) PROVE VisibleInv'
  <2>1. /\ Goto(r, "idle") \/ Goto(r, "next")
        /\ key' = [key EXCEPT ![r] = None] /\ buf' = [buf EXCEPT ![r] = None]
        /\ UNCHANGED <<here, quiet>>
    BY <1>3, UseGoesOn DEF Store
  <2>2. PICK kept : entry' = [j \in Keys |-> IF j = key[r] THEN buf[r]
                                 ELSE IF j \in ToSet(kept) THEN entry[j] ELSE None]
    BY <1>3 DEF Store, Set
  <2>3. entry' = [j \in Keys |-> entry'[j]] BY <2>2
  <2>4. Alone(r) /\ pc'[r] \in {"idle", "next"}
    BY <1>0, <2>1, <2>3, MovesAlone DEF ReaderStates
  <2>5. Visible(buf[r]) BY <1>3 DEF Store, VisibleInv
  <2>6. \A k \in Keys : entry'[k] \in {entry[k], None} \/ Visible(entry'[k])
    BY <2>2, <2>5
  <2> QED BY <2>4, <2>6, VisibleWhen
<1>4. ASSUME NEW w \in Writers,
             (\E p \in Places : Change(w, p)) \/ Invalidate(w) \/ InvalidateUsage(w)
      PROVE  VisibleInv'
  <2>1. /\ buf' = buf /\ \A k \in Keys : entry'[k] \in {entry[k], None}
    BY <1>4 DEF Change, Invalidate, InvalidateUsage, archive
  <2>2. \A r \in Readers : pc'[r] = pc[r]
    <3>1. \A r \in Readers : r # w BY CacheAssumption
    <3> QED BY <1>0, <1>4, <3>1 DEF Shape, Goto, Change, Invalidate, InvalidateUsage
  <2> QED BY <2>1, <2>2 DEF VisibleInv
<1>5. CASE (\E p \in Places : ChangeQuietly(p)) \/ UsageExpires \/ UNCHANGED vars
  <2>1. UNCHANGED <<entry, pc, buf>>
    BY <1>5 DEF ChangeQuietly, UsageExpires, vars, archive
  <2> QED BY <2>1 DEF VisibleInv
<1> QED BY <1>1, <1>2, <1>3, <1>4, <1>5 DEF Next

(* No cached listing names a place that is hidden, or leads the system     *)
(* that follows its links to a hidden place, out of the archive or nowhere,*)
(* for any links, any keys and however readers, writers and evictions      *)
(* interleave (handlers.go:145-154).                                       *)
THEOREM NothingHiddenIsShown == Spec => []NothingHiddenIsListed
<1>1. Init => VisibleInv BY DEF Init, VisibleInv
<1>2. Spec => []VisibleInv
  BY <1>1, VisibleStep, CacheInvariant, TypeInvariant, TreeInvariant, PTL DEF Spec
<1>3. VisibleInv => NothingHiddenIsListed
  BY DEF VisibleInv, Visible, NothingHiddenIsListed
<1> QED BY <1>2, <1>3, PTL

-----------------------------------------------------------------------------
(* What a search finds.                                                    *)

(* The path of a place is walked as it is written, up to its last name.    *)
LEMMA PlaceIsWalked ==
  ASSUME NEW h, Grown(h), NEW p \in h
  PROVE  /\ Clean(p) = p
         /\ Walk(h, p) = IF Kind[p] = "link" THEN Follow(h, p)
                         ELSE [at |-> p, st |-> "ok"]
         /\ Reaches(h, p) = IF Kind[p] # "link" THEN p
                            ELSE IF Target[p] \in h THEN Target[p] ELSE Denied
<1> DEFINE n == Len(p)
           M == NamesUsed \cup {"denied"}
           upTo(k) == SubSeq(p, 1, k)
<1>0. /\ p \in Seq(NamesUsed) /\ p # Root /\ h \in SUBSET Places
      /\ \A i \in 0 .. n - 1 : IsDir(h, upTo(i))
  BY LiesInFolders DEF Grown
<1>1. /\ n \in Nat /\ upTo(0) = Root /\ upTo(n) = p
      /\ \A i \in 1 .. n : /\ p[i] \in NamesUsed /\ upTo(i) # Root
                           /\ upTo(i) = Append(upTo(i - 1), p[i])
  BY <1>0, Beginnings
<1>2. n # 0 BY <1>0, <1>1
<1>m. NamesUsed \subseteq M /\ "denied" \in M /\ p \in Seq(M)
  BY <1>0
<1>3. PICK c : /\ c[0] = Root /\ \A k \in 1 .. n : c[k] = AddName(c[k - 1], p[k])
               /\ Clean(p) = c[n]
  BY <1>0, CleanGoes
<1>4. PICK g : /\ g[0] = [at |-> Root, st |-> "ok"]
               /\ \A k \in 1 .. n : g[k] = Enter(h, g[k - 1], p[k])
               /\ Walk(h, p) = g[n]
  BY <1>0, WalkGoes
<1> DEFINE at == Stations(h, p)
<1>5. at[0] = Root /\ \A k \in 1 .. n : at[k] = Open(h, at[k - 1], p[k])
  <2> HIDE DEF M
  <2> QED BY <1>m, <1>0, StationsGo
<1>6. Reaches(h, p) = at[n] BY DEF Reaches
<1> HIDE DEF n, upTo, M, at
<1>7. Clean(p) = p
  <2> DEFINE S == {k \in 0 .. n : c[k] = upTo(k)}
  <2>1. 0 \in S BY <1>1, <1>3
  <2>2. ASSUME NEW k \in 1 .. n, k - 1 \in S PROVE k \in S
    <3>1. k \in 0 .. n BY <1>1
    <3>2. p[k] # "." /\ p[k] # ".." BY <1>1, NamesAreNames
    <3>3. c[k] = Append(c[k - 1], p[k]) BY <1>3, <3>2 DEF AddName
    <3> QED BY <1>1, <2>2, <3>1, <3>3
  <2> HIDE DEF S
  <2>3. 0 .. n \subseteq S BY <1>1, <2>1, <2>2, Along
  <2>4. n \in S BY <1>1, <2>3
  <2> QED BY <1>1, <1>3, <2>4 DEF S
<1>8. ASSUME NEW i \in 0 .. n - 1, i # 0
      PROVE  upTo(i) \in h /\ Kind[upTo(i)] = "dir"
  <2>1. i \in 1 .. n BY <1>1, <1>8
  <2> QED BY <1>0, <1>1, <2>1 DEF IsDir
<1> DEFINE m == n - 1
<1>9. m \in Nat /\ n = m + 1 /\ n \in 1 .. n /\ n - 1 = m /\ m \in 0 .. n - 1 BY <1>1, <1>2
<1>10. \A k \in 1 .. m : k \in 1 .. n /\ k - 1 \in 0 .. n - 1 /\ k \in 0 .. n - 1 /\ k # 0
  BY <1>1
<1> HIDE DEF m
<1>11. g[m] = [at |-> upTo(m), st |-> "ok"]
  <2> DEFINE S == {k \in 0 .. m : g[k] = [at |-> upTo(k), st |-> "ok"]}
  <2>1. 0 \in S
    <3>1. 0 \in 0 .. m BY <1>9
    <3> QED BY <1>1, <1>4, <3>1
  <2>2. ASSUME NEW k \in 1 .. m, k - 1 \in S PROVE k \in S
    <3>1. k \in 0 .. m BY <1>9
    <3>2. /\ g[k - 1] = [at |-> upTo(k - 1), st |-> "ok"] /\ IsDir(h, upTo(k - 1))
          /\ upTo(k) = Append(upTo(k - 1), p[k]) /\ g[k] = Enter(h, g[k - 1], p[k])
          /\ upTo(k) \in h /\ Kind[upTo(k)] = "dir"
      BY <1>0, <1>1, <1>4, <1>8, <1>10, <2>2
    <3>3. g[k] = [at |-> upTo(k), st |-> "ok"]
      <4>1. g[k] = Enter(h, [at |-> upTo(k - 1), st |-> "ok"], p[k]) BY <3>2
      <4> QED BY <3>2, <4>1, EntersWhatIsThere
    <3> QED BY <3>1, <3>3
  <2> HIDE DEF S
  <2>3. 0 .. m \subseteq S BY <1>9, <2>1, <2>2, Along
  <2>4. m \in S BY <1>9, <2>3
  <2> QED BY <2>4 DEF S
<1>d. Denied # Root /\ Denied \notin h
  BY <1>0, DeniedAssumption DEF Denied, Root
<1>12. at[m] = upTo(m)
  <2> DEFINE S == {k \in 0 .. m : at[k] = upTo(k)}
  <2>1. 0 \in S
    <3>1. 0 \in 0 .. m BY <1>9
    <3> QED BY <1>1, <1>5, <3>1
  <2>2. ASSUME NEW k \in 1 .. m, k - 1 \in S PROVE k \in S
    <3>1. k \in 0 .. m BY <1>9
    <3>2. /\ at[k - 1] = upTo(k - 1) /\ IsDir(h, upTo(k - 1))
          /\ upTo(k) = Append(upTo(k - 1), p[k]) /\ at[k] = Open(h, at[k - 1], p[k])
          /\ upTo(k) \in h /\ Kind[upTo(k)] = "dir"
      BY <1>0, <1>1, <1>5, <1>8, <1>10, <2>2
    <3>3. upTo(k - 1) # Denied BY <1>d, <3>2 DEF IsDir
    <3>4. at[k] = upTo(k) BY <3>2, <3>3 DEF Open
    <3> QED BY <3>1, <3>4
  <2> HIDE DEF S
  <2>3. 0 .. m \subseteq S BY <1>9, <2>1, <2>2, Along
  <2>4. m \in S BY <1>9, <2>3
  <2> QED BY <2>4 DEF S
<1>13. IsDir(h, upTo(m)) /\ Append(upTo(m), p[n]) = p /\ upTo(m) # Denied
  <2>1. IsDir(h, upTo(m)) /\ Append(upTo(m), p[n]) = p BY <1>0, <1>1, <1>9
  <2> QED BY <1>d, <2>1 DEF IsDir
<1>14. Walk(h, p) = IF Kind[p] = "link" THEN Follow(h, p) ELSE [at |-> p, st |-> "ok"]
  <2>1. Walk(h, p) = Enter(h, [at |-> upTo(m), st |-> "ok"], p[n]) BY <1>4, <1>9, <1>11
  <2> DEFINE a == upTo(m)
             x == p[n]
  <2>2. IsDir(h, a) /\ Append(a, x) \in h /\ Append(a, x) = p BY <1>13
  <2> HIDE DEF a, x
  <2>3. Enter(h, [at |-> a, st |-> "ok"], x) =
          IF Kind[Append(a, x)] = "link" THEN Follow(h, Append(a, x))
          ELSE [at |-> Append(a, x), st |-> "ok"]
    BY <2>2, EntersWhatIsThere
  <2>4. Walk(h, p) = Enter(h, [at |-> a, st |-> "ok"], x) BY <2>1 DEF a, x
  <2> QED BY <2>2, <2>3, <2>4
<1>15. Reaches(h, p) = IF Kind[p] # "link" THEN p
                       ELSE IF Target[p] \in h THEN Target[p] ELSE Denied
  <2>1. Reaches(h, p) = Open(h, upTo(m), p[n]) BY <1>5, <1>6, <1>9, <1>12
  <2> QED BY <1>13, <2>1 DEF Open
<1> QED BY <1>7, <1>14, <1>15

LEMMA HiddenBeginnings ==
  ASSUME NEW M, NEW p \in Seq(M), NEW i \in 0 .. Len(p), HasHidden(SubSeq(p, 1, i))
  PROVE  HasHidden(p)
<1>1. /\ SubSeq(p, 1, i) \in Seq(M) /\ Len(SubSeq(p, 1, i)) = i
      /\ \A j \in 1 .. i : SubSeq(p, 1, i)[j] = p[1 + j - 1]
  BY SubSeqProperties
<1>2. PICK j \in 1 .. i : p[1 + j - 1] \in Hidden BY <1>1 DEF HasHidden
<1>3. 1 + j - 1 = j /\ j \in 1 .. Len(p) OBVIOUS
<1> QED BY <1>2, <1>3 DEF HasHidden

LEMMA FolderIsWalked ==
  ASSUME Grown(here), NEW k \in Folders
  PROVE  /\ SafePath(here, k) = k /\ Reaches(here, k) = k
         /\ IsDir(here, k) /\ k # Denied /\ ~ HasHidden(k)
<1>0. DOMAIN Root = {} /\ Len(Root) = 0 /\ Root # Denied BY DEF Root, Denied
<1>1. CASE k = Root
  <2>1. ~ HasHidden(Root) BY <1>0 DEF HasHidden
  <2> DEFINE M == NamesUsed \cup {"denied"}
  <2>2. /\ Root \in Seq(M) /\ NamesUsed \subseteq M /\ "denied" \in M
        /\ here \in SUBSET Places
    BY DEF Root, Grown
  <2> HIDE DEF M
  <2>3. Clean(Root) = Root BY <1>0, <2>2, CleanGoes
  <2>4. Walk(here, Root) = [at |-> Root, st |-> "ok"] BY <1>0, <2>2, WalkGoes
  <2>5. Reaches(here, Root) = Root BY <1>0, <2>2, StationsGo DEF Reaches
  <2>6. SafePath(here, Root) = Root BY <2>1, <2>3, <2>4 DEF SafePath
  <2> QED BY <1>0, <1>1, <2>1, <2>5, <2>6 DEF IsDir
<1>2. CASE k # Root
  <2>1. k \in here /\ Kind[k] = "dir" /\ ~ HasHidden(k) BY <1>2 DEF Folders
  <2>2. /\ Clean(k) = k /\ Walk(here, k) = [at |-> k, st |-> "ok"]
        /\ Reaches(here, k) = k
    BY <2>1, PlaceIsWalked
  <2>3. SafePath(here, k) = k BY <2>1, <2>2 DEF SafePath
  <2>4. k # Denied BY <2>1, DeniedAssumption DEF Grown
  <2> QED BY <2>1, <2>2, <2>3, <2>4 DEF IsDir
<1> QED BY <1>1, <1>2

(* The vault lets a visible name through exactly when the system gets to a *)
(* visible place with it.                                                  *)
LEMMA LetThrough ==
  ASSUME Grown(here), NEW q \in here, ~ HasHidden(q)
  PROVE  /\ SafePath(here, q) # Denied <=>
              Reaches(here, q) # Denied /\ ~ HasHidden(Reaches(here, q))
         /\ Kind[q] # "link" => SafePath(here, q) # Denied
<1>1. /\ Clean(q) = q
      /\ Walk(here, q) = IF Kind[q] = "link" THEN Follow(here, q)
                         ELSE [at |-> q, st |-> "ok"]
      /\ Reaches(here, q) = IF Kind[q] # "link" THEN q
                            ELSE IF Target[q] \in here THEN Target[q] ELSE Denied
  BY PlaceIsWalked
<1>2. \A p \in here : p # Denied BY DeniedAssumption DEF Grown
<1>3. CASE Kind[q] # "link"
  <2>1. SafePath(here, q) = q BY <1>1, <1>3 DEF SafePath
  <2> QED BY <1>1, <1>2, <1>3, <2>1
<1>4. CASE Kind[q] = "link" /\ Target[q] \in here /\ ~ HasHidden(Target[q])
  <2>1. Walk(here, q) = [at |-> Target[q], st |-> "ok"] BY <1>1, <1>4 DEF Follow
  <2>2. SafePath(here, q) = Target[q] BY <1>1, <1>4, <2>1 DEF SafePath
  <2> QED BY <1>1, <1>2, <1>4, <2>2
<1>5. CASE Kind[q] = "link" /\ ~ (Target[q] \in here /\ ~ HasHidden(Target[q]))
  <2>1. Walk(here, q) = [at |-> Root, st |-> "denied"] BY <1>1, <1>5 DEF Follow
  <2>2. SafePath(here, q) = Denied BY <1>1, <2>1 DEF SafePath
  <2> QED BY <1>1, <1>5, <2>2
<1> QED BY <1>3, <1>4, <1>5

(* The listing of a visible folder is what it has to be.                   *)
LEMMA ListingIsShown ==
  ASSUME Grown(here), NEW k \in Folders
  PROVE  Listable(here, k) /\ Listing(here, k) = Shown(k)
<1>1. /\ SafePath(here, k) = k /\ Reaches(here, k) = k
      /\ IsDir(here, k) /\ k # Denied /\ ~ HasHidden(k)
  BY FolderIsWalked
<1>2. ASSUME NEW m \in Names(here, k), m \notin Hidden
      PROVE  SafePath(here, Append(k, m)) # Denied <=>
               LET real == Reaches(here, Append(k, m))
               IN real # Denied /\ ~ HasHidden(real)
  <2>1. PICK q \in here : Front(q) = k /\ Last(q) = m BY DEF Names
  <2>2. q = Append(k, m) /\ ~ HasHidden(q) BY <1>1, <1>2, <2>1, FolderAndName
  <2> QED BY <2>2, LetThrough
<1>3. {m \in Names(here, k) \ Hidden : SafePath(here, Append(k, m)) # Denied}
      = {m \in Names(here, k) : LET real == Reaches(here, Append(k, m))
                                IN m \notin Hidden /\ real # Denied /\ ~ HasHidden(real)}
  BY <1>2
<1> QED BY <1>1, <1>3 DEF Listable, Listing, Shown

LEMMA FoldersAreFolders ==
  ASSUME Grown(here), NEW k \in Folders
  PROVE  FoldersIn(Listing(here, k)) \subseteq Folders
<1> SUFFICES ASSUME NEW f \in FoldersIn(Listing(here, k)) PROVE f \in Folders
  OBVIOUS
<1>1. SafePath(here, k) = k /\ ~ HasHidden(k) BY FolderIsWalked
<1>2. PICK m \in Names(here, k) \ Hidden : f = Append(k, m) /\ Kind[f] = "dir"
  <2>1. PICK n \in Listing(here, k) : n.isDir /\ f = n.path BY DEF FoldersIn
  <2>2. PICK m \in Names(here, k) \ Hidden :
          n = [path |-> Append(k, m), isDir |-> Kind[Append(k, m)] = "dir"]
    BY <1>1, <2>1 DEF Listing
  <2>3. n.path = Append(k, m) /\ n.isDir = (Kind[Append(k, m)] = "dir") BY <2>2
  <2> QED BY <2>1, <2>3
<1>3. PICK q \in here : Front(q) = k /\ Last(q) = m BY DEF Names
<1>4. q = f /\ ~ HasHidden(q) BY <1>1, <1>2, <1>3, FolderAndName
<1> QED BY <1>2, <1>4 DEF Folders

LEMMA ChildIsListed ==
  ASSUME Grown(here), NEW k \in Folders, NEW q \in here,
         Front(q) = k, Kind[q] = "dir", ~ HasHidden(q)
  PROVE  q \in FoldersIn(Listing(here, k))
<1>1. SafePath(here, k) = k BY FolderIsWalked
<1>2. q = Append(k, Last(q)) /\ Last(q) \notin Hidden BY FolderAndName
<1>3. Last(q) \in Names(here, k) \ Hidden BY <1>2 DEF Names
<1>4. SafePath(here, Append(k, Last(q))) # Denied BY <1>2, LetThrough
<1> DEFINE n == [path |-> Append(k, Last(q)), isDir |-> Kind[Append(k, Last(q))] = "dir"]
<1>5. n \in Listing(here, k) BY <1>1, <1>3, <1>4 DEF Listing
<1>6. n.path = q /\ n.isDir BY <1>2
<1> HIDE DEF n
<1> QED BY <1>5, <1>6 DEF FoldersIn

(* p is q, or lies somewhere in the folder q.                              *)
Under(q, p) == Len(q) <= Len(p) /\ SubSeq(p, 1, Len(q)) = q

(* A folder k that is visited hands what lies below it on to its folders.  *)
LEMMA HandsOn ==
  ASSUME Grown(here), NEW k \in Folders, NEW p \in Folders, Under(k, p), k # p
  PROVE  \E q \in FoldersIn(Listing(here, k)) : Under(q, p)
<1>0. \A f \in Folders : f \in Seq(NamesUsed)
  <2>1. Root \in Seq(NamesUsed) BY DEF Root
  <2> QED BY <2>1, PlacesAssumption DEF Folders, Grown
<1> DEFINE n == Len(p)
           l == Len(k)
           i == l + 1
           q == SubSeq(p, 1, i)
<1>1. /\ n \in Nat /\ SubSeq(p, 1, n) = p /\ l \in Nat
      /\ \A j \in 0 .. n : Len(SubSeq(p, 1, j)) = j
      /\ \A j \in 1 .. n : /\ SubSeq(p, 1, j) # Root
                           /\ Front(SubSeq(p, 1, j)) = SubSeq(p, 1, j - 1)
  BY <1>0, Beginnings
<1>2. SubSeq(p, 1, l) = k /\ l <= n BY DEF Under
<1> HIDE DEF n, l
<1>3. l # n BY <1>1, <1>2
<1>5. i \in 1 .. n /\ i - 1 = l /\ i \in 0 .. n BY <1>1, <1>2, <1>3
<1>4. p \in here /\ Kind[p] = "dir" /\ ~ HasHidden(p)
  <2>1. p # Root
    <3>1. n \in 1 .. n BY <1>1, <1>2, <1>3
    <3> QED BY <1>1, <3>1
  <2> QED BY <2>1 DEF Folders
<1>6. q # Root /\ Front(q) = k /\ Len(q) = i BY <1>1, <1>2, <1>5
<1>7. q \in here /\ Kind[q] = "dir"
  <2>1. CASE i = n BY <1>1, <1>4, <2>1
  <2>2. CASE i # n
    <3>1. i \in 0 .. n - 1 BY <1>1, <1>5, <2>2
    <3>2. IsDir(here, q)
      <4> HIDE DEF i
      <4> QED BY <1>4, <3>1, LiesInFolders DEF n
    <3> QED BY <1>6, <3>2 DEF IsDir
  <2> QED BY <2>1, <2>2
<1> HIDE DEF i
<1>8. ~ HasHidden(q) BY <1>0, <1>4, <1>5, HiddenBeginnings DEF n
<1> HIDE DEF q
<1>9. q \in FoldersIn(Listing(here, k)) BY <1>6, <1>7, <1>8, ChildIsListed
<1>10. Under(q, p)
  <2>1. SubSeq(p, 1, i) = q BY DEF q
  <2>2. i <= n BY <1>1, <1>5
  <2> QED BY <1>6, <2>1, <2>2 DEF Under, n
<1> QED BY <1>9, <1>10

SearchShape ==
  /\ queue = [r \in Readers |-> queue[r]]
  /\ hits = [r \in Readers |-> hits[r]]
  /\ calm = [r \in Readers |-> calm[r]]

(* What the search still has to find lies under a directory of its queue.  *)
Ahead(r) ==
  \A p \in Folders : Hits(Shown(p)) \subseteq hits[r] \/ \E q \in queue[r] : Under(q, p)

(* A search that met no change and no error reads from a cache that is up  *)
(* to date.                                                                *)
CalmInv(r) ==
  /\ pc[r] \in {"next", "read", "store"}
  /\ pc[r] \in {"read", "store"} => key[r] \in queue[r]
  /\ queue[r] \subseteq Folders /\ hits[r] \subseteq AllHits
  /\ Ahead(r) \/ (queue[r] = {} /\ Cardinality(hits[r]) = Limit)

SearchInv ==
  /\ SearchShape
  /\ \A r \in Readers : pc[r] = "idle" => hits[r] = {}
  /\ \A r \in Readers : calm[r] => Settled /\ CalmInv(r)

LEMMA SameArchive ==
  ASSUME UNCHANGED here
  PROVE  /\ Folders' = Folders /\ AllHits' = AllHits
         /\ \A p : Shown(p)' = Shown(p)
<1>1. Folders' = Folders BY DEF Folders
<1>2. \A p : Shown(p)' = Shown(p) BY DEF Shown
<1>3. AllHits' = AllHits BY <1>1, <1>2 DEF AllHits
<1> QED BY <1>1, <1>2, <1>3

LEMMA VisitFinds ==
  ASSUME Grown(here), Shape, SearchShape, NEW r \in Readers, CalmInv(r),
         NEW k \in queue[r], NEW nodes, nodes = Listing(here, k),
         Visit(r, k, nodes), UNCHANGED here
  PROVE  CalmInv(r)'
<1> DEFINE all == hits[r] \cup Hits(nodes)
<1>1. k \in Folders BY DEF CalmInv
<1>2. nodes = Shown(k) BY <1>1, ListingIsShown
<1>3. all \subseteq AllHits BY <1>1, <1>2 DEF CalmInv, AllHits
<1>4. Ahead(r) BY DEF CalmInv
<1>5. /\ Folders' = Folders /\ AllHits' = AllHits /\ \A p : Shown(p)' = Shown(p)
  BY SameArchive
<1>6. pc'[r] = "next" BY DEF Visit, Goto, Shape
<1>7. CASE Cardinality(all) < Limit
  <2>1. hits'[r] = all /\ queue'[r] = (queue[r] \ {k}) \cup FoldersIn(nodes)
    BY <1>7 DEF Visit, SearchShape
  <2>2. queue'[r] \subseteq Folders BY <1>1, <2>1, FoldersAreFolders DEF CalmInv
  <2>3. ASSUME NEW p \in Folders
        PROVE  Hits(Shown(p)) \subseteq hits'[r] \/ \E q \in queue'[r] : Under(q, p)
    <3>1. CASE Hits(Shown(p)) \subseteq hits[r] BY <2>1, <3>1
    <3>2. CASE \E q \in queue[r] \ {k} : Under(q, p) BY <2>1, <3>2
    <3>3. CASE Under(k, p)
      <4>1. CASE p = k BY <1>2, <2>1, <4>1
      <4>2. CASE p # k BY <1>1, <2>1, <3>3, <4>2, HandsOn
      <4> QED BY <4>1, <4>2
    <3> QED BY <1>4, <3>1, <3>2, <3>3 DEF Ahead
  <2>4. Ahead(r)' BY <1>5, <2>3 DEF Ahead
  <2> QED BY <1>3, <1>5, <1>6, <2>1, <2>2, <2>4 DEF CalmInv
<1>8. CASE ~ (Cardinality(all) < Limit)
  <2>1. PICK S \in SUBSET all : /\ Cardinality(S) = Limit
                                /\ hits' = [hits EXCEPT ![r] = S]
                                /\ queue' = [queue EXCEPT ![r] = {}]
    BY <1>8 DEF Visit
  <2>2. hits'[r] = S /\ queue'[r] = {} BY <2>1 DEF SearchShape
  <2> QED BY <1>3, <1>5, <1>6, <2>1, <2>2 DEF CalmInv
<1> QED BY <1>7, <1>8

(* Whatever uses a listing, the search goes on with it or has ended.       *)
LEMMA UseKeepsShape ==
  ASSUME Shape, SearchShape, NEW r \in Readers, NEW k, NEW nodes, Use(r, k, nodes)
  PROVE  /\ SearchShape' /\ (pc'[r] = "idle" => hits'[r] = {})
         /\ \A q \in Readers \ {r} :
              queue'[q] = queue[q] /\ hits'[q] = hits[q] /\ calm'[q] = calm[q]
         /\ calm'[r] => calm[r] /\ Visit(r, k, nodes)
<1>1. CASE Return(r) BY <1>1 DEF Return, SearchShape
<1>2. CASE Visit(r, k, nodes)
  <2>0. pc'[r] = "next" BY <1>2 DEF Visit, Goto, Shape
  <2>1. PICK A, Q : /\ hits' = [hits EXCEPT ![r] = A] /\ queue' = [queue EXCEPT ![r] = Q]
                    /\ calm' = calm
    BY <1>2 DEF Visit
  <2> QED BY <1>2, <2>0, <2>1 DEF SearchShape
<1> QED BY <1>1, <1>2 DEF Use

(* A step of one reader leaves the others where they are in their search.  *)
LEMMA OthersSearch ==
  ASSUME SearchInv, NEW r \in Readers, Alone(r), SearchShape',
         \A q \in Readers \ {r} :
           queue'[q] = queue[q] /\ hits'[q] = hits[q] /\ calm'[q] = calm[q],
         Settled => Settled', calm'[r] => Settled /\ CalmInv(r)',
         pc'[r] = "idle" => hits'[r] = {}
  PROVE  SearchInv'
<1>1. here' = here BY DEF Alone
<1>2. ASSUME NEW q \in Readers, calm'[q] PROVE Settled' /\ CalmInv(q)'
  <2>1. CASE q = r BY <1>2, <2>1
  <2>2. CASE q # r
    <3>1. calm[q] /\ Settled /\ CalmInv(q) BY <1>2, <2>2 DEF SearchInv
    <3>2. /\ pc'[q] = pc[q] /\ key'[q] = key[q]
          /\ queue'[q] = queue[q] /\ hits'[q] = hits[q]
      BY <2>2 DEF Alone
    <3>3. /\ Folders' = Folders /\ AllHits' = AllHits /\ \A p : Shown(p)' = Shown(p)
      BY <1>1, SameArchive
    <3>4. Ahead(q) => Ahead(q)' BY <3>2, <3>3 DEF Ahead
    <3> QED BY <3>1, <3>2, <3>3, <3>4 DEF CalmInv
  <2> QED BY <2>1, <2>2
<1>3. ASSUME NEW q \in Readers, pc'[q] = "idle" PROVE hits'[q] = {}
  <2>1. CASE q = r BY <1>3, <2>1
  <2>2. CASE q # r BY <1>3, <2>2 DEF Alone, SearchInv
  <2> QED BY <2>1, <2>2
<1> QED BY <1>2, <1>3 DEF SearchInv

(* What is cached and what is carried stays up to date while the archive   *)
(* stays as it is.                                                         *)
LEMMA StaysSettled ==
  ASSUME Settled, NEW r \in Readers, Alone(r),
         \A k \in Keys : entry'[k] # None =>
           entry'[k] = entry[k] \/ ~ Stale(here, k, entry'[k]),
         pc'[r] = "store" => ~ Stale(here, key'[r], buf'[r])
  PROVE  Settled'
<1>1. here' = here BY DEF Alone
<1>2. ASSUME NEW k \in Keys, entry'[k] # None PROVE ~ Stale(here', k, entry'[k])
  BY <1>1, <1>2 DEF Settled
<1>3. ASSUME NEW q \in Readers, pc'[q] = "store" PROVE ~ Stale(here', key'[q], buf'[q])
  <2>1. CASE q = r BY <1>1, <1>3, <2>1
  <2>2. CASE q # r BY <1>1, <1>3, <2>2 DEF Alone, Settled
  <2> QED BY <2>1, <2>2
<1> QED BY <1>2, <1>3 DEF Settled

(* The search goes on with a listing that is up to date.                   *)
LEMMA UseFinds ==
  ASSUME CacheInv, Grown(here), SearchInv, NEW r \in Readers, NEW k, NEW nodes,
         calm[r] => k \in queue[r] /\ nodes = Listing(here, k),
         Use(r, k, nodes), Alone(r), Settled => Settled'
  PROVE  SearchInv'
<1>1. /\ SearchShape'
      /\ \A q \in Readers \ {r} :
           queue'[q] = queue[q] /\ hits'[q] = hits[q] /\ calm'[q] = calm[q]
      /\ calm'[r] => calm[r] /\ Visit(r, k, nodes)
      /\ pc'[r] = "idle" => hits'[r] = {}
  BY UseKeepsShape DEF CacheInv, SearchInv
<1>2. ASSUME calm'[r] PROVE Settled /\ CalmInv(r)'
  <2>1. calm[r] /\ Visit(r, k, nodes) BY <1>1, <1>2
  <2>2. Settled /\ CalmInv(r) BY <2>1 DEF SearchInv
  <2> QED BY <2>1, <2>2, VisitFinds DEF CacheInv, SearchInv, Alone
<1> QED BY <1>1, <1>2, OthersSearch

LEMMA GetFinds ==
  ASSUME CacheInv, Grown(here), SearchInv, NEW r \in Readers, NEW k \in Keys,
         pc[r] \in {"idle", "next"}, calm[r] => k \in queue[r], Get(r, k)
  PROVE  SearchInv'
<1>0. Shape /\ SearchShape BY DEF CacheInv, SearchInv
<1>1. UNCHANGED <<here, entry, quiet>> BY DEF Get, history
<1>2. entry' = [j \in Keys |-> entry'[j]] BY <1>0, <1>1 DEF Shape
<1>3. CASE entry[k] # None
  <2>1. Use(r, k, entry[k]) BY <1>3 DEF Get
  <2>2. Alone(r) /\ pc'[r] \in {"idle", "next"}
    BY <1>0, <1>1, <1>2, <2>1, UseGoesOn, MovesAlone DEF ReaderStates
  <2>3. Settled => Settled' BY <1>1, <2>2, StaysSettled
  <2>4. calm[r] => entry[k] = Listing(here, k) BY <1>3 DEF SearchInv, Settled, Stale
  <2> QED BY <2>1, <2>2, <2>3, <2>4, UseFinds
<1>4. CASE entry[k] = None
  <2>1. /\ key' = [key EXCEPT ![r] = k] /\ Goto(r, "read")
        /\ UNCHANGED <<buf, queue, hits, calm>>
    BY <1>4 DEF Get, search
  <2>2. Alone(r) /\ pc'[r] = "read"
    BY <1>0, <1>1, <1>2, <2>1, MovesAlone DEF ReaderStates
  <2>3. Settled => Settled' BY <1>1, <2>2, StaysSettled
  <2>4. ASSUME calm'[r] PROVE Settled /\ CalmInv(r)'
    <3>1. calm[r] /\ Settled /\ CalmInv(r) /\ k \in queue[r] BY <2>1, <2>4 DEF SearchInv
    <3>2. key'[r] = k BY <1>0, <2>1 DEF Shape
    <3>3. /\ Folders' = Folders /\ AllHits' = AllHits /\ \A p : Shown(p)' = Shown(p)
      BY <1>1, SameArchive
    <3>4. Ahead(r)' BY <2>1, <3>1, <3>3 DEF Ahead, CalmInv
    <3> QED BY <2>1, <2>2, <3>1, <3>2, <3>3, <3>4 DEF CalmInv
  <2>5. SearchShape' BY <1>0, <2>1 DEF SearchShape
  <2> QED BY <2>1, <2>2, <2>3, <2>4, <2>5, OthersSearch
<1> QED BY <1>3, <1>4

LEMMA SearchStep ==
  CacheInv /\ Grown(here) /\ SearchInv /\ [Next]_vars => SearchInv'
<1> SUFFICES ASSUME CacheInv, Grown(here), SearchInv, [Next]_vars PROVE SearchInv'
  OBVIOUS
<1>0. Shape /\ SearchShape BY DEF CacheInv, SearchInv
<1>1. ASSUME NEW r \in Readers, NEW k \in Keys, Tree(r, k) PROVE SearchInv'
  <2>1. pc[r] = "idle" /\ Get(r, k) BY <1>1 DEF Tree
  <2>2. ~ calm[r] BY <2>1 DEF SearchInv, CalmInv
  <2> QED BY <2>1, <2>2, GetFinds
<1>2. ASSUME NEW r \in Readers, NEW k \in Keys, Search(r, k) PROVE SearchInv'
  BY <1>2, GetFinds DEF Search
<1>3. ASSUME NEW r \in Readers, BeginSearch(r) PROVE SearchInv'
  <2>1. /\ pc[r] = "idle" /\ Goto(r, "next")
        /\ queue' = [queue EXCEPT ![r] = {Root}] /\ calm' = [calm EXCEPT ![r] = Settled]
        /\ UNCHANGED <<here, quiet, entry, key, buf, hits>>
    BY <1>3 DEF BeginSearch, archive, history
  <2>2. entry' = [j \in Keys |-> entry'[j]] BY <1>0, <2>1 DEF Shape
  <2>3. Alone(r) /\ pc'[r] = "next"
    BY <1>0, <2>1, <2>2, MovesAlone DEF ReaderStates
  <2>4. Settled => Settled' BY <2>1, <2>3, StaysSettled
  <2>5. SearchShape' BY <1>0, <2>1 DEF SearchShape
  <2>6. \A q \in Readers \ {r} :
          queue'[q] = queue[q] /\ hits'[q] = hits[q] /\ calm'[q] = calm[q]
    BY <1>0, <2>1 DEF SearchShape
  <2>7. ASSUME calm'[r] PROVE Settled /\ CalmInv(r)'
    <3>1. Settled BY <1>0, <2>1, <2>7 DEF SearchShape
    <3>2. queue'[r] = {Root} /\ hits'[r] = hits[r] BY <1>0, <2>1 DEF SearchShape
    <3>3. \A p \in Folders' : Under(Root, p)
      <4>1. \A p \in Folders' : p \in Seq(NamesUsed)
        <5>1. Root \in Seq(NamesUsed) BY DEF Root
        <5>2. Folders' = Folders BY <2>1, SameArchive
        <5> QED BY <5>1, <5>2, PlacesAssumption DEF Folders, Grown
      <4> SUFFICES ASSUME NEW p \in Folders' PROVE Under(Root, p) OBVIOUS
      <4>2. p \in Seq(NamesUsed) BY <4>1
      <4>3. Len(p) \in Nat /\ SubSeq(p, 1, 0) = Root BY <4>2, Beginnings
      <4>4. Len(Root) = 0 BY DEF Root
      <4> QED BY <4>3, <4>4 DEF Under
    <3>4. Ahead(r)' BY <3>2, <3>3 DEF Ahead
    <3>5. Root \in Folders' BY DEF Folders
    <3>6. hits[r] = {} BY <2>1 DEF SearchInv
    <3> QED BY <2>3, <3>1, <3>2, <3>4, <3>5, <3>6 DEF CalmInv
  <2> QED BY <2>3, <2>4, <2>5, <2>6, <2>7, OthersSearch
<1>4. ASSUME NEW r \in Readers,
             EndSearch(r) \/ BeginMeasure(r) \/ Measure(r) \/ EndMeasure(r)
      PROVE  SearchInv'
  <2>1. /\ \E s \in {"idle", "measure", "measured"} : Goto(r, s)
        /\ (\E b : key' = [key EXCEPT ![r] = b]) \/ key' = key
        /\ (\E b : buf' = [buf EXCEPT ![r] = b]) \/ buf' = buf
        /\ UNCHANGED <<here, quiet, entry>>
    BY <1>4 DEF EndSearch, BeginMeasure, Measure, EndMeasure, Return, archive, history
  <2>2. entry' = [j \in Keys |-> entry'[j]] BY <1>0, <2>1 DEF Shape
  <2>3. Alone(r) /\ pc'[r] \in {"idle", "measure", "measured"}
    BY <1>0, <2>1, <2>2, MovesAlone DEF ReaderStates
  <2>4. Settled => Settled' BY <2>1, <2>3, StaysSettled
  <2>5. CASE Return(r)
    <3>1. /\ SearchShape' /\ ~ calm'[r] /\ hits'[r] = {}
          /\ \A q \in Readers \ {r} :
               queue'[q] = queue[q] /\ hits'[q] = hits[q] /\ calm'[q] = calm[q]
      BY <1>0, <2>5 DEF Return, SearchShape
    <3> QED BY <2>3, <2>4, <3>1, OthersSearch
  <2>6. CASE /\ UNCHANGED <<queue, hits, calm>> /\ pc[r] \in {"idle", "measure"}
             /\ Goto(r, "measure") \/ Goto(r, "measured")
    <3>1. SearchShape' BY <1>0, <2>6 DEF SearchShape
    <3>2. ~ calm'[r] /\ pc'[r] # "idle" BY <1>0, <2>6 DEF SearchInv, CalmInv, Shape, Goto
    <3> QED BY <2>3, <2>4, <2>6, <3>1, <3>2, OthersSearch
  <2> QED BY <1>4, <2>5, <2>6 DEF EndSearch, BeginMeasure, Measure, EndMeasure, search
<1>5. ASSUME NEW r \in Readers, ReadDir(r) PROVE SearchInv'
  <2>1. /\ pc[r] = "read" /\ Listable(here, key[r]) /\ Goto(r, "store")
        /\ buf' = [buf EXCEPT ![r] = Listing(here, key[r])]
        /\ UNCHANGED <<here, quiet, entry, key, queue, hits, calm>>
    BY <1>5 DEF ReadDir, history, archive, search
  <2>2. entry' = [j \in Keys |-> entry'[j]] BY <1>0, <2>1 DEF Shape
  <2>3. Alone(r) /\ pc'[r] = "store" BY <1>0, <2>1, <2>2, MovesAlone DEF ReaderStates
  <2>4. buf'[r] = Listing(here, key[r]) BY <1>0, <2>1 DEF Shape
  <2>5. ~ Stale(here, key'[r], buf'[r]) BY <2>1, <2>4 DEF Stale
  <2>6. Settled => Settled' BY <2>1, <2>3, <2>5, StaysSettled
  <2>7. SearchShape' BY <1>0, <2>1 DEF SearchShape
  <2>8. ASSUME calm'[r] PROVE Settled /\ CalmInv(r)'
    <3>1. Settled /\ CalmInv(r) BY <2>1, <2>8 DEF SearchInv
    <3>2. /\ Folders' = Folders /\ AllHits' = AllHits /\ \A p : Shown(p)' = Shown(p)
      BY <2>1, SameArchive
    <3>3. Ahead(r) => Ahead(r)' BY <2>1, <3>2 DEF Ahead
    <3> QED BY <2>1, <2>3, <3>1, <3>2, <3>3 DEF CalmInv
  <2> QED BY <2>1, <2>3, <2>6, <2>7, <2>8, OthersSearch
<1>6. ASSUME NEW r \in Readers, ReadDirFails(r) PROVE SearchInv'
  <2>1. UNCHANGED <<here, quiet, entry>> BY <1>6 DEF ReadDirFails, history, archive
  <2>2. entry' = [j \in Keys |-> entry'[j]] BY <1>0, <2>1 DEF Shape
  <2>3. Alone(r) /\ pc'[r] \in {"idle", "next"}
    BY <1>0, <1>6, <2>1, <2>2, FailureGoesOn, MovesAlone DEF ReaderStates
  <2>4. Settled => Settled' BY <2>1, <2>3, StaysSettled
  <2>5. CASE Return(r)
    <3>1. /\ SearchShape' /\ ~ calm'[r] /\ hits'[r] = {}
          /\ \A q \in Readers \ {r} :
               queue'[q] = queue[q] /\ hits'[q] = hits[q] /\ calm'[q] = calm[q]
      BY <1>0, <2>5 DEF Return, SearchShape
    <3> QED BY <2>3, <2>4, <3>1, OthersSearch
  <2>6. CASE Skip(r)
    <3>1. /\ SearchShape' /\ ~ calm'[r] /\ pc'[r] = "next"
          /\ \A q \in Readers \ {r} :
               queue'[q] = queue[q] /\ hits'[q] = hits[q] /\ calm'[q] = calm[q]
      BY <1>0, <2>6 DEF Skip, Goto, SearchShape, Shape
    <3> QED BY <2>3, <2>4, <3>1, OthersSearch
  <2> QED BY <1>6, <2>5, <2>6 DEF ReadDirFails
<1>7. ASSUME NEW r \in Readers, Store(r) PROVE SearchInv'
  <2>1. /\ pc[r] = "store" /\ Use(r, key[r], buf[r]) /\ UNCHANGED <<here, quiet>>
    BY <1>7 DEF Store
  <2>2. PICK kept : entry' = [j \in Keys |-> IF j = key[r] THEN buf[r]
                                 ELSE IF j \in ToSet(kept) THEN entry[j] ELSE None]
    BY <1>7 DEF Store, Set
  <2>3. entry' = [j \in Keys |-> entry'[j]] BY <2>2
  <2>4. Alone(r) /\ pc'[r] \in {"idle", "next"}
    BY <1>0, <2>1, <2>3, UseGoesOn, MovesAlone DEF ReaderStates
  <2>5. ASSUME Settled PROVE Settled'
    <3>1. ~ Stale(here, key[r], buf[r]) BY <2>1, <2>5 DEF Settled
    <3>2. \A k \in Keys : entry'[k] # None =>
            entry'[k] = entry[k] \/ ~ Stale(here, k, entry'[k])
      BY <2>2, <3>1
    <3> QED BY <2>4, <2>5, <3>2, StaysSettled
  <2>6. calm[r] => key[r] \in queue[r] /\ buf[r] = Listing(here, key[r])
    BY <2>1 DEF SearchInv, CalmInv, Settled, Stale
  <2> QED BY <2>1, <2>4, <2>5, <2>6, UseFinds
<1>8. CASE (\E w \in Writers, p \in Places : Change(w, p)) \/ \E p \in Places : ChangeQuietly(p)
  <2>1. calm' = [r \in Readers |-> FALSE] /\ UNCHANGED <<queue, hits>>
    BY <1>8 DEF Change, ChangeQuietly, Toggle
  <2>2. \A r \in Readers : pc'[r] = pc[r]
    <3>1. \A r \in Readers, w \in Writers : r # w BY CacheAssumption
    <3> QED BY <1>0, <1>8, <3>1 DEF Shape, Goto, Change, ChangeQuietly
  <2> QED BY <1>0, <2>1, <2>2 DEF SearchInv, SearchShape
<1>9. CASE \/ \E w \in Writers : Invalidate(w) \/ InvalidateUsage(w)
           \/ UsageExpires \/ UNCHANGED vars
  <2>1. /\ UNCHANGED <<here, key, buf, queue, hits, calm>>
        /\ entry' = entry \/ entry' = [k \in Keys |-> None]
    BY <1>9 DEF Invalidate, InvalidateUsage, UsageExpires, vars, archive, search
  <2>2. \A r \in Readers : pc'[r] = pc[r]
    <3>1. \A r \in Readers, w \in Writers : r # w BY CacheAssumption
    <3> QED BY <1>0, <1>9, <3>1
            DEF Shape, Goto, Invalidate, InvalidateUsage, UsageExpires, vars
  <2>3. ASSUME Settled PROVE Settled'
    <3>1. \A k \in Keys : entry'[k] # None => ~ Stale(here, k, entry'[k])
      BY <2>1, <2>3 DEF Settled
    <3>2. \A r \in Readers : pc'[r] = "store" => ~ Stale(here, key'[r], buf'[r])
      BY <2>1, <2>2, <2>3 DEF Settled
    <3> QED BY <2>1, <3>1, <3>2 DEF Settled
  <2>4. ASSUME NEW r \in Readers, calm'[r] PROVE Settled' /\ CalmInv(r)'
    <3>1. Settled /\ CalmInv(r) BY <2>1, <2>4 DEF SearchInv
    <3>2. /\ Folders' = Folders /\ AllHits' = AllHits /\ \A p : Shown(p)' = Shown(p)
      BY <2>1, SameArchive
    <3>3. Ahead(r) => Ahead(r)' BY <2>1, <3>2 DEF Ahead
    <3> QED BY <2>1, <2>2, <2>3, <3>1, <3>2, <3>3 DEF CalmInv
  <2> QED BY <1>0, <2>1, <2>2, <2>4 DEF SearchInv, SearchShape
<1> QED BY <1>1, <1>2, <1>3, <1>4, <1>5, <1>6, <1>7, <1>8, <1>9 DEF Next

(* A search that met no change and no error has found every visible name   *)
(* that matches, or as many as it may (search.go:43-78), for any tree of   *)
(* folders and links, whatever of it was in the cache and whatever other   *)
(* requests put there, evicted or invalidated meanwhile.                   *)
THEOREM SearchesAreComplete == Spec => []SearchFindsAll
<1>1. Init => SearchInv BY DEF Init, SearchInv, SearchShape
<1>2. Spec => []SearchInv BY <1>1, SearchStep, CacheInvariant, TreeInvariant, PTL DEF Spec
<1>3. SearchInv => SearchFindsAll
  <2> SUFFICES ASSUME SearchInv, NEW r \in Readers, Found(r), calm[r]
               PROVE  /\ hits[r] \subseteq AllHits
                      /\ hits[r] = AllHits \/ Cardinality(hits[r]) = Limit
    BY DEF SearchFindsAll
  <2>1. CalmInv(r) /\ queue[r] = {} BY DEF SearchInv, Found
  <2>2. ASSUME Ahead(r) PROVE AllHits \subseteq hits[r]
    <3>1. \A p \in Folders : Hits(Shown(p)) \subseteq hits[r] BY <2>1, <2>2 DEF Ahead
    <3> QED BY <3>1 DEF AllHits
  <2> QED BY <2>1, <2>2 DEF CalmInv
<1> QED BY <1>2, <1>3, PTL
=============================================================================
