-------------------------- MODULE LoginTrail_proofs --------------------------
(***************************************************************************)
(* Proofs about LoginTrail, for any number of requests, any limit and any  *)
(* length of the log.  A step of the composition is a step of the limiter, *)
(* or leaves it alone, or is a restart that forgets it.                    *)
(*                                                                         *)
(* Then AtomicFile: whatever is written, and whenever the process dies or  *)
(* the power fails, the name leads to a value that was completely written. *)
(*                                                                         *)
(* The last part is about the activity log, which is appended to as well   *)
(* as replaced: what its prune keeps, what a line that was cut short takes *)
(* with it, and what is left after a crash at any point of either.         *)
(***************************************************************************)
EXTENDS LoginTrail, FiniteSetTheorems, SequenceTheorems, WellFoundedInduction, TLAPS

(* The limiter's invariant is inductive as it stands: while the entry has  *)
(* no lock it knows the number of failures, which bounds them when the     *)
(* next request passes; once it has a lock, only requests that are already *)
(* checking add to them.                                                   *)
LimiterInv == LimiterTypeOK /\ FailuresBounded /\ EveryFailureCounts

(* A request that stops checking makes the set of them smaller by one.     *)
LEMMA CheckingFinite ==
  IsFiniteSet(Checking) /\ Cardinality(Checking) \in Nat
    /\ Cardinality(Checking) <= Cardinality(Callers) /\ Cardinality(Callers) \in Nat
<1>1. Checking \subseteq Callers BY DEF Checking
<1> QED BY <1>1, LimiterAssumption, FS_Subset, FS_CardinalityType

LEMMA StopsChecking ==
  ASSUME LimiterTypeOK, NEW c \in Callers, NEW s \in {"idle", "log"},
         pc[c] = "check", Goto(c, s)
  PROVE  Cardinality(Checking') = Cardinality(Checking) - 1
<1>1. Checking' = Checking \ {c} BY DEF Checking, Goto, LimiterTypeOK
<1>2. c \in Checking BY DEF Checking
<1> QED BY <1>1, <1>2, CheckingFinite, FS_RemoveElement

LEMMA CheckingFiniteNext ==
  Cardinality(Checking') \in Nat /\ Cardinality(Checking') <= Cardinality(Callers)
<1>1. Checking' \subseteq Callers BY DEF Checking
<1> QED BY <1>1, LimiterAssumption, FS_Subset, FS_CardinalityType

LEMMA ZeroIsEntry == Zero \in Entry /\ Zero.count = 0 /\ Zero.lock = "none"
BY DEF Zero, Entry

LEMMA CurrentIsEntry == LimiterTypeOK => Current \in Entry
BY ZeroIsEntry DEF LimiterTypeOK, Current

(* Where the entry is forgotten, the invariant starts anew.                *)
LEMMA ForgottenIsFine ==
  ASSUME entry' \in {NoEntry, Zero}, fails' = 0,
         pc' \in [Callers -> {"idle", "check", "log"}]
  PROVE  LimiterInv'
<1>1. LimiterTypeOK' BY ZeroIsEntry DEF LimiterTypeOK
<1>2. FailuresBounded'
  BY CheckingFiniteNext, CheckingFinite, LimiterAssumption DEF FailuresBounded
<1>3. EveryFailureCounts'
  BY ZeroIsEntry, LimiterAssumption DEF EveryFailureCounts, Current
<1> QED BY <1>1, <1>2, <1>3 DEF LimiterInv

LEMMA LimiterStep == LimiterInv /\ [LimiterNext]_limiterVars => LimiterInv'
<1> SUFFICES ASSUME LimiterInv, [LimiterNext]_limiterVars PROVE LimiterInv'
  OBVIOUS
<1> USE DEF LimiterInv
<1>a. Current \in Entry BY CurrentIsEntry
<1>b. /\ fails \in Nat /\ MaxFailures \in Nat \ {0}
      /\ Cardinality(Checking) \in Nat /\ Cardinality(Callers) \in Nat
      /\ Cardinality(Checking') \in Nat
      /\ Cardinality(Checking') <= Cardinality(Callers)
  BY CheckingFinite, CheckingFiniteNext, LimiterAssumption DEF LimiterTypeOK
<1>1. ASSUME NEW c \in Callers, Allow(c) PROVE LimiterInv'
  <2>1. CASE Current.lock = "over"
    BY <1>1, <2>1, ForgottenIsFine DEF Allow, Goto, LimiterTypeOK
  <2>2. CASE Current.lock # "over"
    <3>1. entry' = entry /\ fails' = fails BY <1>1, <2>2 DEF Allow
    <3>2. LimiterTypeOK' BY <1>1, <3>1 DEF Allow, Goto, LimiterTypeOK
    <3>3. Current.lock = "none" BY <1>1, <2>2, <1>a DEF Allow, Entry
    <3>4. FailuresBounded'
      BY <3>1, <3>3, <1>b DEF FailuresBounded, EveryFailureCounts
    <3>5. EveryFailureCounts' BY <3>1 DEF EveryFailureCounts, Current
    <3> QED BY <3>2, <3>4, <3>5
  <2> QED BY <2>1, <2>2
<1>2. ASSUME NEW c \in Callers, GiveUp(c) PROVE LimiterInv'
  <2>1. LimiterTypeOK' BY <1>2 DEF GiveUp, Goto, LimiterTypeOK
  <2>2. Cardinality(Checking') = Cardinality(Checking) - 1
    BY <1>2, StopsChecking DEF GiveUp
  <2>3. FailuresBounded' BY <1>2, <2>2, <1>b DEF GiveUp, FailuresBounded
  <2>4. EveryFailureCounts' BY <1>2 DEF GiveUp, EveryFailureCounts, Current
  <2> QED BY <2>1, <2>3, <2>4
<1>3. ASSUME NEW c \in Callers, RecordFailure(c) PROVE LimiterInv'
  <2>0. fails' = fails + 1 BY <1>3 DEF RecordFailure
  <2>1. entry' \in Entry
    <3>1. CASE Current.count + 1 >= MaxFailures
      BY <1>3, <3>1 DEF RecordFailure, Entry
    <3>2. CASE ~ (Current.count + 1 >= MaxFailures)
      <4>1. entry' = [Current EXCEPT !.count = @ + 1, !.last = "recent"]
        BY <1>3, <3>2 DEF RecordFailure
      <4>2. [Current EXCEPT !.count = @ + 1] \in Entry BY <1>a DEF Entry
      <4>3. entry' = [[Current EXCEPT !.count = @ + 1] EXCEPT !.last = "recent"]
        BY <4>1
      <4> QED BY <4>2, <4>3 DEF Entry
    <3> QED BY <3>1, <3>2
  <2>2. LimiterTypeOK' BY <1>3, <2>0, <2>1, <1>b DEF RecordFailure, Goto, LimiterTypeOK
  <2>3. Cardinality(Checking') = Cardinality(Checking) - 1
    BY <1>3, StopsChecking DEF RecordFailure
  <2>4. FailuresBounded' BY <2>0, <2>3, <1>b DEF FailuresBounded
  <2>5. EveryFailureCounts'
    <3>1. Current' = entry' BY <2>1, NoEntryAssumption DEF Current
    <3>2. SUFFICES ASSUME entry'.lock = "none"
                   PROVE entry'.count = fails' /\ fails' < MaxFailures
      BY <3>1 DEF EveryFailureCounts
    <3>3. Current.count + 1 < MaxFailures
      <4>1. CASE Current.count + 1 >= MaxFailures
        BY <1>3, <3>2, <4>1 DEF RecordFailure
      <4> QED BY <4>1, <1>a, <1>b DEF Entry
    <3>4. entry' = [Current EXCEPT !.count = @ + 1, !.last = "recent"]
      BY <1>3, <3>3, <1>a, <1>b DEF RecordFailure, Entry
    <3>5. Current.lock = "none" BY <3>2, <3>4, <1>a DEF Entry
    <3>6. entry'.count = Current.count + 1 BY <3>4, <1>a DEF Entry
    <3> QED BY <3>3, <3>5, <3>6, <2>0 DEF EveryFailureCounts
  <2> QED BY <2>2, <2>4, <2>5
<1>4. ASSUME NEW c \in Callers, NEW next \in {"idle", "log"}, Succeed(c, next)
      PROVE LimiterInv'
  BY <1>4, ForgottenIsFine DEF Succeed, Goto, LimiterTypeOK
<1>5. ASSUME NEW c \in Callers, Logged(c) PROVE LimiterInv'
  <2>1. LimiterTypeOK' BY <1>5 DEF Logged, Goto, LimiterTypeOK
  <2>2. Checking' = Checking BY <1>5 DEF Logged, Goto, LimiterTypeOK, Checking
  <2>3. FailuresBounded' BY <1>5, <2>2 DEF Logged, FailuresBounded
  <2>4. EveryFailureCounts' BY <1>5 DEF Logged, EveryFailureCounts, Current
  <2> QED BY <2>1, <2>3, <2>4
<1>6. ASSUME LockEnds \/ FailureAges PROVE LimiterInv'
  <2>1. entry \in Entry /\ Current = entry /\ pc' = pc /\ fails' = fails
    BY <1>6 DEF LockEnds, FailureAges, Current, Zero, LimiterTypeOK
  <2>2. /\ entry' \in Entry /\ entry'.count = entry.count
        /\ entry'.lock = "none" => entry.lock = "none"
    BY <1>6, <2>1 DEF LockEnds, FailureAges, Entry
  <2>3. LimiterTypeOK' BY <2>1, <2>2 DEF LimiterTypeOK
  <2>4. FailuresBounded' BY <2>1 DEF FailuresBounded, Checking
  <2>5. EveryFailureCounts'
    BY <2>1, <2>2, NoEntryAssumption DEF EveryFailureCounts, Current
  <2> QED BY <2>3, <2>4, <2>5
<1>7. ASSUME Reap PROVE LimiterInv'
  BY <1>7, ForgottenIsFine DEF Reap, LimiterTypeOK
<1>8. ASSUME UNCHANGED limiterVars PROVE LimiterInv'
  BY <1>8 DEF limiterVars, LimiterTypeOK, FailuresBounded, Checking,
              EveryFailureCounts, Current
<1> QED BY <1>1, <1>2, <1>3, <1>4, <1>5, <1>6, <1>7, <1>8 DEF LimiterNext, Request

LEMMA LimiterInitially == LimiterInit => LimiterInv
<1> SUFFICES ASSUME LimiterInit PROVE LimiterInv
  OBVIOUS
<1> USE DEF LimiterInit
<1>1. LimiterTypeOK BY DEF LimiterTypeOK
<1>2. FailuresBounded
  BY CheckingFinite, LimiterAssumption DEF FailuresBounded
<1>3. EveryFailureCounts
  BY ZeroIsEntry, LimiterAssumption DEF EveryFailureCounts, Current
<1> QED BY <1>1, <1>2, <1>3 DEF LimiterInv

(* To the limiter, a step of the composition is one of its own, nothing,   *)
(* or a restart.                                                           *)
LEMMA TrailStep == [Next]_vars => [LimiterNext]_limiterVars \/ Forget
<1> SUFFICES ASSUME [Next]_vars PROVE [LimiterNext]_limiterVars \/ Forget
  OBVIOUS
<1>1. CASE \E c \in Callers : Login(c)
  BY <1>1 DEF Login, LimiterNext, Request
<1>2. CASE Time \/ Reap
  BY <1>2 DEF Time, LimiterNext
<1>3. CASE \E c \in Callers : AuditFails(c) \/ AuditEnds(c)
  BY <1>3 DEF AuditFails, AuditEnds, LimiterNext, Request
<1>4. CASE UNCHANGED limiterVars
  BY <1>4
<1>5. CASE Forget
  BY <1>5
<1> QED BY <1>1, <1>2, <1>3, <1>4, <1>5 DEF Next, vars, AuditBegins, Replacing

LEMMA TrailKeepsLimiter == LimiterInv /\ [Next]_vars => LimiterInv'
<1>1. ASSUME LimiterInv, Forget PROVE LimiterInv'
  BY <1>1, ForgottenIsFine DEF Forget
<1> QED BY <1>1, TrailStep, LimiterStep

LEMMA LimiterInvariant == Spec => []LimiterInv
BY LimiterInitially, TrailKeepsLimiter, PTL DEF Spec, Init

(* "5 failures per IP per minute" (src/README.md:206): an address is out   *)
(* after MaxFailures failures, but for the requests that passed allowLogin *)
(* before the last of them was recorded.                                   *)
THEOREM FailuresAreBounded == Spec => []FailuresBounded
BY LimiterInvariant, PTL DEF LimiterInv

(* Requests that record their failures at the same time do not overwrite   *)
(* each other's (recordFailure, session.go:284).                           *)
THEOREM FailuresAreCounted == Spec => []EveryFailureCounts
BY LimiterInvariant, PTL DEF LimiterInv

-----------------------------------------------------------------------------
(* A complete file: what a process reads and what is on the disk are both  *)
(* values, not necessarily the same.                                       *)
Complete == [data : Values, safe : Values]

(* The temporary file holds what was done to it so far.  It is complete by *)
(* the time it is renamed; at any other time a crash may have left it in   *)
(* any state, and nobody reads it.                                         *)
TmpInv ==
  /\ step \in {"idle", "open", "write", "sync", "rename", "folder", "done", "failed"}
  /\ step \in {"open", "write", "sync", "rename"} => want \in Values
  /\ step = "write" => tmp = Created
  /\ step = "sync" => tmp = [data |-> want, safe |-> Truncated]
  /\ step = "rename" => tmp = Stored(want)

FileInv == {path} \cup was \subseteq Complete /\ TmpInv

LEMMA FileInitially == (\E v \in Values : FileInit(v)) => FileInv
BY DEF FileInit, FileInv, TmpInv, Complete, Stored

LEMMA FileStep == FileInv /\ [FileNext]_fileVars => FileInv'
<1> SUFFICES ASSUME FileInv, [FileNext]_fileVars PROVE FileInv'
  OBVIOUS
<1> USE DEF FileInv, TmpInv
<1>1. ASSUME NEW v \in Values, BeginWrite(v) PROVE FileInv'
  BY <1>1 DEF BeginWrite
<1>2. ASSUME OpenTmp PROVE FileInv'
  BY <1>2 DEF OpenTmp
<1>3. ASSUME OpenFails \/ WriteFails \/ EndWrite \/ Crash PROVE FileInv'
  BY <1>3 DEF OpenFails, WriteFails, EndWrite, Crash
<1>4. ASSUME WriteTmp PROVE FileInv'
  <2>1. tmp' = [data |-> want, safe |-> Truncated]
    BY <1>4 DEF WriteTmp, Created, Stored
  <2> QED BY <1>4, <2>1 DEF WriteTmp
<1>5. ASSUME SyncTmp PROVE FileInv'
  <2>1. tmp' = Stored(want) BY <1>5 DEF SyncTmp
  <2> QED BY <1>5, <2>1 DEF SyncTmp
<1>6. ASSUME Rename PROVE FileInv'
  <2>1. path' \in Complete BY <1>6 DEF Rename, Stored, Complete
  <2>2. was' \subseteq Complete BY <1>6 DEF Rename
  <2> QED BY <1>6, <2>1, <2>2 DEF Rename
<1>7. ASSUME NEW ok \in BOOLEAN, SyncFolder(ok) PROVE FileInv'
  BY <1>7 DEF SyncFolder
<1>8. ASSUME NEW f \in {path} \cup was, NEW v \in {f.data, f.safe}, PowerFails(f, v)
      PROVE  FileInv'
  <2>1. v \in Values BY DEF Complete
  <2>2. path' \in Complete BY <1>8, <2>1 DEF PowerFails, Stored, Complete
  <2> QED BY <1>8, <2>2 DEF PowerFails
<1>9. ASSUME UNCHANGED fileVars PROVE FileInv'
  BY <1>9 DEF fileVars
<1> QED
  BY <1>1, <1>2, <1>3, <1>4, <1>5, <1>6, <1>7, <1>8, <1>9 DEF FileNext, Writing

LEMMA CompleteIsNotTruncated == FileInv => NeverTruncated
BY TruncatedAssumption DEF FileInv, Complete, NeverTruncated

(* "a crash mid-write cannot leave a truncated JSON file" (atomic.go:8),   *)
(* for every value that is written and every moment a process dies or the  *)
(* power fails.                                                            *)
THEOREM NoTruncation == FileSpec => []NeverTruncated
<1>1. FileSpec => []FileInv
  BY FileInitially, FileStep, PTL DEF FileSpec
<1> QED BY <1>1, CompleteIsNotTruncated, PTL

-----------------------------------------------------------------------------
(* Induction over the numbers, for a set: what holds of 0 and passes from  *)
(* n to n + 1 holds of all of them.                                        *)
LEMMA LeastNumber ==
  ASSUME NEW T \in SUBSET Nat, T # {}
  PROVE  \E n \in T : \A m \in T : n <= m
<1>1. PICK n \in T : \A m \in T : ~ (<<m, n>> \in OpToRel(<, Nat))
  BY NatLessThanWellFounded, WFMin
<1>2. \A m \in T : ~ (m < n)
  BY <1>1, Zenon DEF OpToRel
<1> QED BY <1>2

LEMMA Induction ==
  ASSUME NEW S, 0 \in S, \A n \in Nat : n \in S => n + 1 \in S
  PROVE  Nat \subseteq S
<1> SUFFICES ASSUME Nat \ S # {} PROVE FALSE
  OBVIOUS
<1>1. PICK n \in Nat \ S : \A m \in Nat \ S : n <= m
  BY LeastNumber
<1>2. n # 0 /\ n - 1 \in Nat /\ n - 1 \in S /\ (n - 1) + 1 = n
  BY <1>1
<1> QED BY <1>1, <1>2

(* f goes through the first n lines of s and picks those in S.             *)
Picks(f, s, S, n) ==
  f = [k \in 0 .. n |-> IF k = 0 THEN << >>
                        ELSE IF s[k] \in S THEN Append(f[k - 1], s[k]) ELSE f[k - 1]]

LEMMA PicksExist ==
  ASSUME NEW s, NEW S, NEW n \in Nat
  PROVE  \E f : Picks(f, s, S, n)
<1> DEFINE T == {m \in Nat : \E f : Picks(f, s, S, m)}
<1>1. 0 \in T
  <2>1. Picks([k \in 0 .. 0 |-> << >>], s, S, 0) BY DEF Picks
  <2> QED BY <2>1
<1>2. ASSUME NEW m \in Nat, m \in T PROVE m + 1 \in T
  <2>1. PICK f : Picks(f, s, S, m) BY <1>2
  <2> DEFINE top == IF s[m + 1] \in S THEN Append(f[m], s[m + 1]) ELSE f[m]
             g == [k \in 0 .. m + 1 |-> IF k = m + 1 THEN top ELSE f[k]]
  <2>2. \A k \in 0 .. m : g[k] = f[k] BY <1>2
  <2>3. ASSUME NEW k \in 0 .. m + 1
        PROVE  g[k] = IF k = 0 THEN << >>
                      ELSE IF s[k] \in S THEN Append(g[k - 1], s[k]) ELSE g[k - 1]
    <3>1. CASE k = m + 1
      <4>1. g[k] = top /\ k # 0 /\ k - 1 = m /\ g[k - 1] = f[m] BY <1>2, <2>2, <3>1
      <4> QED BY <3>1, <4>1
    <3>2. CASE k # m + 1
      <4>1. k \in 0 .. m BY <1>2, <3>2
      <4>2. f[k] = IF k = 0 THEN << >>
                   ELSE IF s[k] \in S THEN Append(f[k - 1], s[k]) ELSE f[k - 1]
        BY <2>1, <4>1 DEF Picks
      <4>3. k # 0 => k - 1 \in 0 .. m BY <4>1
      <4> QED BY <2>2, <4>1, <4>2, <4>3
    <3> QED BY <3>1, <3>2
  <2>4. g = [k \in 0 .. m + 1 |-> g[k]] OBVIOUS
  <2> HIDE DEF g
  <2>5. Picks(g, s, S, m + 1) BY <2>3, <2>4 DEF Picks
  <2> QED BY <1>2, <2>5
<1> HIDE DEF T
<1>3. Nat \subseteq T BY <1>1, <1>2, Induction
<1> QED BY <1>3 DEF T

LEMMA OnlyPicks ==
  ASSUME NEW s, Len(s) \in Nat, NEW S
  PROVE  \E f : Picks(f, s, S, Len(s)) /\ Only(s, S) = f[Len(s)]
<1> DEFINE f == CHOOSE g : Picks(g, s, S, Len(s))
<1>1. Picks(f, s, S, Len(s)) BY PicksExist
<1>2. Only(s, S) = f[Len(s)] BY DEF Only, Picks
<1> QED BY <1>1, <1>2

(* The lines that are picked are those in S, in the order they had.        *)
Picked(u, s, S, n) ==
  /\ u \in Seq(S) /\ Len(u) <= n
  /\ \A k \in 1 .. n : s[k] \in S => \E i \in 1 .. Len(u) : u[i] = s[k]
  /\ \A i \in 1 .. Len(u) : \E k \in 1 .. n : u[i] = s[k]
  /\ \A i, j \in 1 .. Len(u) : i < j =>
       \E k, m \in 1 .. n : k < m /\ u[i] = s[k] /\ u[j] = s[m]

LEMMA PickedStep ==
  ASSUME NEW s, NEW S, NEW n \in Nat, NEW u, Picked(u, s, S, n)
  PROVE  Picked(IF s[n + 1] \in S THEN Append(u, s[n + 1]) ELSE u, s, S, n + 1)
<1>0. 1 .. n \subseteq 1 .. n + 1 /\ n + 1 \in 1 .. n + 1
      /\ \A k \in 1 .. n + 1 : k \in 1 .. n \/ k = n + 1
  OBVIOUS
<1>1. CASE s[n + 1] \notin S
  <2>1. Len(u) \in Nat /\ Len(u) <= n + 1 BY DEF Picked
  <2> QED BY <1>0, <1>1, <2>1 DEF Picked
<1>2. CASE s[n + 1] \in S
  <2> DEFINE v == Append(u, s[n + 1])
  <2>1. /\ v \in Seq(S) /\ Len(v) = Len(u) + 1 /\ Len(u) \in Nat /\ Len(u) <= n
        /\ v[Len(u) + 1] = s[n + 1] /\ \A i \in 1 .. Len(u) : v[i] = u[i]
    BY <1>2 DEF Picked
  <2> HIDE DEF v
  <2>2. Len(v) <= n + 1 BY <2>1
  <2>3. ASSUME NEW i \in 1 .. Len(v) PROVE i \in 1 .. Len(u) \/ i = Len(u) + 1
    BY <2>1
  <2>4. \A i \in 1 .. Len(u) : i \in 1 .. Len(v) BY <2>1
  <2>5. Len(u) + 1 \in 1 .. Len(v) BY <2>1
  <2>6. ASSUME NEW k \in 1 .. n + 1, s[k] \in S PROVE \E i \in 1 .. Len(v) : v[i] = s[k]
    <3>1. CASE k = n + 1 BY <2>1, <2>5, <3>1
    <3>2. CASE k \in 1 .. n
      <4>1. PICK i \in 1 .. Len(u) : u[i] = s[k] BY <2>6, <3>2 DEF Picked
      <4> QED BY <2>1, <2>4, <4>1
    <3> QED BY <1>0, <3>1, <3>2
  <2>7. ASSUME NEW i \in 1 .. Len(v) PROVE \E k \in 1 .. n + 1 : v[i] = s[k]
    <3>1. CASE i = Len(u) + 1 BY <1>0, <2>1, <3>1
    <3>2. CASE i \in 1 .. Len(u)
      <4>1. PICK k \in 1 .. n : u[i] = s[k] BY <3>2 DEF Picked
      <4> QED BY <1>0, <2>1, <3>2, <4>1
    <3> QED BY <2>3, <3>1, <3>2
  <2>8. ASSUME NEW i \in 1 .. Len(v), NEW j \in 1 .. Len(v), i < j
        PROVE  \E k, m \in 1 .. n + 1 : k < m /\ v[i] = s[k] /\ v[j] = s[m]
    <3>1. i \in 1 .. Len(u) BY <2>1, <2>8
    <3>2. CASE j \in 1 .. Len(u)
      <4>1. PICK k \in 1 .. n, m \in 1 .. n : k < m /\ u[i] = s[k] /\ u[j] = s[m]
        BY <2>8, <3>1, <3>2 DEF Picked
      <4> QED BY <1>0, <2>1, <3>1, <3>2, <4>1
    <3>3. CASE j = Len(u) + 1
      <4>1. PICK k \in 1 .. n : u[i] = s[k] BY <3>1 DEF Picked
      <4>2. k < n + 1 OBVIOUS
      <4> QED BY <1>0, <2>1, <3>1, <3>3, <4>1, <4>2
    <3> QED BY <2>3, <3>2, <3>3
  <2>9. Picked(v, s, S, n + 1) BY <2>1, <2>2, <2>6, <2>7, <2>8 DEF Picked
  <2> QED BY <1>2, <2>9 DEF v
<1> QED BY <1>1, <1>2

LEMMA OnlyIsPicked ==
  ASSUME NEW s, Len(s) \in Nat, NEW S
  PROVE  Picked(Only(s, S), s, S, Len(s))
<1>1. PICK f : Picks(f, s, S, Len(s)) /\ Only(s, S) = f[Len(s)]
  BY OnlyPicks
<1> DEFINE T == {n \in Nat : n <= Len(s) => Picked(f[n], s, S, n)}
<1>2. 0 \in T
  <2>1. f[0] = << >> BY <1>1 DEF Picks
  <2>2. << >> \in Seq(S) /\ Len(<< >>) = 0 OBVIOUS
  <2>3. 1 .. 0 = {} OBVIOUS
  <2>4. 1 .. Len(<< >>) = {} /\ Len(<< >>) <= 0 BY <2>2
  <2>5. Picked(<< >>, s, S, 0) BY <2>2, <2>3, <2>4, Zenon DEF Picked
  <2> QED BY <2>1, <2>5
<1>3. ASSUME NEW n \in Nat, n \in T PROVE n + 1 \in T
  <2> SUFFICES ASSUME n + 1 <= Len(s) PROVE Picked(f[n + 1], s, S, n + 1)
    OBVIOUS
  <2>1. Picked(f[n], s, S, n) BY <1>3
  <2>2. n + 1 \in 0 .. Len(s) /\ n + 1 # 0 /\ (n + 1) - 1 = n OBVIOUS
  <2>3. f[n + 1] = IF s[n + 1] \in S THEN Append(f[n], s[n + 1]) ELSE f[n]
    BY <1>1, <2>2 DEF Picks
  <2> QED BY <2>1, <2>3, PickedStep
<1> HIDE DEF T
<1>4. Nat \subseteq T BY <1>2, <1>3, Induction
<1> QED BY <1>1, <1>4 DEF T

Sorted(u) == \A i, j \in 1 .. Len(u) : i < j => u[i] < u[j]

(* The numbers among the lines of a file come in the order of their events.*)
InOrder(s) ==
  \A i, j \in 1 .. Len(s) :
    i < j /\ s[i] # Garbage /\ s[j] # Garbage => s[i] < s[j]

LEMMA MembersOf ==
  ASSUME NEW X, NEW s \in Seq(X)
  PROVE  DOMAIN s = 1 .. Len(s) /\ \A x : x \in ToSet(s) <=> \E i \in 1 .. Len(s) : s[i] = x
BY DEF ToSet

LEMMA OnlySorts ==
  ASSUME NEW X, NEW s \in Seq(X), InOrder(s), NEW S \in SUBSET Nat
  PROVE  /\ Only(s, S) \in Seq(S) /\ Len(Only(s, S)) <= Len(s) /\ Sorted(Only(s, S))
         /\ ToSet(Only(s, S)) = ToSet(s) \cap S
<1> DEFINE u == Only(s, S)
<1>1. Len(s) \in Nat OBVIOUS
<1>2. Picked(u, s, S, Len(s)) BY <1>1, OnlyIsPicked
<1> HIDE DEF u
<1>3. u \in Seq(S) /\ Len(u) <= Len(s) BY <1>2 DEF Picked
<1>4. \A i \in 1 .. Len(u) : u[i] \in S BY <1>3
<1>5. ASSUME NEW i \in 1 .. Len(u), NEW j \in 1 .. Len(u), i < j PROVE u[i] < u[j]
  <2>1. PICK k \in 1 .. Len(s), m \in 1 .. Len(s) : k < m /\ u[i] = s[k] /\ u[j] = s[m]
    BY <1>2, <1>5 DEF Picked
  <2>2. s[k] # Garbage /\ s[m] # Garbage BY <1>4, <2>1, LogAssumption
  <2> QED BY <2>1, <2>2 DEF InOrder
<1>6. ASSUME NEW x PROVE x \in ToSet(u) <=> x \in ToSet(s) \cap S
  <2>1. x \in ToSet(u) <=> \E i \in 1 .. Len(u) : u[i] = x BY <1>3, MembersOf
  <2>2. x \in ToSet(s) <=> \E k \in 1 .. Len(s) : s[k] = x BY MembersOf
  <2> QED BY <1>2, <1>4, <2>1, <2>2 DEF Picked
<1> QED BY <1>3, <1>5, <1>6 DEF Sorted, u

(* How many there are among the last elements of a sequence.               *)
LEMMA CountFrom ==
  ASSUME NEW S, NEW u \in Seq(S), NEW a \in 1 .. Len(u) + 1
  PROVE  LET B == {u[i] : i \in a .. Len(u)}
         IN IsFiniteSet(B) /\ Cardinality(B) \in Nat /\ Cardinality(B) <= Len(u) + 1 - a
<1> DEFINE B == {u[i] : i \in a .. Len(u)}
           f == [i \in a .. Len(u) |-> u[i]]
<1>0. a \in Int /\ Len(u) \in Int OBVIOUS
<1>1. IsFiniteSet(a .. Len(u)) /\ Cardinality(a .. Len(u)) = Len(u) + 1 - a
  <2>1. /\ Cardinality(a .. Len(u)) = IF a > Len(u) THEN 0 ELSE Len(u) - a + 1
        /\ IsFiniteSet(a .. Len(u))
    BY <1>0, FS_Interval
  <2> QED BY <1>0, <2>1
<1>2. f \in Surjection(a .. Len(u), B) BY Zenon DEF Surjection
<1> HIDE DEF f, B
<1>3. IsFiniteSet(B) /\ Cardinality(B) <= Len(u) + 1 - a BY <1>1, <1>2, FS_Surjection
<1>4. Cardinality(B) \in Nat BY <1>3, FS_CardinalityType
<1> QED BY <1>3, <1>4 DEF B

LEMMA CountAll ==
  ASSUME NEW S \in SUBSET Nat, NEW u \in Seq(S)
  PROVE  /\ IsFiniteSet(ToSet(u)) /\ Cardinality(ToSet(u)) <= Len(u)
         /\ Cardinality(ToSet(u)) \in Nat
         /\ Sorted(u) => Cardinality(ToSet(u)) = Len(u)
<1>1. IsFiniteSet(1 .. Len(u)) /\ Cardinality(1 .. Len(u)) = Len(u)
  <2>1. /\ Cardinality(1 .. Len(u)) = IF 1 > Len(u) THEN 0 ELSE Len(u) - 1 + 1
        /\ IsFiniteSet(1 .. Len(u))
    BY FS_Interval
  <2> QED BY <2>1
<1>2. u = [i \in 1 .. Len(u) |-> u[i]] /\ \A i \in 1 .. Len(u) : u[i] \in Nat
  OBVIOUS
<1>3. u \in Surjection(1 .. Len(u), ToSet(u))
  <2>1. \A x : x \in ToSet(u) <=> \E i \in 1 .. Len(u) : u[i] = x BY MembersOf
  <2>2. u \in [1 .. Len(u) -> ToSet(u)] BY <1>2, <2>1
  <2> QED BY <2>1, <2>2, Zenon DEF Surjection
<1>4. Sorted(u) => u \in Injection(1 .. Len(u), ToSet(u))
  <2> SUFFICES ASSUME Sorted(u) PROVE u \in Injection(1 .. Len(u), ToSet(u))
    OBVIOUS
  <2>1. \A i, j \in 1 .. Len(u) : u[i] = u[j] => i = j
    <3> SUFFICES ASSUME NEW i \in 1 .. Len(u), NEW j \in 1 .. Len(u), i # j
                 PROVE  u[i] # u[j]
      OBVIOUS
    <3>1. CASE i < j
      <4>1. u[i] < u[j] BY <3>1 DEF Sorted
      <4> QED BY <1>2, <4>1
    <3>2. CASE j < i
      <4>1. u[j] < u[i] BY <3>2 DEF Sorted
      <4> QED BY <1>2, <4>1
    <3> QED BY <3>1, <3>2
  <2>2. u \in [1 .. Len(u) -> ToSet(u)] BY <1>3, Zenon DEF Surjection
  <2> QED BY <2>1, <2>2, Zenon DEF Injection, IsInjective
<1>5. /\ IsFiniteSet(ToSet(u)) /\ Cardinality(ToSet(u)) <= Cardinality(1 .. Len(u))
      /\ Cardinality(ToSet(u)) = Cardinality(1 .. Len(u))
           <=> u \in Injection(1 .. Len(u), ToSet(u))
  BY <1>1, <1>3, FS_Surjection
<1>6. Cardinality(ToSet(u)) \in Nat BY <1>5, FS_CardinalityType
<1> QED BY <1>1, <1>4, <1>5, <1>6

Above(s, e) == {x \in ToSet(s) : x # Garbage /\ x > e}

(* The last n of a sorted sequence: what is not among them is smaller than *)
(* all of them, and so is what n others of the sequence are greater than.  *)
LEMMA LastOnes ==
  ASSUME NEW S \in SUBSET Nat, NEW u \in Seq(S), Sorted(u), NEW n \in Nat \ {0}
  PROVE  LET t == LastOf(u, n)
         IN /\ t \in Seq(S) /\ Len(t) <= n /\ Len(t) <= Len(u) /\ Sorted(t)
            /\ ToSet(t) \subseteq ToSet(u)
            /\ \A e \in ToSet(u) :
                 e \in ToSet(t) \/ (Len(t) = n /\ \A x \in ToSet(t) : x > e)
            /\ \A e \in Nat : Cardinality(Above(u, e)) >= n =>
                 Len(t) = n /\ \A x \in ToSet(t) : x > e
<1> DEFINE t == LastOf(u, n)
           d == IF Len(u) > n THEN Len(u) - n ELSE 0
<1>0. Len(u) \in Nat /\ d \in Nat /\ d <= Len(u) /\ \A i \in 1 .. Len(u) : u[i] \in S
  OBVIOUS
<1>1. /\ t \in Seq(S) /\ Len(t) = Len(u) - d /\ \A i \in 1 .. Len(u) - d : t[i] = u[d + i]
  <2>1. CASE Len(u) > n
    <3>1. t = SubSeq(u, Len(u) - n + 1, Len(u)) BY <2>1 DEF LastOf
    <3>2. /\ t \in Seq(S) /\ Len(t) = n
          /\ \A i \in 1 .. n : t[i] = u[(Len(u) - n + 1) + i - 1]
      BY <2>1, <3>1, SubSeqProperties
    <3>3. \A i \in 1 .. n : (Len(u) - n + 1) + i - 1 = d + i BY <2>1
    <3>4. Len(u) - d = n BY <2>1
    <3> QED BY <3>2, <3>3, <3>4
  <2>2. CASE ~ (Len(u) > n)
    <3>1. t = u /\ d = 0 BY <2>2 DEF LastOf
    <3> HIDE DEF t, d
    <3> QED BY <3>1
  <2> QED BY <2>1, <2>2
<1>2. Len(t) <= n /\ (d # 0 => Len(t) = n) BY <1>1
<1> HIDE DEF t, d
<1>3. /\ \A x : x \in ToSet(u) <=> \E i \in 1 .. Len(u) : u[i] = x
      /\ \A x : x \in ToSet(t) <=> \E i \in 1 .. Len(t) : t[i] = x
  BY <1>1, MembersOf
<1>4. \A i \in 1 .. Len(t) : d + i \in 1 .. Len(u) /\ t[i] = u[d + i]
  BY <1>0, <1>1
<1>5. ToSet(t) \subseteq ToSet(u) BY <1>3, <1>4
<1>6. Sorted(t)
  <2> SUFFICES ASSUME NEW i \in 1 .. Len(t), NEW j \in 1 .. Len(t), i < j PROVE t[i] < t[j]
    BY DEF Sorted
  <2>1. d + i < d + j BY <1>0
  <2> QED BY <1>4, <2>1 DEF Sorted
<1>7. ASSUME NEW e \in ToSet(u), e \notin ToSet(t)
      PROVE  Len(t) = n /\ \A x \in ToSet(t) : x > e
  <2>1. PICK k \in 1 .. Len(u) : u[k] = e BY <1>3
  <2>2. k <= d
    <3> SUFFICES ASSUME k > d PROVE FALSE BY <1>0
    <3>1. k - d \in 1 .. Len(t) /\ d + (k - d) = k BY <1>0, <1>1
    <3> QED BY <1>3, <1>4, <1>7, <2>1, <3>1
  <2>3. d # 0 BY <2>2
  <2>4. ASSUME NEW x \in ToSet(t) PROVE x > e
    <3>1. PICK i \in 1 .. Len(t) : t[i] = x BY <1>3
    <3>2. k < d + i /\ d + i \in 1 .. Len(u) /\ u[d + i] = x BY <1>0, <1>4, <2>2, <3>1
    <3>3. u[k] < u[d + i] BY <3>2 DEF Sorted
    <3>4. u[k] \in Nat /\ u[d + i] \in Nat BY <1>0, <3>2
    <3> QED BY <2>1, <3>2, <3>3, <3>4
  <2> QED BY <1>2, <2>3, <2>4
<1>8. ASSUME NEW e \in Nat, Cardinality(Above(u, e)) >= n
      PROVE  Len(t) = n /\ \A x \in ToSet(t) : x > e
  <2>0. Above(u, e) \subseteq ToSet(u) BY DEF Above
  <2>1. /\ IsFiniteSet(ToSet(u)) /\ Cardinality(ToSet(u)) <= Len(u)
        /\ Cardinality(ToSet(u)) \in Nat
    BY CountAll
  <2>2. Cardinality(Above(u, e)) <= Cardinality(ToSet(u)) /\ Cardinality(Above(u, e)) \in Nat
    BY <2>0, <2>1, FS_Subset, FS_CardinalityType
  <2>3. Len(u) >= n BY <1>0, <1>8, <2>1, <2>2
  <2>4. d = Len(u) - n /\ Len(t) = n BY <1>0, <1>1, <2>3 DEF d
  <2>5. ASSUME NEW x \in ToSet(t), ~ (x > e) PROVE FALSE
    <3>1. PICK i \in 1 .. Len(t) : t[i] = x BY <1>3
    <3> DEFINE k == d + i
               B == {u[j] : j \in k + 1 .. Len(u)}
    <3>2. k \in 1 .. Len(u) /\ u[k] = x /\ x \in Nat BY <1>0, <1>4, <3>1
    <3>3. Above(u, e) \subseteq B
      <4> SUFFICES ASSUME NEW y \in Above(u, e) PROVE y \in B
        OBVIOUS
      <4>1. PICK j \in 1 .. Len(u) : u[j] = y BY <1>3 DEF Above
      <4>2. y > e /\ y \in Nat BY <1>0, <4>1 DEF Above
      <4>3. j # k BY <2>5, <3>2, <4>1, <4>2
      <4>4. ~ (j < k)
        <5> SUFFICES ASSUME j < k PROVE FALSE OBVIOUS
        <5>1. u[j] < u[k] BY <3>2 DEF Sorted
        <5> QED BY <2>5, <3>2, <4>1, <4>2, <5>1
      <4>5. j \in k + 1 .. Len(u) BY <1>0, <3>2, <4>3, <4>4
      <4> QED BY <4>1, <4>5
    <3>4. k + 1 \in 1 .. Len(u) + 1 BY <1>0, <3>2
    <3> HIDE DEF k
    <3>5. IsFiniteSet(B) /\ Cardinality(B) \in Nat /\ Cardinality(B) <= Len(u) + 1 - (k + 1)
      BY <3>4, CountFrom
    <3> HIDE DEF B
    <3>6. Cardinality(Above(u, e)) <= Cardinality(B) BY <3>3, <3>5, FS_Subset
    <3>7. k >= Len(u) - n + 1 BY <1>0, <2>4, <3>1 DEF k
    <3> QED BY <1>0, <1>8, <2>2, <3>2, <3>5, <3>6, <3>7
  <2> QED BY <2>4, <2>5
<1> QED BY <1>0, <1>1, <1>2, <1>5, <1>6, <1>7, <1>8 DEF t

Line(n) == 1 .. n \cup {Garbage}

LEMMA FiniteMembers ==
  ASSUME NEW X, NEW s \in Seq(X)
  PROVE  IsFiniteSet(ToSet(s)) /\ \A e : IsFiniteSet(Above(s, e))
<1>1. 1 \in 1 .. Len(s) + 1 OBVIOUS
<1>2. IsFiniteSet({s[i] : i \in 1 .. Len(s)}) BY <1>1, CountFrom
<1>3. ToSet(s) = {s[i] : i \in 1 .. Len(s)} BY MembersOf
<1>4. \A e : Above(s, e) \subseteq ToSet(s) BY DEF Above
<1> QED BY <1>2, <1>3, <1>4, FS_Subset

(* A content of the file after n events, and its lines that stay lines     *)
(* whatever is appended next.                                              *)
Sound(c, n) ==
  /\ c \in [lines : Seq(Line(n)), open : BOOLEAN]
  /\ Len(c.lines) <= n /\ InOrder(c.lines)
  /\ c.open => Len(c.lines) > 0

Solid(c) == IF c.open THEN Front(c.lines) ELSE c.lines

(* The events in W that are younger than o are in c, or would not be shown *)
(* for all the newer ones that are.                                        *)
Keeps(c, W, o) ==
  \A e \in W : e > o =>
    e \in ToSet(Solid(c)) \/ Cardinality(Above(Solid(c), e)) >= MaxLines

LEMMA SoundIsContent ==
  ASSUME NEW n \in 0 .. MaxEvents, NEW c, Sound(c, n)
  PROVE  c \in Content
<1> DEFINE s == c.lines
<1>1. c = [lines |-> s, open |-> c.open] /\ c.open \in BOOLEAN BY DEF Sound
<1>2. s \in Seq(Line(n)) /\ Len(s) <= n /\ MaxEvents \in Nat BY LogAssumption DEF Sound
<1>3. s \in [1 .. Len(s) -> 1 .. MaxEvents \cup {Garbage}]
  <2>1. Line(n) \subseteq 1 .. MaxEvents \cup {Garbage} BY <1>2 DEF Line
  <2>2. s = [i \in 1 .. Len(s) |-> s[i]] /\ \A i \in 1 .. Len(s) : s[i] \in Line(n)
    BY <1>2
  <2> QED BY <2>1, <2>2
<1>4. Len(s) \in 0 .. MaxEvents BY <1>2
<1>5. s \in BoundedSeq(1 .. MaxEvents \cup {Garbage}, MaxEvents)
  BY <1>3, <1>4 DEF BoundedSeq, SeqOf
<1> QED BY <1>1, <1>5 DEF Content

LEMMA SoundLater ==
  ASSUME NEW n \in Nat, NEW m \in Nat, n <= m, NEW c, Sound(c, n)
  PROVE  Sound(c, m)
<1>1. Line(n) \subseteq Line(m) BY DEF Line
<1>2. c.lines \in Seq(Line(m)) BY <1>1 DEF Sound
<1> QED BY <1>2 DEF Sound

LEMMA SolidLines ==
  ASSUME NEW n \in Nat, NEW c, Sound(c, n)
  PROVE  /\ Solid(c) \in Seq(Line(n)) /\ Len(Solid(c)) <= Len(c.lines)
         /\ c.open => Len(Solid(c)) < Len(c.lines)
         /\ \A i \in 1 .. Len(Solid(c)) : Solid(c)[i] = c.lines[i]
         /\ ToSet(Solid(c)) \subseteq ToSet(c.lines)
<1> DEFINE s == c.lines
<1>0. s \in Seq(Line(n)) /\ (c.open => Len(s) > 0) BY DEF Sound
<1>1. CASE ~ c.open BY <1>0, <1>1 DEF Solid
<1>2. CASE c.open
  <2>1. Solid(c) = SubSeq(s, 1, Len(s) - 1) BY <1>2 DEF Solid, Front
  <2>2. /\ Solid(c) \in Seq(Line(n)) /\ Len(Solid(c)) = Len(s) - 1
        /\ \A i \in 1 .. Len(s) - 1 : Solid(c)[i] = s[i]
    BY <1>0, <1>2, <2>1, SubSeqProperties
  <2>3. \A i \in 1 .. Len(s) - 1 : i \in 1 .. Len(s) BY <1>0
  <2>4. ToSet(Solid(c)) \subseteq ToSet(s) BY <1>0, <2>2, <2>3, MembersOf
  <2> QED BY <1>0, <1>2, <2>2, <2>4
<1> QED BY <1>1, <1>2

(* What is kept stays kept when lines are added.                           *)
LEMMA KeepsMore ==
  ASSUME NEW n \in Nat, NEW c, NEW d, Sound(c, n), Sound(d, n),
         ToSet(Solid(c)) \subseteq ToSet(Solid(d)), NEW W, NEW o, Keeps(c, W, o)
  PROVE  Keeps(d, W, o)
<1> SUFFICES ASSUME NEW e \in W, e > o, e \notin ToSet(Solid(d))
             PROVE  Cardinality(Above(Solid(d), e)) >= MaxLines
  BY DEF Keeps
<1>1. Cardinality(Above(Solid(c), e)) >= MaxLines BY DEF Keeps
<1>2. IsFiniteSet(Above(Solid(d), e)) BY SolidLines, FiniteMembers
<1>3. Above(Solid(c), e) \subseteq Above(Solid(d), e) BY DEF Above
<1>4. /\ Cardinality(Above(Solid(c), e)) <= Cardinality(Above(Solid(d), e))
      /\ Cardinality(Above(Solid(c), e)) \in Nat /\ Cardinality(Above(Solid(d), e)) \in Nat
  BY <1>2, <1>3, FS_Subset, FS_CardinalityType
<1> QED BY <1>1, <1>4, LogAssumption

(* A line is added to those that are complete, however much of it.         *)
LEMMA WithSound ==
  ASSUME NEW n \in Nat, NEW c, Sound(c, n), NEW cut \in Cuts
  PROVE  LET d == With(c, n + 1, cut)
         IN /\ Sound(d, n + 1) /\ ToSet(Solid(c)) \subseteq ToSet(Solid(d))
            /\ cut = "whole" /\ ~ c.open => n + 1 \in ToSet(Solid(d))
<1> DEFINE d == With(c, n + 1, cut)
           x == IF c.open \/ cut = "part" THEN Garbage ELSE n + 1
           s == Solid(c)
<1>0. /\ s \in Seq(Line(n)) /\ Len(s) \in Nat /\ Len(s) <= n
      /\ \A i \in 1 .. Len(s) : s[i] = c.lines[i] /\ i \in 1 .. Len(c.lines) /\ s[i] \in Line(n)
      /\ Line(n) \subseteq Line(n + 1) /\ x \in Line(n + 1)
  <2>1. /\ s \in Seq(Line(n)) /\ Len(s) <= Len(c.lines)
        /\ \A i \in 1 .. Len(s) : s[i] = c.lines[i]
    BY SolidLines
  <2>2. Len(c.lines) <= n /\ c.lines \in Seq(Line(n)) BY DEF Sound
  <2> QED BY <2>1, <2>2 DEF Line
<1>1. CASE cut = "none"
  <2>1. d = c BY <1>1 DEF With
  <2>2. Sound(c, n + 1) BY SoundLater
  <2> QED BY <1>1, <2>1, <2>2
<1>2. CASE cut # "none"
  <2>1. d = [lines |-> Append(s, x), open |-> cut # "whole"]
    <3>1. CASE c.open BY <1>2, <3>1 DEF With, Solid
    <3>2. CASE ~ c.open BY <1>2, <3>2 DEF With, Solid
    <3> QED BY <3>1, <3>2
  <2> DEFINE t == Append(s, x)
  <2>a. d = [lines |-> t, open |-> cut # "whole"] BY <2>1
  <2> HIDE DEF d, s, x, t
  <2>b. d.lines = t /\ d.open = (cut # "whole") /\ d.open \in BOOLEAN BY <2>a
  <2>c. t = Append(s, x) BY DEF t
  <2>2. /\ t \in Seq(Line(n + 1)) /\ Len(t) = Len(s) + 1 /\ t[Len(s) + 1] = x
        /\ \A i \in 1 .. Len(s) : t[i] = s[i]
    <3>1. s \in Seq(Line(n + 1)) BY <1>0
    <3> QED BY <1>0, <2>c, <3>1
  <2>3. InOrder(t)
    <3> SUFFICES ASSUME NEW i \in 1 .. Len(t), NEW j \in 1 .. Len(t), i < j,
                        t[i] # Garbage, t[j] # Garbage
                 PROVE  t[i] < t[j]
      BY DEF InOrder
    <3>1. i \in 1 .. Len(s) BY <1>0, <2>2
    <3>2. t[i] = c.lines[i] /\ t[i] \in 1 .. n /\ i \in 1 .. Len(c.lines)
      BY <1>0, <2>2, <3>1 DEF Line
    <3>3. CASE j = Len(s) + 1
      <4>1. t[j] = n + 1 BY <2>2, <3>3 DEF x
      <4> QED BY <3>2, <4>1
    <3>4. CASE j # Len(s) + 1
      <4>1. j \in 1 .. Len(s) BY <1>0, <2>2, <3>4
      <4>2. t[j] = c.lines[j] /\ j \in 1 .. Len(c.lines) BY <1>0, <2>2, <4>1
      <4>3. InOrder(c.lines) BY DEF Sound
      <4> QED BY <3>2, <4>2, <4>3 DEF InOrder
    <3> QED BY <3>3, <3>4
  <2>4. Sound(d, n + 1)
    <3>1. Len(t) <= n + 1 /\ Len(t) > 0 BY <1>0, <2>2
    <3>2. d \in [lines : Seq(Line(n + 1)), open : BOOLEAN] BY <2>a, <2>2
    <3> QED BY <2>2, <2>3, <2>b, <3>1, <3>2 DEF Sound
  <2>5. \A i \in 1 .. Len(s) : i \in 1 .. Len(t) BY <1>0, <2>2
  <2>6. CASE cut = "whole"
    <3>1. Solid(d) = t BY <2>6, <2>b DEF Solid
    <3>2. ToSet(s) \subseteq ToSet(t) BY <1>0, <2>2, <2>5, MembersOf
    <3>3. Len(s) + 1 \in 1 .. Len(t) BY <1>0, <2>2
    <3>4. x \in ToSet(t) BY <2>2, <3>3, MembersOf
    <3>5. ~ c.open => x = n + 1 BY <2>6 DEF x
    <3> QED BY <2>4, <3>1, <3>2, <3>4, <3>5 DEF s, d
  <2>7. CASE cut # "whole"
    <3>1. Solid(d) = SubSeq(t, 1, Len(t) - 1) BY <2>7, <2>b DEF Solid, Front
    <3>2. /\ Solid(d) \in Seq(Line(n + 1)) /\ Len(Solid(d)) = Len(s)
          /\ \A i \in 1 .. Len(s) : Solid(d)[i] = t[i]
      BY <1>0, <2>2, <3>1, SubSeqProperties
    <3>3. ToSet(s) \subseteq ToSet(Solid(d)) BY <1>0, <2>2, <3>2, MembersOf
    <3> QED BY <2>4, <2>7, <3>3 DEF s, d
  <2> QED BY <2>6, <2>7
<1> QED BY <1>1, <1>2

(* The last m of the events in c that are younger than o have all of W     *)
(* among them, or are newer than what is missing.                          *)
LEMMA LastAreNewest ==
  ASSUME NEW n \in Nat, NEW c, Sound(c, n), NEW W \in SUBSET (1 .. n), NEW o \in Nat,
         NEW p \in Nat, p <= o, Keeps(c, W, o), NEW m \in 1 .. MaxLines
  PROVE  LET k == LastOf(Only(c.lines, (p + 1) .. n), m)
         IN /\ k \in Seq((p + 1) .. n) /\ Len(k) <= m /\ Len(k) <= n /\ Sorted(k)
            /\ \A e \in W : e > o =>
                 e \in ToSet(k) \/ (Len(k) = m /\ \A x \in ToSet(k) : x > e)
<1> DEFINE S == (p + 1) .. n
           u == Only(c.lines, S)
           k == LastOf(u, m)
<1>1. /\ c.lines \in Seq(Line(n)) /\ Len(c.lines) <= n /\ InOrder(c.lines)
      /\ S \in SUBSET Nat /\ m \in Nat \ {0} /\ MaxLines \in Nat
  BY LogAssumption DEF Sound
<1>2. /\ u \in Seq(S) /\ Len(u) <= Len(c.lines) /\ Sorted(u)
      /\ ToSet(u) = ToSet(c.lines) \cap S
  BY <1>1, OnlySorts
<1> HIDE DEF u
<1>3. /\ k \in Seq(S) /\ Len(k) <= m /\ Len(k) <= Len(u) /\ Sorted(k)
      /\ \A e \in ToSet(u) :
           e \in ToSet(k) \/ (Len(k) = m /\ \A x \in ToSet(k) : x > e)
      /\ \A e \in Nat : Cardinality(Above(u, e)) >= m =>
           Len(k) = m /\ \A x \in ToSet(k) : x > e
  BY <1>1, <1>2, LastOnes
<1> HIDE DEF k
<1>4. Len(k) <= n /\ Len(k) \in Nat BY <1>1, <1>2, <1>3
<1>5. ASSUME NEW e \in W, e > o
      PROVE  e \in ToSet(k) \/ (Len(k) = m /\ \A x \in ToSet(k) : x > e)
  <2>1. e \in Nat /\ e \in S BY <1>5
  <2>2. CASE e \in ToSet(Solid(c))
    <3>1. e \in ToSet(u) BY <1>2, <2>1, <2>2, SolidLines
    <3> QED BY <1>3, <3>1
  <2>3. CASE e \notin ToSet(Solid(c))
    <3>1. Cardinality(Above(Solid(c), e)) >= MaxLines BY <1>5, <2>3 DEF Keeps
    <3>2. Above(Solid(c), e) \subseteq Above(u, e)
      <4> SUFFICES ASSUME NEW x \in Above(Solid(c), e) PROVE x \in Above(u, e)
        OBVIOUS
      <4>1. x \in ToSet(c.lines) /\ x # Garbage /\ x > e BY SolidLines DEF Above
      <4>2. x \in Line(n) BY <1>1, <4>1, MembersOf
      <4>3. x \in S BY <1>5, <2>1, <4>1, <4>2 DEF Line
      <4> QED BY <1>2, <4>1, <4>3 DEF Above
    <3>3. IsFiniteSet(Above(u, e)) BY <1>2, FiniteMembers
    <3>4. /\ Cardinality(Above(Solid(c), e)) <= Cardinality(Above(u, e))
          /\ Cardinality(Above(Solid(c), e)) \in Nat /\ Cardinality(Above(u, e)) \in Nat
      BY <3>2, <3>3, FS_Subset, FS_CardinalityType
    <3>5. Cardinality(Above(u, e)) >= m BY <1>1, <3>1, <3>4
    <3> QED BY <1>3, <2>1, <3>5
  <2> QED BY <2>2, <2>3
<1> QED BY <1>3, <1>4, <1>5 DEF k, u

LEMMA PruneSound ==
  ASSUME NEW n \in Nat, NEW c, Sound(c, n), NEW W \in SUBSET (1 .. n), NEW o \in Nat,
         Keeps(c, W, o)
  PROVE  LET k == LastOf(Only(c.lines, (o + 1) .. n), MaxLines)
             d == [lines |-> k, open |-> FALSE]
         IN Sound(d, n) /\ Keeps(d, W, o)
<1> DEFINE k == LastOf(Only(c.lines, (o + 1) .. n), MaxLines)
           d == [lines |-> k, open |-> FALSE]
<1>0. MaxLines \in 1 .. MaxLines /\ o <= o BY LogAssumption
<1>1. /\ k \in Seq((o + 1) .. n) /\ Len(k) <= MaxLines /\ Len(k) <= n /\ Sorted(k)
      /\ \A e \in W : e > o =>
           e \in ToSet(k) \/ (Len(k) = MaxLines /\ \A x \in ToSet(k) : x > e)
  BY <1>0, LastAreNewest
<1> HIDE DEF k
<1>2. (o + 1) .. n \subseteq Nat /\ (o + 1) .. n \subseteq Line(n) /\ MaxLines \in Nat
  BY LogAssumption DEF Line
<1>3. d.lines = k /\ d.open = FALSE /\ Solid(d) = k BY DEF Solid
<1>4. d \in [lines : Seq(Line(n)), open : BOOLEAN]
  <2>1. k \in Seq(Line(n)) BY <1>1, <1>2
  <2> QED BY <2>1
<1> HIDE DEF d
<1>5. InOrder(k) BY <1>1 DEF InOrder, Sorted
<1>6. Sound(d, n) BY <1>1, <1>3, <1>4, <1>5 DEF Sound
<1>7. Keeps(d, W, o)
  <2> SUFFICES ASSUME NEW e \in W, e > o, Len(k) = MaxLines, \A x \in ToSet(k) : x > e
               PROVE  Cardinality(Above(k, e)) >= MaxLines
    BY <1>1, <1>3 DEF Keeps
  <2>1. \A x \in ToSet(k) : x # Garbage
    <3>1. \A x \in ToSet(k) : x \in (o + 1) .. n BY <1>1, MembersOf
    <3> QED BY <1>2, <3>1, LogAssumption
  <2>2. Above(k, e) = ToSet(k) BY <2>1 DEF Above
  <2>3. Cardinality(ToSet(k)) = Len(k) BY <1>1, <1>2, CountAll
  <2> QED BY <1>2, <2>2, <2>3
<1> QED BY <1>6, <1>7 DEF d, k

(* What is shown, whatever has been appended and pruned.                   *)
LEMMA RecentShows ==
  ASSUME logged \in Nat, old \in 0 .. logged, Sound(path.data, logged),
         written \in SUBSET (1 .. logged), Keeps(path.data, written, old)
  PROVE  RecentIsComplete
<1> DEFINE n == logged
           k == LastOf(Only(path.data.lines, 1 .. n), ListLimit)
<1>0. /\ ListLimit \in 1 .. MaxLines /\ 0 \in Nat /\ old \in Nat /\ 0 <= old /\ 0 + 1 = 1
  BY LogAssumption
<1>1. /\ k \in Seq(1 .. n) /\ Len(k) <= ListLimit /\ Sorted(k)
      /\ \A e \in written : e > old =>
           e \in ToSet(k) \/ (Len(k) = ListLimit /\ \A x \in ToSet(k) : x > e)
  <2> DEFINE q == LastOf(Only(path.data.lines, (0 + 1) .. n), ListLimit)
  <2>1. /\ q \in Seq((0 + 1) .. n) /\ Len(q) <= ListLimit /\ Sorted(q)
        /\ \A e \in written : e > old =>
             e \in ToSet(q) \/ (Len(q) = ListLimit /\ \A x \in ToSet(q) : x > e)
    BY <1>0, LastAreNewest
  <2>2. (0 + 1) .. n = 1 .. n OBVIOUS
  <2>3. q = k BY <2>2
  <2> HIDE DEF q, k
  <2> QED BY <2>1, <2>2, <2>3
<1>2. Recent = Reverse(k) BY DEF Recent
<1> HIDE DEF k
<1> DEFINE r == Reverse(k)
<1>3. r = [i \in 1 .. Len(k) |-> k[(Len(k) - i) + 1]] BY DEF Reverse
<1>4. /\ Len(k) \in Nat /\ DOMAIN r = 1 .. Len(k) /\ Len(r) = Len(k) /\ r \in Seq(1 .. n)
      /\ \A i \in 1 .. Len(k) : (Len(k) - i) + 1 \in 1 .. Len(k)
      /\ \A i \in 1 .. Len(k) : r[i] = k[(Len(k) - i) + 1]
  <2>1. Len(k) \in Nat /\ \A i \in 1 .. Len(k) : (Len(k) - i) + 1 \in 1 .. Len(k)
    BY <1>1
  <2>2. r \in Seq(1 .. n)
    <3>1. \A i \in 1 .. Len(k) : k[(Len(k) - i) + 1] \in 1 .. n BY <1>1, <2>1
    <3> QED BY <1>3, <2>1, <3>1
  <2> HIDE DEF r
  <2>3. DOMAIN r = 1 .. Len(k) BY <1>3
  <2>4. Len(r) = Len(k) BY <2>1, <2>2, <2>3
  <2> QED BY <1>3, <2>1, <2>2, <2>3, <2>4
<1> HIDE DEF r
<1>5. ToSet(r) = ToSet(k)
  <2>1. ASSUME NEW i \in 1 .. Len(k) PROVE \E j \in 1 .. Len(k) : r[j] = k[i]
    <3>1. (Len(k) - i) + 1 \in 1 .. Len(k) /\ (Len(k) - ((Len(k) - i) + 1)) + 1 = i
      BY <1>4
    <3> QED BY <1>4, <3>1
  <2>2. \A i \in 1 .. Len(k) : \E j \in 1 .. Len(k) : r[i] = k[j] BY <1>4
  <2>3. /\ \A x : x \in ToSet(k) <=> \E i \in 1 .. Len(k) : k[i] = x
        /\ \A x : x \in ToSet(r) <=> \E i \in 1 .. Len(k) : r[i] = x
    BY <1>1, <1>4, MembersOf
  <2> QED BY <2>1, <2>2, <2>3
<1>6. ASSUME NEW i \in DOMAIN r, NEW j \in DOMAIN r, i < j PROVE r[i] > r[j]
  <2> DEFINE a == (Len(k) - i) + 1
             b == (Len(k) - j) + 1
  <2>0. i \in 1 .. Len(k) /\ j \in 1 .. Len(k) BY <1>4
  <2>a. Len(k) \in Nat BY <1>4
  <2>1. a \in 1 .. Len(k) /\ b \in 1 .. Len(k) /\ b < a BY <1>6, <2>0, <2>a
  <2>2. r[i] = k[a] /\ r[j] = k[b] BY <1>4, <2>0
  <2> HIDE DEF a, b
  <2>3. k[b] < k[a] BY <1>1, <2>1 DEF Sorted
  <2>4. k[b] \in Nat /\ k[a] \in Nat BY <1>1, <2>1
  <2> QED BY <2>2, <2>3, <2>4
<1> QED BY <1>1, <1>2, <1>4, <1>5, <1>6 DEF r, RecentIsComplete
-----------------------------------------------------------------------------
(* What the file may hold after n events of which those up to o are old:   *)
(* nothing that matters of W is missing.                                   *)
Lasting(n, W, o) == {c \in Content : Sound(c, n) /\ Keeps(c, W, o)}

LogControl ==
  /\ holder \in Loggers \cup {None} /\ phase \in {"free", "prune", "replace"}
  /\ (holder = None) = (phase = "free")
  /\ step \in {"idle", "open", "write", "sync", "rename", "folder", "done", "failed"}
  /\ step # "idle" => phase = "replace"
  /\ logged \in 0 .. MaxEvents /\ old \in 0 .. logged
  /\ synced \subseteq written /\ written \subseteq 1 .. logged

(* What is on the disk, and may be there again after a power failure, has  *)
(* what was synced; what is read has everything that was written.          *)
LogKept ==
  /\ {path} \cup was \subseteq [data : Lasting(logged, synced, old),
                                safe : Lasting(logged, synced, old)]
  /\ path.data \in Lasting(logged, written, old)
  /\ step = "folder" => path.safe = path.data

LogTmp ==
  /\ tmp \in [data : Content \cup {Truncated}, safe : Content \cup {Truncated}] \cup {None}
  /\ step \in {"open", "write", "sync", "rename"} => want \in Lasting(logged, written, old)
  /\ step = "write" => tmp = Created
  /\ step = "sync" => tmp = [data |-> want, safe |-> Truncated]
  /\ step = "rename" => tmp = Stored(want)

LogInv == LogControl /\ LogKept /\ LogTmp

LEMMA LastingLater ==
  ASSUME NEW n \in Nat, NEW m \in Nat, n <= m, NEW W \in SUBSET (1 .. n),
         NEW V \in SUBSET W, NEW o \in Nat, NEW p \in Nat, o <= p
  PROVE  Lasting(n, W, o) \subseteq Lasting(m, V, p)
<1> SUFFICES ASSUME NEW c \in Lasting(n, W, o) PROVE c \in Lasting(m, V, p)
  OBVIOUS
<1>1. Sound(c, m) BY SoundLater DEF Lasting
<1>2. Keeps(c, V, p)
  <2> SUFFICES ASSUME NEW e \in V, e > p PROVE e \in W /\ e > o
    BY DEF Lasting, Keeps
  <2> QED OBVIOUS
<1> QED BY <1>1, <1>2 DEF Lasting

LEMMA LogNumbers ==
  ASSUME LogControl
  PROVE  /\ logged \in Nat /\ old \in Nat /\ logged <= MaxEvents /\ old <= logged
         /\ MaxEvents \in Nat
         /\ written \in SUBSET (1 .. logged) /\ synced \in SUBSET (1 .. logged)
         /\ synced \in SUBSET written
BY LogAssumption DEF LogControl

LEMMA AppendLineStep ==
  ASSUME LogInv, NEW c \in Callers, NEW cut \in Cuts, AppendLine(c, cut)
  PROVE  LogInv'
<1> USE DEF LogInv
<1>0. /\ logged \in Nat /\ old \in Nat /\ logged < MaxEvents /\ old <= logged
      /\ MaxEvents \in Nat /\ logged' = logged + 1
      /\ written \in SUBSET (1 .. logged) /\ synced \in SUBSET written
  BY LogNumbers DEF AppendLine
<1>1. c # None /\ c \in Loggers BY CallersLog, LogAssumption
<1>2. step = "idle" BY DEF LogControl, AppendLine
<1>3. LogControl'
  <2>1. written' \subseteq 1 .. logged' /\ written \subseteq written'
    BY <1>0 DEF AppendLine
  <2>2. logged' \in 0 .. MaxEvents /\ old' \in 0 .. logged' BY <1>0 DEF AppendLine
  <2>3. step' = "idle" /\ phase' = "prune" /\ holder' = c BY <1>2 DEF AppendLine
  <2> QED BY <1>0, <1>1, <2>1, <2>2, <2>3 DEF LogControl, AppendLine
<1>4. LogTmp' BY <1>2 DEF LogTmp, AppendLine
<1>5. LogKept'
  <2> DEFINE d == With(path.data, logged + 1, cut)
  <2>1. /\ path.data \in Content /\ Sound(path.data, logged)
        /\ Keeps(path.data, written, old) /\ Keeps(path.data, synced, old)
        /\ path.data \in Lasting(logged, synced, old)
        /\ path.safe \in Lasting(logged, synced, old)
        /\ path \in [data : Lasting(logged, synced, old), safe : Lasting(logged, synced, old)]
    BY DEF LogKept, Lasting
  <2>2. /\ Sound(d, logged + 1) /\ ToSet(Solid(path.data)) \subseteq ToSet(Solid(d))
        /\ cut = "whole" /\ ~ path.data.open => logged + 1 \in ToSet(Solid(d))
    BY <1>0, <2>1, WithSound
  <2> HIDE DEF d
  <2>3. d \in Content
    <3>1. logged + 1 \in 0 .. MaxEvents BY <1>0
    <3> QED BY <2>2, <3>1, SoundIsContent
  <2>4. Sound(path.data, logged + 1) /\ logged + 1 \in Nat BY <1>0, <2>1, SoundLater
  <2>5. Keeps(d, written, old) /\ Keeps(d, synced, old)
    BY <2>1, <2>2, <2>4, KeepsMore
  <2>6. Keeps(d, written', old)
    <3>1. \A e \in written' : e \in written \/ e \in ToSet(Solid(d))
      BY <2>2 DEF AppendLine
    <3> QED BY <2>5, <3>1 DEF Keeps
  <2>7. /\ d \in Lasting(logged', written', old')
        /\ d \in Lasting(logged', synced', old')
    BY <1>0, <2>2, <2>3, <2>5, <2>6 DEF Lasting, AppendLine
  <2>8. Lasting(logged, synced, old) \subseteq Lasting(logged', synced', old')
    <3>1. synced' = synced /\ old' = old /\ logged <= logged + 1 /\ logged + 1 \in Nat
          /\ old <= old /\ synced \in SUBSET (1 .. logged) /\ synced \in SUBSET synced
      BY <1>0 DEF AppendLine
    <3> QED BY <1>0, <3>1, LastingLater
  <2>9. path' = [path EXCEPT !.data = d] BY DEF AppendLine, d
  <2>10. path'.data = d /\ path'.safe = path.safe
         /\ path' = [data |-> d, safe |-> path.safe]
    BY <2>1, <2>9
  <2>11. path' \in [data : Lasting(logged', synced', old'), safe : Lasting(logged', synced', old')]
    BY <2>1, <2>7, <2>8, <2>10
  <2>12. was' \subseteq [data : Lasting(logged', synced', old'), safe : Lasting(logged', synced', old')]
    <3>1. was \subseteq [data : Lasting(logged, synced, old), safe : Lasting(logged, synced, old)]
      BY DEF LogKept
    <3>2. was' = was BY DEF AppendLine
    <3> QED BY <2>8, <3>1, <3>2
  <2>13. step' # "folder" BY <1>2 DEF AppendLine
  <2> QED BY <2>7, <2>10, <2>11, <2>12, <2>13 DEF LogKept
<1> QED BY <1>3, <1>4, <1>5

(* Nothing but the numbers changes: an event is missing from the log, or   *)
(* gets too old to matter.                                                 *)
LEMMA NumbersStep ==
  ASSUME LogInv, AppendFails \/ Age
  PROVE  LogInv'
<1> USE DEF LogInv
<1>0. /\ logged \in Nat /\ old \in Nat /\ logged <= MaxEvents /\ old <= logged
      /\ MaxEvents \in Nat
      /\ written \in SUBSET (1 .. logged) /\ synced \in SUBSET written
      /\ synced \in SUBSET (1 .. logged)
  BY LogNumbers
<1>1. /\ logged' \in Nat /\ logged <= logged' /\ logged' <= MaxEvents
      /\ old' \in Nat /\ old <= old' /\ old' <= logged'
      /\ UNCHANGED <<path, was, tmp, step, want, holder, phase, written, synced>>
  BY <1>0 DEF AppendFails, Age, fileVars
<1>2. LogControl'
  <2>1. logged' \in 0 .. MaxEvents /\ old' \in 0 .. logged' /\ written' \subseteq 1 .. logged'
    BY <1>0, <1>1
  <2> QED BY <1>1, <2>1 DEF LogControl
<1>3. Lasting(logged, synced, old) \subseteq Lasting(logged', synced', old')
  BY <1>0, <1>1, LastingLater
<1>4. Lasting(logged, written, old) \subseteq Lasting(logged', written', old')
  BY <1>0, <1>1, LastingLater
<1>5. LogKept' BY <1>1, <1>3, <1>4 DEF LogKept
<1>6. LogTmp' BY <1>1, <1>4 DEF LogTmp
<1> QED BY <1>2, <1>5, <1>6

LEMMA ReleaseStep ==
  ASSUME LogInv, PruneNothing \/ PruneFails \/ EndReplace \/ LogCrash
  PROVE  LogInv'
<1>1. /\ holder' = None /\ phase' = "free" /\ step' = "idle"
      /\ UNCHANGED <<path, was, tmp, logged, old, written, synced>>
  BY DEF PruneNothing, PruneFails, EndReplace, LogCrash, Release, EndWrite, Crash,
         fileVars, LogInv, LogControl
<1> QED BY <1>1 DEF LogInv, LogControl, LogKept, LogTmp

LEMMA PruneStep ==
  ASSUME LogInv, Prune
  PROVE  LogInv'
<1> USE DEF LogInv
<1>0. /\ logged \in Nat /\ old \in Nat /\ written \in SUBSET (1 .. logged)
      /\ logged \in 0 .. MaxEvents
  BY LogNumbers DEF LogControl
<1> DEFINE d == [lines |-> Kept, open |-> FALSE]
<1>1. Sound(path.data, logged) /\ Keeps(path.data, written, old) BY DEF LogKept, Lasting
<1>2. Sound(d, logged) /\ Keeps(d, written, old)
  BY <1>0, <1>1, PruneSound DEF Kept, Fresh
<1> HIDE DEF d
<1>3. d \in Lasting(logged, written, old) BY <1>0, <1>2, SoundIsContent DEF Lasting
<1>4. want' = d /\ step' = "open" /\ phase' = "replace"
      /\ UNCHANGED <<path, was, tmp, holder, logged, old, written, synced>>
  BY DEF Prune, BeginWrite, d
<1>5. phase = "prune" BY DEF Prune
<1>6. LogControl' BY <1>4, <1>5 DEF LogControl
<1>7. LogKept' BY <1>4 DEF LogKept
<1>8. LogTmp' BY <1>3, <1>4 DEF LogTmp
<1> QED BY <1>6, <1>7, <1>8

LEMMA ReplaceStep ==
  ASSUME LogInv, Replace
  PROVE  LogInv'
<1> USE DEF LogInv
<1>0. /\ logged \in Nat /\ old \in Nat /\ old <= old /\ logged <= logged
      /\ written \in SUBSET (1 .. logged) /\ synced \in SUBSET (1 .. logged)
      /\ synced \in SUBSET written
  BY LogNumbers
<1> DEFINE All == Lasting(logged, written, old)
           Some == Lasting(logged, synced, old)
<1>1. All \subseteq Some /\ All \subseteq Content
  <2>1. All \subseteq Some BY <1>0, LastingLater
  <2>2. All \subseteq Content BY DEF Lasting
  <2> QED BY <2>1, <2>2
<1>2. /\ phase = "replace" /\ UNCHANGED <<holder, phase, logged, old, written>>
  BY DEF Replace
<1>3. /\ {path} \cup was \subseteq [data : Some, safe : Some]
      /\ path.data \in All /\ (step = "folder" => path.safe = path.data)
  BY DEF LogKept
<1> HIDE DEF All, Some
<1>4. ASSUME step' \in {"open", "write", "sync", "rename", "folder", "done", "failed"},
             UNCHANGED synced
      PROVE  LogControl'
  BY <1>2, <1>4 DEF LogControl
<1>5. ASSUME UNCHANGED <<path, was, synced>>, step' # "folder"
      PROVE  LogKept'
  BY <1>2, <1>3, <1>5 DEF LogKept, All, Some
<1>6. CASE OpenTmp
  <2>1. /\ step = "open" /\ step' = "write" /\ tmp' = Created
        /\ UNCHANGED <<path, was, want, synced>>
    BY <1>6 DEF OpenTmp, Replace
  <2>2. LogTmp' BY <1>2, <2>1 DEF LogTmp, Created, Stored
  <2> QED BY <1>4, <1>5, <2>1, <2>2
<1>7. CASE OpenFails \/ WriteFails
  <2>1. /\ step' = "failed" /\ tmp' \in {tmp, None} /\ UNCHANGED <<path, was, want, synced>>
    BY <1>7 DEF OpenFails, WriteFails, Replace
  <2>2. LogTmp' BY <1>2, <2>1 DEF LogTmp
  <2> QED BY <1>4, <1>5, <2>1, <2>2
<1>8. CASE WriteTmp
  <2>1. /\ step = "write" /\ step' = "sync" /\ tmp' = [tmp EXCEPT !.data = want]
        /\ UNCHANGED <<path, was, want, synced>>
    BY <1>8 DEF WriteTmp, Replace
  <2>2. tmp' = [data |-> want, safe |-> Truncated]
    BY <2>1 DEF LogTmp, Created, Stored
  <2>3. want \in All BY <2>1 DEF LogTmp, All
  <2>a. tmp' \in [data : Content \cup {Truncated}, safe : Content \cup {Truncated}]
    BY <1>1, <2>2, <2>3
  <2>b. want' = want /\ want' \in Lasting(logged', written', old')
    BY <1>2, <2>1, <2>3 DEF All
  <2>4. LogTmp' BY <2>1, <2>2, <2>a, <2>b DEF LogTmp
  <2> QED BY <1>4, <1>5, <2>1, <2>4
<1>9. CASE SyncTmp
  <2>1. /\ step = "sync" /\ step' = "rename" /\ tmp' = Stored(tmp.data)
        /\ UNCHANGED <<path, was, want, synced>>
    BY <1>9 DEF SyncTmp, Replace
  <2>2. tmp' = Stored(want) BY <2>1 DEF LogTmp
  <2>3. want \in All BY <2>1 DEF LogTmp, All
  <2>4. LogTmp' BY <1>1, <1>2, <2>1, <2>2, <2>3 DEF LogTmp, All, Stored
  <2> QED BY <1>4, <1>5, <2>1, <2>4
<1>10. CASE Rename
  <2>1. /\ step = "rename" /\ step' = "folder" /\ path' = tmp /\ tmp' = None
        /\ was' = was \cup {path} /\ UNCHANGED want
    BY <1>10 DEF Rename
  <2>2. was' # {} BY <2>1
  <2>3. synced' = synced BY <2>2 DEF Replace
  <2>4. path' = [data |-> want, safe |-> want] /\ want \in All
    BY <2>1 DEF LogTmp, Stored, All
  <2>5. LogKept'
    <3>1. {path'} \cup was' \subseteq [data : Some, safe : Some]
      BY <1>1, <1>3, <2>1, <2>4
    <3>2. path'.data \in All /\ path'.safe = path'.data BY <2>4
    <3> QED BY <1>2, <2>3, <3>1, <3>2 DEF LogKept, All, Some
  <2>6. LogTmp' BY <2>1 DEF LogTmp
  <2> QED BY <1>4, <2>1, <2>3, <2>5, <2>6
<1>11. ASSUME NEW ok \in BOOLEAN, SyncFolder(ok) PROVE LogInv'
  <2>1. /\ step = "folder" /\ step' = "done" /\ was' \in {{}, was}
        /\ UNCHANGED <<path, tmp, want>>
    BY <1>11 DEF SyncFolder
  <2>2. LogTmp' BY <1>2, <2>1 DEF LogTmp
  <2>3. CASE synced' = synced
    <3>1. LogKept' BY <1>2, <1>3, <2>1, <2>3 DEF LogKept, All, Some
    <3> QED BY <1>4, <2>1, <2>2, <2>3, <3>1
  <2>4. CASE synced' # synced
    <3>1. was' = {} /\ synced' \subseteq written BY <2>4 DEF Replace
    <3>2. LogControl' BY <1>2, <2>1, <3>1 DEF LogControl
    <3>3. All \subseteq Lasting(logged', synced', old')
      BY <1>0, <1>2, <3>1, LastingLater DEF All
    <3>4. path' = path /\ path \in [data : Some, safe : Some] /\ path.safe = path.data
      BY <1>3, <2>1
    <3>5. path \in [data : All, safe : All]
      <4>1. path = [data |-> path.data, safe |-> path.safe] BY <3>4
      <4> QED BY <1>3, <3>4, <4>1
    <3>6. LogKept' BY <1>2, <1>3, <2>1, <3>1, <3>3, <3>4, <3>5 DEF LogKept, All
    <3> QED BY <2>2, <3>2, <3>6
  <2> QED BY <2>3, <2>4
<1> QED BY <1>6, <1>7, <1>8, <1>9, <1>10, <1>11 DEF Replace, Writing

LEMMA PowerStep ==
  ASSUME LogInv, LogPowerFails
  PROVE  LogInv'
<1> USE DEF LogInv
<1>1. PICK f \in {path} \cup was : \E v \in {f.data, f.safe} : PowerFails(f, v)
  BY DEF LogPowerFails
<1>2. PICK v \in {f.data, f.safe} : PowerFails(f, v) BY <1>1
<1>3. v \in Lasting(logged, synced, old) BY DEF LogKept
<1>4. /\ path' = [data |-> v, safe |-> v] /\ was' = {} /\ step' = "idle"
      /\ tmp' = tmp /\ holder' = None /\ phase' = "free" /\ written' = synced
      /\ UNCHANGED <<logged, old, synced>>
  BY <1>2 DEF PowerFails, Stored, LogPowerFails, Release
<1>5. LogControl' BY <1>4 DEF LogControl
<1>6. LogKept' BY <1>3, <1>4 DEF LogKept
<1>7. LogTmp' BY <1>4 DEF LogTmp
<1> QED BY <1>5, <1>6, <1>7

LEMMA LogInitially == LogInit => LogInv
<1> SUFFICES ASSUME LogInit PROVE LogInv
  OBVIOUS
<1>0. /\ path = [data |-> Empty, safe |-> Empty] /\ was = {} /\ tmp = None
      /\ step = "idle" /\ holder = None /\ phase = "free"
      /\ logged = 0 /\ old = 0 /\ written = {} /\ synced = {} /\ MaxEvents \in Nat
  BY LogAssumption DEF LogInit, FileInit, Stored
<1>1. Sound(Empty, 0)
  <2>1. << >> \in Seq(Line(0)) /\ Len(<< >>) = 0 OBVIOUS
  <2>2. InOrder(<< >>)
    <3>1. 1 .. Len(<< >>) = {} BY <2>1
    <3> QED BY <3>1, Zenon DEF InOrder
  <2> QED BY <2>1, <2>2 DEF Sound, Empty
<1>2. Empty \in Lasting(0, {}, 0)
  <2>1. Empty \in Content
    <3>1. 0 \in 0 .. MaxEvents BY <1>0
    <3> QED BY <1>1, <3>1, SoundIsContent
  <2> QED BY <1>1, <2>1 DEF Lasting, Keeps
<1>3. LogControl BY <1>0 DEF LogControl
<1>4. LogKept BY <1>0, <1>2 DEF LogKept
<1>5. LogTmp BY <1>0 DEF LogTmp
<1> QED BY <1>3, <1>4, <1>5 DEF LogInv

(* To the log, a step of the composition is one of these, or nothing.      *)
LEMMA LogStep == LogInv /\ [Next]_vars => LogInv'
<1> SUFFICES ASSUME LogInv, [Next]_vars PROVE LogInv'
  OBVIOUS
<1>1. CASE UNCHANGED logVars
  <2>1. UNCHANGED <<path, was, tmp, step, want, holder, phase, logged, old, written, synced>>
    BY <1>1 DEF logVars, fileVars
  <2> QED BY <2>1 DEF LogInv, LogControl, LogKept, LogTmp
<1>2. CASE \E c \in Callers, cut \in Cuts : AuditBegins(c, cut)
  BY <1>2, AppendLineStep DEF AuditBegins
<1>3. CASE \E c \in Callers : AuditFails(c)
  BY <1>3, NumbersStep DEF AuditFails
<1>4. CASE \E c \in Callers : AuditEnds(c)
  BY <1>4, ReleaseStep DEF AuditEnds
<1>5. CASE Replacing
  BY <1>5, PruneStep, ReplaceStep DEF Replacing
<1>6. CASE Age
  BY <1>6, NumbersStep
<1>7. CASE LogCrash
  BY <1>7, ReleaseStep
<1>8. CASE LogPowerFails
  BY <1>8, PowerStep
<1> QED BY <1>1, <1>2, <1>3, <1>4, <1>5, <1>6, <1>7, <1>8 DEF Next, vars

LEMMA LogInvariant == Spec => []LogInv
<1>1. Init => LogInv BY LogInitially DEF Init
<1> QED BY <1>1, LogStep, PTL DEF Spec

LEMMA LogTyped == LogInv => LogTypeOK
<1> SUFFICES ASSUME LogInv PROVE LogTypeOK
  OBVIOUS
<1>1. path.data \in Content /\ path.safe \in Content
  BY DEF LogInv, LogKept, Lasting
<1> QED BY <1>1 DEF LogInv, LogControl, LogTmp, LogTypeOK

LEMMA RecentWhenKept == LogInv => RecentIsComplete
<1> SUFFICES ASSUME LogInv PROVE RecentIsComplete
  OBVIOUS
<1>1. Sound(path.data, logged) /\ Keeps(path.data, written, old)
  BY DEF LogInv, LogKept, Lasting
<1> QED BY <1>1, LogNumbers, RecentShows DEF LogInv, LogControl

(* The log is never in a state the code does not expect: only the request  *)
(* that holds activityMu replaces the file (activity.go:87-120).           *)
THEOREM TypeCorrect == Spec => []TypeOK
<1>1. LimiterInv /\ LogInv => TypeOK BY LogTyped DEF LimiterInv, TypeOK
<1> QED BY <1>1, LimiterInvariant, LogInvariant, PTL

(* The list of recent events has every event that got its line, the newest *)
(* first, until it is too old or the list is full of newer ones, whatever  *)
(* was cut short, failed or was interrupted (activity.go:87-120), for any  *)
(* number of events, lines and requests.                                   *)
THEOREM RecentStaysComplete == Spec => []RecentIsComplete
BY RecentWhenKept, LogInvariant, PTL

(* The log is appended to without a temporary file and still replaced as a *)
(* whole: no crash in either leads to a file that is not a log             *)
(* (atomic.go:8, activity.go:87-120).                                      *)
THEOREM LogIsNeverTruncated == Spec => []NeverTruncated
<1>1. ASSUME LogInv PROVE NeverTruncated
  <2>1. Truncated \notin Content BY LogIsFile, TruncatedAssumption
  <2> QED BY <1>1, <2>1 DEF LogInv, LogKept, Lasting, NeverTruncated
<1> QED BY <1>1, LogInvariant, PTL
=============================================================================
