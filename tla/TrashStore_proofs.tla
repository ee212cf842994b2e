------------------------- MODULE TrashStore_proofs --------------------------
(***************************************************************************)
(* Proofs about the trash, for any ids, places and goroutines.             *)
(*                                                                         *)
(* What has to be known beyond the properties is how far the goroutine     *)
(* that holds s.mu has come with the ids it works on (InHand, AllInHand),  *)
(* and that the id of a delete that still waits for s.mu is nowhere yet    *)
(* (WaitingIsFresh).  DamageIsLocal speaks of quiet states only; Agreement *)
(* says it of every state, for the ids nobody is working on.               *)
(***************************************************************************)
EXTENDS TrashStore, TLAPS

(* The id is in no list, no directory and no answer.                       *)
Fresh(i) == i \notin mem \cup disk \cup vault \cup told \cup asked \cup hurt

(* An id without an item is nowhere.                                       *)
UnusedIsFresh ==
  \A i \in Ids : origin[i] = None => Fresh(i) /\ \A c \in Procs : i \notin ids[c]

(* The id of a waiting delete is nowhere and nobody else has it.           *)
WaitingIsFresh ==
  \A c \in Procs : pc[c] = "delete" =>
    \A i \in ids[c] : Fresh(i) /\ \A d \in Procs : i \in ids[d] => d = c

(* One delete or one restore works on one id, an idle goroutine on none.   *)
FewInHand ==
  \A c \in Procs :
    /\ pc[c] \in {"delete", "record", "rollback", "restore"} =>
         \A i, j \in ids[c] : i = j
    /\ pc[c] \in {"idle", "orphans"} => ids[c] = {}

(* Where an id is while its goroutine holds s.mu.                          *)
InHand ==
  \A c \in Procs : \A i \in ids[c] :
    /\ pc[c] = "record" => i \in vault \ (mem \cup disk \cup told \cup asked \cup hurt)
    /\ pc[c] = "rollback" => i \in hurt \ (mem \cup disk \cup told \cup asked)
    /\ pc[c] = "restore" => i \in mem \cap vault
    /\ pc[c] = "drop" => i \in asked \ vault
    /\ pc[c] \in {"purge", "empty"} => i \in asked

(* empty works on the whole list.                                          *)
AllInHand ==
  \A c \in Procs : /\ pc[c] = "empty" => ids[c] = mem
                   /\ pc[c] = "orphans" => mem = {} /\ disk = {}

(* DamageIsLocal in every state, for the ids that are not being moved.     *)
Agreement ==
  \A i \in Ids \ hurt :
    (\A c \in Procs : mu = c /\ pc[c] # "restore" => i \notin ids[c])
      => (i \in mem <=> i \in disk) /\ (i \in mem <=> i \in vault)

IInv == /\ TypeOK
        /\ UnusedIsFresh /\ WaitingIsFresh
        /\ FewInHand /\ InHand /\ AllInHand
        /\ TrashedIsRestorable /\ Agreement


-----------------------------------------------------------------------------
(* A trash that has never been used (trash.go:41-62).                      *)
LEMMA InitIInv == Init => IInv
BY ConstantsDiffer
   DEF Init, IInv, TypeOK, UnusedIsFresh, WaitingIsFresh, FewInHand, InHand, AllInHand,
       TrashedIsRestorable, Agreement, Fresh, Procs, Outside, Working

(* moveToTrash: nobody else knows its id before the item is listed and     *)
(* saved in one step, and a failed save takes it out again                 *)
(* (trash.go:100-154).                                                     *)
LEMMA DeletesKeepIInv ==
  ASSUME IInv,
         \/ \E c \in Procs, p \in Paths, i \in Ids : StatSource(c, p, i)
         \/ \E c \in Procs, i \in Ids : MoveAside(c, i)
         \/ \E c \in Procs, i \in Ids : SourceGone(c, i)
         \/ \E c \in Procs, i \in Ids : Record(c, i)
         \/ \E c \in Procs, i \in Ids : RecordFails(c, i)
         \/ \E c \in Procs, i \in Ids : RollBack(c, i)
  PROVE  IInv'
<1> USE ConstantsDiffer
    DEF IInv, TypeOK, UnusedIsFresh, WaitingIsFresh, FewInHand, InHand, AllInHand,
        TrashedIsRestorable, Agreement, Fresh, Procs, Outside, Working,
        files, lists, stamps, calls, history,
        Goto, Leave, SaveLocked
<1>1. ASSUME NEW c \in Procs, NEW p \in Paths, NEW i \in Ids, StatSource(c, p, i) PROVE IInv'
  BY <1>1 DEF StatSource
<1>2. ASSUME NEW c \in Procs, NEW i \in Ids, MoveAside(c, i) PROVE IInv'
  BY <1>2 DEF MoveAside
<1>3. ASSUME NEW c \in Procs, NEW i \in Ids, SourceGone(c, i) PROVE IInv'
  BY <1>3 DEF SourceGone
<1>4. ASSUME NEW c \in Procs, NEW i \in Ids, Record(c, i) PROVE IInv'
  BY <1>4 DEF Record
<1>5. ASSUME NEW c \in Procs, NEW i \in Ids, RecordFails(c, i) PROVE IInv'
  BY <1>5 DEF RecordFails
<1>6. ASSUME NEW c \in Procs, NEW i \in Ids, RollBack(c, i) PROVE IInv'
  BY <1>6 DEF RollBack
<1> QED
  BY <1>1, <1>2, <1>3, <1>4, <1>5, <1>6

(* restore: what has left the vault counts as asked for, whether or not    *)
(* the list could be saved (trash.go:164-219).                             *)
LEMMA RestoresKeepIInv ==
  ASSUME IInv,
         \/ \E c \in Procs, i \in Ids, ok \in BOOLEAN : RestoreMissing(c, i, ok)
         \/ \E c \in Procs, i \in Ids, ok \in BOOLEAN : RestoreUnseen(c, i, ok)
         \/ \E c \in Procs, i \in Ids : RestoreChecked(c, i)
         \/ \E c \in Procs, i \in Ids : MoveBack(c, i)
         \/ \E c \in Procs, i \in Ids : MoveBackFails(c, i)
         \/ \E c \in Procs, ok \in BOOLEAN : FinishRestore(c, ok)
  PROVE  IInv'
<1> USE ConstantsDiffer
    DEF IInv, TypeOK, UnusedIsFresh, WaitingIsFresh, FewInHand, InHand, AllInHand,
        TrashedIsRestorable, Agreement, Fresh, Procs, Outside, Working,
        files, lists, stamps, calls, history,
        Goto, Enter, Leave, SaveLocked, Note
<1>1. ASSUME NEW c \in Procs, NEW i \in Ids, NEW ok \in BOOLEAN, RestoreMissing(c, i, ok) PROVE IInv'
  BY <1>1 DEF RestoreMissing
<1>2. ASSUME NEW c \in Procs, NEW i \in Ids, RestoreChecked(c, i) PROVE IInv'
  BY <1>2 DEF RestoreChecked
<1>3. ASSUME NEW c \in Procs, NEW i \in Ids, MoveBack(c, i) PROVE IInv'
  BY <1>3 DEF MoveBack
<1>4. ASSUME NEW c \in Procs, NEW i \in Ids, MoveBackFails(c, i) PROVE IInv'
  BY <1>4 DEF MoveBackFails
<1>5. ASSUME NEW c \in Procs, NEW ok \in BOOLEAN, FinishRestore(c, ok) PROVE IInv'
  BY <1>5 DEF FinishRestore
<1>6. ASSUME NEW c \in Procs, NEW i \in Ids, NEW ok \in BOOLEAN, RestoreUnseen(c, i, ok) PROVE IInv'
  BY <1>6 DEF RestoreUnseen
<1> QED
  BY <1>1, <1>2, <1>3, <1>4, <1>5, <1>6

(* purge, empty and purgeExpired: the items in hand are asked for, all     *)
(* others agree before and after; empty has them all in hand, so an orphan *)
(* can only be something that was hurt (trash.go:221-286).                 *)
LEMMA RemovalsKeepIInv ==
  ASSUME IInv,
         \/ \E c \in Procs, i \in Ids : Purge(c, i)
         \/ \E c \in Procs, i \in Ids : PurgeOrphan(c, i)
         \/ \E c \in Procs : EmptyTrash(c)
         \/ PurgeExpired
         \/ \E c \in Procs, i \in Ids : Wipe(c, i)
         \/ \E c \in Procs, ok \in BOOLEAN : FinishPurge(c, ok)
         \/ \E c \in Procs : FinishEmpty(c)
         \/ \E c \in Procs, i \in Ids : WipeOrphan(c, i)
         \/ \E c \in Procs : FinishOrphans(c)
  PROVE  IInv'
<1> USE ConstantsDiffer
    DEF IInv, TypeOK, UnusedIsFresh, WaitingIsFresh, FewInHand, InHand, AllInHand,
        TrashedIsRestorable, Agreement, Fresh, Procs, Outside, Working,
        files, lists, stamps, calls, history,
        Goto, Enter, Leave, SaveLocked, StartRemoval
<1>1. ASSUME NEW c \in Procs, NEW i \in Ids, Purge(c, i) PROVE IInv'
  BY <1>1 DEF Purge
<1>2. ASSUME NEW c \in Procs, NEW i \in Ids, PurgeOrphan(c, i) PROVE IInv'
  BY <1>2 DEF PurgeOrphan
<1>3. ASSUME NEW c \in Procs, EmptyTrash(c) PROVE IInv'
  BY <1>3 DEF EmptyTrash
<1>4. CASE PurgeExpired
  BY <1>4 DEF PurgeExpired
<1>5. ASSUME NEW c \in Procs, NEW i \in Ids, Wipe(c, i) PROVE IInv'
  BY <1>5 DEF Wipe
<1>6. ASSUME NEW c \in Procs, NEW ok \in BOOLEAN, FinishPurge(c, ok) PROVE IInv'
  BY <1>6 DEF FinishPurge
<1>7. ASSUME NEW c \in Procs, FinishEmpty(c) PROVE IInv'
  BY <1>7 DEF FinishEmpty
<1>8. ASSUME NEW c \in Procs, NEW i \in Ids, WipeOrphan(c, i) PROVE IInv'
  BY <1>8 DEF WipeOrphan
<1>9. ASSUME NEW c \in Procs, FinishOrphans(c) PROVE IInv'
  BY <1>9 DEF FinishOrphans
<1> QED
  BY <1>1, <1>2, <1>3, <1>4, <1>5, <1>6, <1>7, <1>8, <1>9

(* Other handlers, the clock and the restart, which hurts what the holder  *)
(* of s.mu has in hand and forgets every waiting delete.                   *)
LEMMA SurroundingsKeepIInv ==
  ASSUME IInv,
         \/ \E p \in Paths : Occupy(p)
         \/ \E p \in Paths : Vacate(p)
         \/ \E i \in Ids : Age(i)
         \/ Restart
         \/ UNCHANGED vars
  PROVE  IInv'
<1> USE ConstantsDiffer
    DEF IInv, TypeOK, UnusedIsFresh, WaitingIsFresh, FewInHand, InHand, AllInHand,
        TrashedIsRestorable, Agreement, Fresh, Procs, Outside, Working,
        files, lists, stamps, calls, history
<1>1. ASSUME NEW p \in Paths, Occupy(p) PROVE IInv'
  BY <1>1 DEF Occupy
<1>2. ASSUME NEW p \in Paths, Vacate(p) PROVE IInv'
  BY <1>2 DEF Vacate
<1>3. ASSUME NEW i \in Ids, Age(i) PROVE IInv'
  BY <1>3 DEF Age
<1>4. CASE Restart
  BY <1>4 DEF Restart
<1>5. CASE UNCHANGED vars
  BY <1>5 DEF vars
<1> QED
  BY <1>1, <1>2, <1>3, <1>4, <1>5

(* Every step of every goroutine.                                          *)
LEMMA StepIInv == IInv /\ [Next]_vars => IInv'
BY DeletesKeepIInv, RestoresKeepIInv, RemovalsKeepIInv, SurroundingsKeepIInv
   DEF Next, Step, Request, Procs

-----------------------------------------------------------------------------
(* The inductive invariant holds in every reachable state.                 *)
THEOREM Invariance == Spec => []IInv
BY InitIInv, StepIInv, PTL DEF Spec

(* Type correctness, and s.mu is held exactly inside a method              *)
(* (trash.go:34-38).                                                       *)
THEOREM TypeCorrect == Spec => []TypeOK
<1> IInv => TypeOK
  BY DEF IInv
<1> QED
  BY Invariance, PTL

(* What was answered "Moved to trash" stays in the trash through crashes,  *)
(* failed saves and any number of concurrent calls, until it is restored,  *)
(* purged or expired, and is listed, unless a restore could not look at it *)
(* (trash.go:100-286).                                                     *)
THEOREM TrashedStaysRestorable == Spec => []TrashedIsRestorable
<1> IInv => TrashedIsRestorable
  BY DEF IInv
<1> QED
  BY Invariance, PTL

(* In a quiet trash, list, file and directory agree on every item that no  *)
(* failure and no crash happened to (trash.go:72-80, 142-150).             *)
THEOREM DamageStaysLocal == Spec => []DamageIsLocal
<1> IInv => DamageIsLocal
  BY ConstantsDiffer DEF IInv, Agreement, DamageIsLocal, Procs
<1> QED
  BY Invariance, PTL
=============================================================================
