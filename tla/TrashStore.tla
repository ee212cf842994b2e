----------------------------- MODULE TrashStore -----------------------------
(***************************************************************************)
(* The trash, trash.go: deleted files and folders wait in .trash/items/<id>*)
(* and are listed in s.Items, whose image is trash_info.json.              *)
(*                                                                         *)
(* Every method holds s.mu from its first look at the list to its answer,  *)
(* but works on the file system meanwhile, so the process may be killed    *)
(* between any two of its steps and other handlers create and take away    *)
(* files at the places items come from.  A save replaces the whole file or *)
(* leaves it.                                                              *)
(*                                                                         *)
(* An id is random and used once; the item that moveToTrash makes for it   *)
(* never changes, so a list of items is a set of ids.  Half-removed        *)
(* folders count as still there.                                           *)
(***************************************************************************)
EXTENDS FiniteSets

CONSTANTS
  Ids,      \* ids of trash items
  Paths,    \* places in the storage tree
  Callers,  \* request goroutines
  Janitor,  \* the goroutine of startTrashJanitor
  None      \* nobody holds the mutex; an id that has no item yet

ASSUME ConstantsDiffer == /\ None \notin Callers \cup {Janitor}
                          /\ None \notin Paths
                          /\ Janitor \notin Callers

Procs == Callers \cup {Janitor}

VARIABLES
  tree,    \* the places that are occupied
  vault,   \* the ids that have something in .trash/items
  mem,     \* s.Items
  disk,    \* trash_info.json
  origin,  \* OriginalPath of the item of each id
  aged,    \* ids whose DeletedAt is more than 30 days ago
  mu,      \* who holds s.mu
  pc,      \* where each goroutine stands
  ids,     \* the ids each goroutine works on
  told,    \* ids answered "Moved to trash" (history)
  asked,   \* ids that a restore moved back or a purge began to remove (history)
  unseen,  \* ids that a restore dropped although they are there (history)
  hurt     \* ids a failed stat, save or removal or a crash happened to (history)

files == <<tree, vault>>
lists == <<mem, disk>>
stamps == <<origin, aged>>
calls == <<mu, pc, ids>>
history == <<told, asked, unseen, hurt>>

vars == <<files, lists, stamps, calls, history>>

(* openTrashStore on a storage directory without trash.                    *)
Init ==
  /\ tree = {} /\ vault = {} /\ mem = {} /\ disk = {}
  /\ origin = [i \in Ids |-> None] /\ aged = {}
  /\ mu = None
  /\ pc = [c \in Procs |-> "idle"] /\ ids = [c \in Procs |-> {}]
  /\ told = {} /\ asked = {} /\ unseen = {} /\ hurt = {}

-----------------------------------------------------------------------------
Goto(c, l) == pc' = [pc EXCEPT ![c] = l]

(* s.mu.Lock() in an idle goroutine, for work on the ids S.                *)
Enter(c, l, S) ==
  /\ pc[c] = "idle" /\ mu = None
  /\ mu' = c
  /\ Goto(c, l)
  /\ ids' = [ids EXCEPT ![c] = S]

(* The deferred s.mu.Unlock() and the answer.                              *)
Leave(c) ==
  /\ mu' = None
  /\ Goto(c, "idle")
  /\ ids' = [ids EXCEPT ![c] = {}]

(* A faulty saveLocked that writes the list as it was before the change.   *)
SaveLockedEarly(ok, items) ==
  /\ mem' = items
  /\ disk' = IF ok THEN mem ELSE disk

(* saveLocked with the new list, which succeeds or leaves the file alone.  *)
SaveLocked(ok, items) ==
  /\ mem' = items
  /\ disk' = IF ok THEN items ELSE disk

(* History: if it failed, something happened to the ids S.                 *)
Note(ok, S) == hurt' = IF ok THEN hurt ELSE hurt \cup S

-----------------------------------------------------------------------------
(* moveToTrash.                                                            *)

(* Before the lock: the path is there, an id and an item are made for it.  *)
StatSource(c, p, i) ==
  /\ pc[c] = "idle"
  /\ p \in tree
  /\ origin[i] = None
  /\ origin' = [origin EXCEPT ![i] = p]
  /\ Goto(c, "delete")
  /\ ids' = [ids EXCEPT ![c] = {i}]
  /\ UNCHANGED <<files, lists, aged, mu, history>>

(* os.Rename into the trash; somebody may have taken the source away.      *)
MoveAside(c, i) ==
  /\ pc[c] = "delete" /\ i \in ids[c] /\ mu = None
  /\ origin[i] \in tree
  /\ tree' = tree \ {origin[i]}
  /\ vault' = vault \cup {i}
  /\ mu' = c
  /\ Goto(c, "record")
  /\ UNCHANGED <<lists, stamps, ids, history>>

SourceGone(c, i) ==
  /\ pc[c] = "delete" /\ i \in ids[c] /\ mu = None
  /\ origin[i] \notin tree
  /\ Leave(c)
  /\ UNCHANGED <<files, lists, stamps, history>>

(* The item is listed and saved, and the request answered.                 *)
Record(c, i) ==
  /\ pc[c] = "record" /\ i \in ids[c]
  /\ SaveLocked(TRUE, mem \cup {i})
  /\ told' = told \cup {i}
  /\ Leave(c)
  /\ UNCHANGED <<files, stamps, asked, unseen, hurt>>

(* The save fails.  The item leaves the list again, so that the list is    *)
(* what it was, and the rename is still to be undone.                      *)
RecordFails(c, i) ==
  /\ pc[c] = "record" /\ i \in ids[c]
  /\ hurt' = hurt \cup {i}
  /\ Goto(c, "rollback")
  /\ UNCHANGED <<files, lists, stamps, mu, ids, told, asked, unseen>>

(* The rename back, whose error is ignored: it replaces a file that took   *)
(* the place, and fails if a folder took it or the parent has gone.        *)
RollBack(c, i) ==
  /\ pc[c] = "rollback" /\ i \in ids[c]
  /\ \/ /\ tree' = tree \cup {origin[i]}
        /\ vault' = vault \ {i}
     \/ UNCHANGED files
  /\ Leave(c)
  /\ UNCHANGED <<lists, stamps, history>>

-----------------------------------------------------------------------------
(* restore.                                                                *)

(* os.Stat of a listed item fails and the item leaves the list, the error  *)
(* of the save ignored: because the item is not in .trash/items ...        *)
RestoreMissing(c, i, ok) ==
  /\ pc[c] = "idle" /\ mu = None
  /\ i \in mem \ vault
  /\ SaveLocked(ok, mem \ {i}) /\ Note(ok, {i})
  /\ UNCHANGED <<files, stamps, calls, told, asked, unseen>>

(* ... or for any other reason, while the item stays where it is.          *)
RestoreUnseen(c, i, ok) ==
  /\ pc[c] = "idle" /\ mu = None
  /\ i \in mem \cap vault
  /\ SaveLocked(ok, mem \ {i})
  /\ hurt' = hurt \cup {i}
  /\ unseen' = unseen \cup {i}
  /\ UNCHANGED <<files, stamps, calls, told, asked>>

(* The item is there and its place is free.  An unknown id or an occupied  *)
(* place is answered with an error and changes nothing.                    *)
RestoreChecked(c, i) ==
  /\ i \in mem \cap vault
  /\ origin[i] \notin tree
  /\ Enter(c, "restore", {i})
  /\ UNCHANGED <<files, lists, stamps, history>>

(* The rename to the original place, or its failure.                       *)
MoveBack(c, i) ==
  /\ pc[c] = "restore" /\ i \in ids[c]
  /\ tree' = tree \cup {origin[i]}
  /\ vault' = vault \ {i}
  /\ asked' = asked \cup {i}
  /\ Goto(c, "drop")
  /\ UNCHANGED <<lists, stamps, mu, ids, told, unseen, hurt>>

MoveBackFails(c, i) ==
  /\ pc[c] = "restore" /\ i \in ids[c]
  /\ Leave(c)
  /\ UNCHANGED <<files, lists, stamps, history>>

(* The item leaves the list.  A failed save is answered as an error.       *)
FinishRestore(c, ok) ==
  /\ pc[c] = "drop"
  /\ SaveLocked(ok, mem \ ids[c]) /\ Note(ok, ids[c])
  /\ Leave(c)
  /\ UNCHANGED <<files, stamps, told, asked, unseen>>

-----------------------------------------------------------------------------
(* purge, empty and purgeExpired: os.RemoveAll of the items, its errors    *)
(* ignored, and then one save of the list without them.                    *)

StartRemoval(c, l, S) ==
  /\ Enter(c, l, S)
  /\ asked' = asked \cup S
  /\ UNCHANGED <<files, lists, stamps, told, unseen, hurt>>

Purge(c, i) == i \in mem /\ StartRemoval(c, "purge", {i})

(* purge of an id that is not listed still tries to remove the file.       *)
PurgeOrphan(c, i) ==
  /\ pc[c] = "idle" /\ mu = None
  /\ i \in vault \ mem
  /\ vault' = vault \ {i}
  /\ asked' = asked \cup {i}
  /\ UNCHANGED <<tree, lists, stamps, calls, told, unseen, hurt>>

EmptyTrash(c) == StartRemoval(c, "empty", mem)

(* A faulty purgeExpired that takes every item once one of them is old.    *)
PurgeExpiredAll ==
  /\ mem \cap aged # {}
  /\ Enter(Janitor, "purge", mem)
  /\ asked' = asked \cup (mem \cap aged)
  /\ UNCHANGED <<files, lists, stamps, told, unseen, hurt>>

(* purgeExpired, at the start and then every hour.                         *)
PurgeExpired ==
  /\ mem \cap aged # {}
  /\ StartRemoval(Janitor, "purge", mem \cap aged)

Wipe(c, i) ==
  /\ pc[c] \in {"purge", "empty"}
  /\ i \in vault \cap ids[c]
  /\ vault' = vault \ {i}
  /\ UNCHANGED <<tree, lists, stamps, calls, history>>

(* A faulty end of a purge that forgets the items in the file only.        *)
FinishPurgeOnDisk(c, ok) ==
  /\ pc[c] = "purge"
  /\ disk' = IF ok THEN mem \ ids[c] ELSE disk
  /\ hurt' = IF ok THEN hurt ELSE hurt \cup ids[c]
  /\ Leave(c)
  /\ UNCHANGED <<files, mem, stamps, told, asked, unseen>>

(* What is still in the vault could not be removed.                        *)
FinishPurge(c, ok) ==
  /\ pc[c] = "purge"
  /\ SaveLocked(ok, mem \ ids[c])
  /\ hurt' = hurt \cup (IF ok THEN ids[c] \cap vault ELSE ids[c])
  /\ Leave(c)
  /\ UNCHANGED <<files, stamps, told, asked, unseen>>

(* empty goes on after a save that succeeded and removes whatever is left  *)
(* in .trash/items.                                                        *)
FinishEmpty(c) ==
  /\ pc[c] = "empty"
  /\ \/ /\ SaveLocked(TRUE, {})
        /\ hurt' = hurt \cup (ids[c] \cap vault)
        /\ Goto(c, "orphans")
        /\ ids' = [ids EXCEPT ![c] = {}]
        /\ UNCHANGED mu
     \/ /\ SaveLocked(FALSE, {})
        /\ hurt' = hurt \cup ids[c]
        /\ Leave(c)
  /\ UNCHANGED <<files, stamps, told, asked, unseen>>

WipeOrphan(c, i) ==
  /\ pc[c] = "orphans"
  /\ i \in vault
  /\ vault' = vault \ {i}
  /\ asked' = asked \cup {i}
  /\ UNCHANGED <<tree, lists, stamps, calls, told, unseen, hurt>>

FinishOrphans(c) ==
  /\ pc[c] = "orphans"
  /\ Leave(c)
  /\ UNCHANGED <<files, lists, stamps, history>>

-----------------------------------------------------------------------------
(* The surroundings.                                                       *)

(* Uploads, new folders, copies, renames and moves put something at a free *)
(* place; renames and moves take something away.                           *)
Occupy(p) ==
  /\ p \notin tree
  /\ tree' = tree \cup {p}
  /\ UNCHANGED <<vault, lists, stamps, calls, history>>

Vacate(p) ==
  /\ p \in tree
  /\ tree' = tree \ {p}
  /\ UNCHANGED <<vault, lists, stamps, calls, history>>

(* Thirty days pass.                                                       *)
Age(i) ==
  /\ origin[i] # None /\ i \notin aged
  /\ aged' = aged \cup {i}
  /\ UNCHANGED <<files, lists, origin, calls, history>>

(* The process is killed anywhere and started again.                       *)
Restart ==
  /\ mem' = disk
  /\ mu' = None
  /\ pc' = [c \in Procs |-> "idle"] /\ ids' = [c \in Procs |-> {}]
  /\ hurt' = hurt \cup UNION {ids[c] : c \in {d \in Procs : d = mu}}
  /\ UNCHANGED <<files, disk, stamps, told, asked, unseen>>

-----------------------------------------------------------------------------
(* What a goroutine does after it has taken s.mu, or while it waits for it.*)
Step(c) ==
  \/ \E i \in Ids : \/ MoveAside(c, i) \/ SourceGone(c, i)
                    \/ Record(c, i) \/ RecordFails(c, i) \/ RollBack(c, i)
                    \/ MoveBack(c, i) \/ MoveBackFails(c, i)
                    \/ Wipe(c, i) \/ WipeOrphan(c, i)
  \/ \E ok \in BOOLEAN : FinishRestore(c, ok) \/ FinishPurge(c, ok)
  \/ FinishEmpty(c) \/ FinishOrphans(c)

Request(c) ==
  \/ \E p \in Paths, i \in Ids : StatSource(c, p, i)
  \/ \E i \in Ids, ok \in BOOLEAN : RestoreMissing(c, i, ok) \/ RestoreUnseen(c, i, ok)
  \/ \E i \in Ids : RestoreChecked(c, i) \/ Purge(c, i) \/ PurgeOrphan(c, i)
  \/ EmptyTrash(c)

Next ==
  \/ \E c \in Callers : Request(c)
  \/ PurgeExpired
  \/ \E c \in Procs : Step(c)
  \/ \E p \in Paths : Occupy(p) \/ Vacate(p)
  \/ \E i \in Ids : Age(i)
  \/ Restart

Spec == Init /\ [][Next]_vars

(* Go runs every goroutine that can run, its mutex hands itself to a       *)
(* waiter, and the janitor's ticker never stops.                           *)
FairSpec == /\ Spec
            /\ SF_vars(PurgeExpired)
            /\ \A c \in Procs : SF_vars(Step(c))

-----------------------------------------------------------------------------
Outside == {"idle", "delete"}

Working == {"record", "rollback", "restore", "drop", "purge", "empty", "orphans"}

(* Every variable has its shape, and s.mu is held by the one goroutine that*)
(* is inside a method (trash.go:34-38, the deferred unlocks).              *)
TypeOK ==
  /\ tree \subseteq Paths /\ vault \subseteq Ids
  /\ mem \subseteq Ids /\ disk \subseteq Ids
  /\ origin \in [Ids -> Paths \cup {None}] /\ aged \subseteq Ids
  /\ mu \in Procs \cup {None}
  /\ pc \in [Procs -> Outside \cup Working]
  /\ ids \in [Procs -> SUBSET Ids]
  /\ told \subseteq Ids /\ asked \subseteq Ids /\ unseen \subseteq Ids /\ hurt \subseteq Ids
  /\ \A c \in Procs : mu = c <=> pc[c] \in Working

(* What was answered "Moved to trash" stays in .trash/items, before and    *)
(* after a restart, until somebody restores or purges it or its 30 days    *)
(* are over, and is listed in memory and in the file; but for an item that *)
(* a restore took from the list because it could not look at it            *)
(* (trash.go:100-154 against every other method, 186-190).                 *)
TrashedIsRestorable ==
  /\ told \ asked \subseteq vault
  /\ told \ (asked \cup unseen) \subseteq mem \cap disk

(* A failure or a crash harms only the items it happened to: whenever the  *)
(* trash is quiet, list, file and directory agree on every other item, and *)
(* what is in none of them was not answered as kept (trash.go:72-80, 142). *)
DamageIsLocal ==
  mu = None => \A i \in Ids \ hurt : (i \in mem <=> i \in disk)
                                  /\ (i \in mem <=> i \in vault)

(* An item older than 30 days does not stay listed (trash.go:267-301).     *)
OldIsPurged == \A i \in Ids : i \in aged \cap mem ~> i \notin mem
=============================================================================
