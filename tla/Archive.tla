------------------------------ MODULE Archive ------------------------------
(***************************************************************************)
(* The file handlers of handlers.go, bulk.go and copy.go over one archive  *)
(* directory, together with the trash they move things to and the share    *)
(* store they keep in step (ShareStore).                                   *)
(*                                                                         *)
(* A handler looks at the archive, then changes it, then rewrites or       *)
(* removes share paths, and holds no lock between these steps: each is an  *)
(* action here, and the handlers interleave.  A bulk request is a sequence *)
(* of the same steps for one path after the other.  Only the trash store   *)
(* has a mutex, trash.mu.                                                  *)
(*                                                                         *)
(* An item is one file or folder; its place is a path of the archive, a    *)
(* path below its own folder in the trash, or nowhere.  Moving a folder    *)
(* moves everything under it, as in a file system.                         *)
(*                                                                         *)
(* Handlers that work on overlapping paths at the same time can disturb    *)
(* each other, and a crash can separate a rename from its rewrite.  What   *)
(* either of them may have touched is excused from the guarantees below,   *)
(* and nothing else is.                                                    *)
(***************************************************************************)
EXTENDS Naturals, FiniteSets, SequencesExt

CONSTANTS
  Callers,  \* requests, each served once
  Files,    \* the files that ever exist
  Folders,  \* the folders that ever exist
  Paths,    \* paths of the archive that are used (a bound)
  Start,    \* where the items may be at the start (a bound)
  Tokens,   \* share tokens: download links that do not expire
  NoShare,  \* stands for a token without a record
  NoToken,
  Nobody    \* no item

ASSUME ItemsAssumption == Files \cap Folders = {} /\ Nobody \notin Files \cup Folders

ASSUME PathsAssumption ==
  \A p \in Paths : Len(p) > 0 /\ p[1] \notin {"trash", "gone"}

Items == Files \cup Folders

ASSUME StartAssumption == Start \subseteq [Items -> Paths \cup {<< >>}]

VARIABLES
  place,     \* where each item is
  from,      \* trash metadata: the original path of a top item in the trash
  pc,        \* where each request stands
  job,       \* what it works on
  answered,  \* files and folders a client was told are stored (history)
  excused,   \* items and tokens touched by a race or a crash (history)
  leads,     \* the item each share was created for (history)
  mem, disk, lapsed, told  \* of the share store

storeVars == <<mem, disk, lapsed, told>>
history == <<answered, excused, leads>>
vars == <<place, from, pc, job, history, storeVars>>

(* The share store; its public requests are the subject of its own runs.   *)
Store == INSTANCE ShareStore WITH
  Kind <- [t \in Tokens |-> "link"], Expiry <- [t \in Tokens |-> "never"],
  Requests <- {}, DropMaxUploads <- 1, pc <- << >>, tok <- << >>

Nowhere == << >>            \* not created yet
Gone == <<"gone">>          \* removed for good
NoPath == << >>
TrashPlace(i) == <<"trash", i>>

NoJob == [src |-> NoPath, dst |-> NoPath, item |-> Nobody, own |-> {},
          left |-> {}, clean |-> TRUE]

-----------------------------------------------------------------------------
(* The file system.                                                        *)

At(p) == {i \in Items : place[i] = p}
Taken(p) == At(p) # {}
Under(p) == {i \in Items : IsPrefix(p, place[i])}

(* The folder a place is in; the root of the archive is always there.      *)
Parent(p) == IF Len(p) = 1 THEN {} ELSE At(Front(p))
HasParent(p) == Len(p) = 1 \/ Parent(p) \cap Folders # {}

Children(p) == {i \in Items : Len(place[i]) = Len(p) + 1 /\ IsPrefix(p, place[i])}

(* os.Rename replaces a file by a file without a word, and refuses to      *)
(* replace a folder or to put a folder where a file is.                    *)
RenameWorks(p, q) ==
  /\ Taken(p)
  /\ p # q /\ HasParent(q)
  /\ Taken(q) => At(p) \cup At(q) \subseteq Files

Renamed(p, q) ==
  [i \in Items |->
     IF i \in Under(p) THEN Store!Rewritten(place[i], p, q)
     ELSE IF place[i] = q THEN Gone ELSE place[i]]

Removed(S) == [i \in Items |-> IF i \in S THEN Gone ELSE place[i]]

(* A faulty creation without O_EXCL.                                       *)
CanCreateOver(i, q) == place[i] = Nowhere /\ HasParent(q)

(* O_EXCL and Mkdir.                                                       *)
CanCreate(i, q) == place[i] = Nowhere /\ ~ Taken(q) /\ HasParent(q)

-----------------------------------------------------------------------------
(* Requests.                                                               *)

Area(j) == {j.src, j.dst} \ {NoPath}

Overlap(j, k) ==
  \E p \in Area(j), q \in Area(k) : IsPrefix(p, q) \/ IsPrefix(q, p)

Touched(j) ==
  j.own \cup Under(TrashPlace(j.item)) \cup (UNION {Under(p) : p \in Area(j)})
  \cup {t \in Store!Live(mem) : \E p \in Area(j) : IsPrefix(p, mem[t].path)}

(* Request c passes its checks and goes on at step s.  If it overlaps with *)
(* requests that run, all of them and what they touch are excused.         *)
Begin(c, s, j) ==
  LET rivals == {d \in Callers : pc[d] \notin {"new", "done"} /\ Overlap(j, job[d])}
      Dirty(k) == [k EXCEPT !.clean = FALSE]
  IN /\ pc[c] = "new"
     /\ pc' = [pc EXCEPT ![c] = s]
     /\ job' = [d \in Callers |->
                  IF d = c THEN (IF rivals = {} THEN j ELSE Dirty(j))
                  ELSE IF d \in rivals THEN Dirty(job[d]) ELSE job[d]]
     /\ excused' =
          IF rivals = {} THEN excused
          ELSE excused \cup Touched(j) \cup UNION {Touched(job[d]) : d \in rivals}
     /\ UNCHANGED <<answered, leads, storeVars>>

(* What request c creates or shares is excused when c is.                  *)
Made(c, S) == excused' = IF job[c].clean THEN excused ELSE excused \cup S

Goto(c, s) == pc' = [pc EXCEPT ![c] = s] /\ UNCHANGED job

Return(c) ==
  /\ pc' = [pc EXCEPT ![c] = "done"]
  /\ job' = [job EXCEPT ![c] = NoJob]

(* trash.mu is held between two steps.                                     *)
TrashLocked == \E c \in Callers : pc[c] \in {"undo", "restore"}

-----------------------------------------------------------------------------
(* rename, move, and each path of a bulk move.                             *)

BeginRename(c, p, q) ==
  /\ Taken(p) /\ ~ Taken(q)
  /\ Front(p) = Front(q)
  /\ Begin(c, "move", [NoJob EXCEPT !.src = p, !.dst = q])
  /\ UNCHANGED <<place, from>>

(* A faulty move that does not look at what is there.                      *)
MovableOver(p, q) ==
  /\ Taken(p)
  /\ Last(p) = Last(q) /\ HasParent(q)
  /\ p # q /\ ~ IsPrefix(p, q)

(* A bulk move checks the same for each path as a move, and goes on to the *)
(* next path where a move answers with an error.                           *)
Movable(p, q) ==
  /\ Taken(p) /\ ~ Taken(q)
  /\ Last(p) = Last(q) /\ HasParent(q)
  /\ ~ IsPrefix(p, q)

BeginMove(c, p, q) ==
  /\ Movable(p, q)
  /\ Begin(c, "move", [NoJob EXCEPT !.src = p, !.dst = q])
  /\ UNCHANGED <<place, from>>

Move(c) ==
  /\ pc[c] = "move"
  /\ IF RenameWorks(job[c].src, job[c].dst)
     THEN /\ place' = Renamed(job[c].src, job[c].dst)
          /\ Goto(c, "rewrite")
     ELSE Return(c) /\ UNCHANGED place
  /\ UNCHANGED <<from, history, storeVars>>

(* A faulty rename that leaves the shares to look after themselves.        *)
LeaveShares(c, ok) ==
  /\ pc[c] = "rewrite"
  /\ UNCHANGED storeVars
  /\ Return(c)
  /\ UNCHANGED <<place, from, history>>

SharesUnder(p) == {t \in Store!Live(mem) : IsPrefix(p, mem[t].path)}

RewriteShares(c, ok) ==
  /\ pc[c] = "rewrite"
  /\ IF SharesUnder(job[c].src) = {} THEN UNCHANGED storeVars
     ELSE Store!RewritePathPrefix(job[c].src, job[c].dst, ok)
  /\ Return(c)
  /\ UNCHANGED <<place, from, history>>

-----------------------------------------------------------------------------
(* delete, and each path of a bulk delete.                                 *)

BeginDelete(c, p) ==
  /\ Taken(p)
  /\ Begin(c, "trash", [NoJob EXCEPT !.src = p])
  /\ UNCHANGED <<place, from>>

(* moveToTrash, under trash.mu up to its save.                             *)
MoveToTrash(c, i, ok) ==
  LET p == job[c].src
  IN /\ pc[c] = "trash" /\ ~ TrashLocked
     /\ place[i] = p
     /\ place' = Renamed(p, TrashPlace(i))
     /\ from' = IF ok THEN [from EXCEPT ![i] = p] ELSE from
     /\ pc' = [pc EXCEPT ![c] = IF ok THEN "unshare" ELSE "undo"]
     /\ job' = [job EXCEPT ![c].item = i]
     /\ UNCHANGED <<history, storeVars>>

MoveToTrashFails(c) ==
  /\ pc[c] = "trash" /\ ~ TrashLocked
  /\ ~ Taken(job[c].src)
  /\ Return(c)
  /\ UNCHANGED <<place, from, history, storeVars>>

(* The save failed: the item is renamed back, if that works.               *)
UndoTrash(c) ==
  LET back == TrashPlace(job[c].item)
      p == job[c].src
  IN /\ pc[c] = "undo"
     /\ place' = IF RenameWorks(back, p) THEN Renamed(back, p) ELSE place
     /\ Return(c)
     /\ UNCHANGED <<from, history, storeVars>>

RemoveShares(c, ok) ==
  /\ pc[c] = "unshare"
  /\ IF SharesUnder(job[c].src) = {} THEN UNCHANGED storeVars
     ELSE Store!RemoveByPathPrefix(job[c].src, ok)
  /\ Return(c)
  /\ UNCHANGED <<place, from, history>>

(* restore: MkdirAll of the parent, with k where it is missing; the place  *)
(* has to be free.                                                         *)
BeginRestore(c, i, k) ==
  LET p == from[i]
      lost == Len(p) > 1 /\ ~ Taken(Front(p))
  IN /\ p # NoPath /\ ~ TrashLocked
     /\ Taken(TrashPlace(i)) /\ ~ Taken(p)
     /\ IF lost THEN /\ k \in Folders /\ CanCreate(k, Front(p))
                     /\ place' = [place EXCEPT ![k] = Front(p)]
        ELSE k = Nobody /\ HasParent(p) /\ UNCHANGED place
     /\ Begin(c, "restore", [NoJob EXCEPT !.dst = p, !.item = i])
     /\ UNCHANGED from

Restore(c) ==
  LET i == job[c].item
      works == RenameWorks(TrashPlace(i), job[c].dst)
  IN /\ pc[c] = "restore"
     /\ place' = IF works THEN Renamed(TrashPlace(i), job[c].dst) ELSE place
     /\ from' = IF works THEN [from EXCEPT ![i] = NoPath] ELSE from
     /\ Return(c)
     /\ UNCHANGED <<history, storeVars>>

(* purge, empty and the janitor, one item at a time; nobody expects to     *)
(* see the item again.                                                     *)
Purge(i) ==
  /\ from[i] # NoPath /\ ~ TrashLocked
  /\ place' = Removed(Under(TrashPlace(i)))
  /\ from' = [from EXCEPT ![i] = NoPath]
  /\ answered' = answered \ Under(TrashPlace(i))
  /\ UNCHANGED <<pc, job, excused, leads, storeVars>>

-----------------------------------------------------------------------------
(* upload, upload into a drop box, and mkdir.                              *)

BeginCreate(c, q) ==
  /\ ~ Taken(q) /\ HasParent(q)
  /\ Begin(c, "create", [NoJob EXCEPT !.dst = q])
  /\ UNCHANGED <<place, from>>

MakeFolder(c, i) ==
  /\ pc[c] = "create"
  /\ i \in Folders /\ CanCreate(i, job[c].dst)
  /\ place' = [place EXCEPT ![i] = job[c].dst]
  /\ answered' = answered \cup {i}
  /\ Made(c, {i})
  /\ Return(c)
  /\ UNCHANGED <<from, leads, storeVars>>

CreateFile(c, i) ==
  /\ pc[c] = "create"
  /\ i \in Files /\ CanCreate(i, job[c].dst)
  /\ place' = [place EXCEPT ![i] = job[c].dst]
  /\ pc' = [pc EXCEPT ![c] = "write"]
  /\ job' = [job EXCEPT ![c].own = {i}]
  /\ Made(c, {i})
  /\ UNCHANGED <<from, answered, leads, storeVars>>

CreateFails(c) ==
  /\ pc[c] = "create"
  /\ Taken(job[c].dst) \/ ~ HasParent(job[c].dst)
  /\ Return(c)
  /\ UNCHANGED <<place, from, history, storeVars>>

Answer(c) ==
  /\ answered' = answered \cup job[c].own
  /\ Return(c)
  /\ UNCHANGED <<place, from, excused, leads, storeVars>>

WriteFile(c) == pc[c] = "write" /\ Answer(c)

(* os.Remove(dest): whatever is there, unless it is a folder in use.       *)
WriteFails(c) ==
  /\ pc[c] = "write"
  /\ place' = IF Children(job[c].dst) = {} THEN Removed(At(job[c].dst)) ELSE place
  /\ Return(c)
  /\ UNCHANGED <<from, history, storeVars>>

(* A chunked upload that completes (UploadManager): the temporary file     *)
(* next to the destination is renamed over it.                             *)
BeginPublish(c, q) ==
  /\ ~ Taken(q) /\ HasParent(q)
  /\ Begin(c, "publish", [NoJob EXCEPT !.dst = q, !.own = Parent(q)])
  /\ UNCHANGED <<place, from>>

Publish(c, i) ==
  LET q == job[c].dst
  IN /\ pc[c] = "publish"
     /\ i \in Files /\ place[i] = Nowhere
     /\ At(q) \subseteq Files /\ Parent(q) = job[c].own
     /\ place' = [Removed(At(q)) EXCEPT ![i] = q]
     /\ answered' = answered \cup {i}
     /\ Made(c, {i})
     /\ Return(c)
     /\ UNCHANGED <<from, leads, storeVars>>

PublishFails(c) ==
  /\ pc[c] = "publish"
  /\ Return(c)
  /\ UNCHANGED <<place, from, history, storeVars>>

-----------------------------------------------------------------------------
(* copy into another folder and duplicate, to a name that is free.         *)

CopyTo(c, p, q) ==
  /\ Taken(p) /\ ~ Taken(q)
  /\ \E i \in At(p) :
       Begin(c, "copy", [NoJob EXCEPT !.src = p, !.dst = q, !.item = i])
  /\ UNCHANGED <<place, from>>

BeginCopy(c, p, q) ==
  /\ Front(p) # Front(q) /\ HasParent(q)
  /\ ~ IsPrefix(p, q)
  /\ CopyTo(c, p, q)

BeginDuplicate(c, p, q) ==
  /\ Front(p) = Front(q)
  /\ CopyTo(c, p, q)

SameKind(i, k) == i \in Files <=> k \in Files

(* One more file or folder i of the copy, like k, at q.                    *)
CopyOne(c, i, k, q, left) ==
  /\ SameKind(i, k) /\ CanCreate(i, q)
  /\ place' = [place EXCEPT ![i] = q]
  /\ pc' = [pc EXCEPT ![c] = "fill"]
  /\ job' = [job EXCEPT ![c].own = @ \cup {i}, ![c].left = left]
  /\ Made(c, {i})
  /\ UNCHANGED <<from, answered, leads, storeVars>>

CopyTop(c, i) ==
  /\ pc[c] = "copy"
  /\ Taken(job[c].src)
  /\ CopyOne(c, i, job[c].item, job[c].dst,
             {Last(place[k]) : k \in Children(job[c].src)})

CopyChild(c, i, n) ==
  /\ pc[c] = "fill" /\ n \in job[c].left
  /\ \E k \in At(Append(job[c].src, n)) :
       CopyOne(c, i, k, Append(job[c].dst, n), job[c].left \ {n})

CopyDone(c) == pc[c] = "fill" /\ job[c].left = {} /\ Answer(c)

(* The source is gone, the name was taken, a limit or the disk is full.    *)
CopyFails(c) ==
  /\ pc[c] \in {"copy", "fill"}
  /\ Goto(c, "clean")
  /\ UNCHANGED <<place, from, history, storeVars>>

(* os.RemoveAll(newAbs) after a failed copy.                               *)
CleanUp(c) ==
  /\ pc[c] = "clean"
  /\ place' = Removed(Under(job[c].dst))
  /\ Return(c)
  /\ UNCHANGED <<from, history, storeVars>>

-----------------------------------------------------------------------------
(* Shares: create looks at the path first, and takes s.mu after.           *)

BeginShare(c, p) ==
  /\ \E i \in At(p) : Begin(c, "share", [NoJob EXCEPT !.src = p, !.item = i])
  /\ UNCHANGED <<place, from>>

CreateShare(c, t, ok) ==
  /\ pc[c] = "share"
  /\ Store!Create(t, job[c].src, ok)
  /\ leads' = [leads EXCEPT ![t] = job[c].item]
  /\ Made(c, {t})
  /\ Return(c)
  /\ UNCHANGED <<place, from, answered>>

CreateShareFails(c) ==
  /\ pc[c] = "share"
  /\ Return(c)
  /\ UNCHANGED <<place, from, history, storeVars>>

RevokeShare ==
  /\ \E t \in Tokens, ok \in BOOLEAN : Store!Revoke(t, ok)
  /\ UNCHANGED <<place, from, pc, job, history>>

(* The server dies and starts again: the archive stays as it is, shares    *)
(* are read from their file.  Excused are the shares whose last save       *)
(* failed, and what a handler was cut off from finishing.                  *)
CutOff(c) ==
  IF pc[c] \in {"rewrite", "undo", "unshare"} THEN Touched(job[c]) ELSE {}

Restart ==
  /\ Store!Restart
  /\ excused' = excused \cup {t \in Tokens : mem[t] # disk[t]}
                        \cup UNION {CutOff(c) : c \in Callers}
  /\ pc' = [c \in Callers |-> IF pc[c] = "new" THEN "new" ELSE "done"]
  /\ job' = [c \in Callers |-> NoJob]
  /\ UNCHANGED <<place, from, answered, leads>>

-----------------------------------------------------------------------------
(* At the start there is an archive, and shares may lead to its items.     *)

IsTree ==
  /\ \A i, k \in Items : place[i] = place[k] /\ place[i] \in Paths => i = k
  /\ \A i \in Items : place[i] \in Paths =>
       \A a \in Prefixes(place[i]) \ {<< >>, place[i]} : At(a) \cap Folders # {}

Shared(t) == IF leads[t] = Nobody THEN NoShare ELSE Store!NewShare(place[leads[t]])

Init ==
  /\ place \in Start /\ IsTree
  /\ from = [i \in Items |-> NoPath]
  /\ pc = [c \in Callers |-> "new"]
  /\ job = [c \in Callers |-> NoJob]
  /\ answered = {i \in Items : place[i] # Nowhere}
  /\ excused = {}
  /\ leads \in [Tokens -> answered \cup {Nobody}]
  /\ mem = [t \in Tokens |-> Shared(t)]
  /\ disk = mem
  /\ lapsed = {}
  /\ told = [t \in Tokens |-> IF leads[t] = Nobody THEN "unused" ELSE "created"]

Step(c) ==
  \/ \E p, q \in Paths : BeginRename(c, p, q)
  \/ \E p, q \in Paths : BeginMove(c, p, q)
  \/ Move(c)
  \/ \E ok \in BOOLEAN : RewriteShares(c, ok)
  \/ \E p \in Paths : BeginDelete(c, p)
  \/ \E i \in Items, ok \in BOOLEAN : MoveToTrash(c, i, ok)
  \/ MoveToTrashFails(c)
  \/ UndoTrash(c)
  \/ \E ok \in BOOLEAN : RemoveShares(c, ok)
  \/ \E i \in Items, k \in Folders \cup {Nobody} : BeginRestore(c, i, k)
  \/ Restore(c)
  \/ \E q \in Paths : BeginCreate(c, q)
  \/ \E i \in Items : MakeFolder(c, i)
  \/ \E i \in Items : CreateFile(c, i)
  \/ CreateFails(c)
  \/ WriteFile(c)
  \/ WriteFails(c)
  \/ \E q \in Paths : BeginPublish(c, q)
  \/ \E i \in Items : Publish(c, i)
  \/ PublishFails(c)
  \/ \E p, q \in Paths : BeginCopy(c, p, q)
  \/ \E p, q \in Paths : BeginDuplicate(c, p, q)
  \/ \E i \in Items : CopyTop(c, i)
  \/ \E i \in Items : \E n \in job[c].left : CopyChild(c, i, n)
  \/ CopyDone(c)
  \/ CopyFails(c)
  \/ CleanUp(c)
  \/ \E p \in Paths : BeginShare(c, p)
  \/ \E t \in Tokens, ok \in BOOLEAN : CreateShare(c, t, ok)
  \/ CreateShareFails(c)

Next ==
  \/ \E c \in Callers : Step(c)
  \/ \E i \in Items : Purge(i)
  \/ RevokeShare
  \/ Restart

Spec == Init /\ [][Next]_vars

-----------------------------------------------------------------------------
(* Properties.                                                             *)

(* Where the items are that went to the trash as i or below it.            *)
InTrash(i) ==
  {TrashPlace(i)} \cup {TrashPlace(i) \o SubSeq(p, 2, Len(p)) : p \in Paths}

(* Variables have their shapes, and whatever handlers do to each other the *)
(* archive stays a tree: one item in a place, and only in a folder.        *)
TypeOK ==
  /\ place \in [Items -> Paths \cup {Nowhere, Gone} \cup UNION {InTrash(i) : i \in Items}]
  /\ IsTree
  /\ from \in [Items -> Paths \cup {NoPath}]
  /\ pc \in [Callers -> {"new", "done", "move", "rewrite", "trash", "undo", "unshare",
                         "restore", "create", "write", "publish", "copy",
                         "fill", "clean", "share"}]
  /\ answered \subseteq Items /\ excused \subseteq Items \cup Tokens
  /\ leads \in [Tokens -> Items \cup {Nobody}]
  /\ Store!TypeOK

(* A share leads to the item it was made for, wherever that was renamed or *)
(* moved to, and to nothing else; while the handler that moved the item is *)
(* on its way to the share store, it leads nowhere.                        *)
SharesLeadHome ==
  \A t \in Store!Live(mem) \ excused :
    \/ place[leads[t]] = mem[t].path
    \/ \E c \in Callers : /\ pc[c] \in {"rewrite", "undo", "unshare"}
                          /\ IsPrefix(job[c].src, mem[t].path)
                          /\ ~ Taken(mem[t].path)

(* What a client was told is stored is in the archive or can be restored   *)
(* from the trash, until somebody purges it: no handler loses a file of    *)
(* somebody else, except in a race for one place (handlers.go:407, 593).   *)
Reachable(i) ==
  \/ place[i] \in Paths
  \/ \E k \in Items : from[k] # NoPath /\ IsPrefix(TrashPlace(k), place[i])
  \/ \E c \in Callers : pc[c] = "undo" /\ IsPrefix(TrashPlace(job[c].item), place[i])

AnsweredIsKept == \A i \in answered \ excused : Reachable(i)

(* copy.go:157: a copy goes to a name "that does not exist in dir".  The   *)
(* code can remove, after a failed copy, a file that another request put   *)
(* there: see README.md of this directory, findings.                       *)
CopyCleansOwn ==
  [][\A c \in Callers : CleanUp(c) => Under(job[c].dst) \cap answered \subseteq job[c].own]_vars
=============================================================================
