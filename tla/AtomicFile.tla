----------------------------- MODULE AtomicFile -----------------------------
(***************************************************************************)
(* writeFileAtomic (atomic.go): how every JSON file of the metadata folder *)
(* is replaced, by one writer at a time.                                   *)
(*                                                                         *)
(* A file is what a process reads from it (data) and what is on the disk   *)
(* (safe).  After a power failure a file that was not synced has one or    *)
(* the other, and a name whose folder was not synced may lead to the file  *)
(* it led to before.                                                       *)
(***************************************************************************)
CONSTANTS
  Values,     \* what is written
  Truncated,  \* the content of a file that is not completely written
  None

ASSUME TruncatedAssumption == Truncated \notin Values

VARIABLES
  path,  \* the file
  was,   \* files the name may lead to again after a power failure
  tmp,   \* path + ".tmp", or None
  step,  \* where the writer stands
  want   \* what it writes

fileVars == <<path, was, tmp, step, want>>

Stored(v) == [data |-> v, safe |-> v]
Created == Stored(Truncated)

FileInit(v) ==
  /\ path = Stored(v) /\ was = {} /\ tmp = None
  /\ step = "idle" /\ want = None

BeginWrite(v) ==
  /\ step = "idle"
  /\ step' = "open" /\ want' = v
  /\ UNCHANGED <<path, was, tmp>>

(* O_TRUNC: a leftover of a crash is no obstacle.                          *)
OpenTmp ==
  /\ step = "open"
  /\ tmp' = Created
  /\ step' = "write"
  /\ UNCHANGED <<path, was, want>>

OpenFails ==
  /\ step = "open"
  /\ step' = "failed"
  /\ UNCHANGED <<path, was, tmp, want>>

WriteTmp ==
  /\ step = "write"
  /\ tmp' = [tmp EXCEPT !.data = want]
  /\ step' = "sync"
  /\ UNCHANGED <<path, was, want>>

(* A faulty write without fsync.                                           *)
CloseTmp ==
  /\ step = "sync"
  /\ step' = "rename"
  /\ UNCHANGED <<path, was, tmp, want>>

SyncTmp ==
  /\ step = "sync"
  /\ tmp' = Stored(tmp.data)
  /\ step' = "rename"
  /\ UNCHANGED <<path, was, want>>

(* Write, Sync, Close or Rename fails: the temporary file is removed.      *)
WriteFails ==
  /\ step \in {"write", "sync", "rename"}
  /\ tmp' = None
  /\ step' = "failed"
  /\ UNCHANGED <<path, was, want>>

Rename ==
  /\ step = "rename"
  /\ path' = tmp /\ tmp' = None
  /\ was' = was \cup {path}
  /\ step' = "folder"
  /\ UNCHANGED want

(* The folder is synced if that works.                                     *)
SyncFolder(ok) ==
  /\ step = "folder"
  /\ was' = IF ok THEN {} ELSE was
  /\ step' = "done"
  /\ UNCHANGED <<path, tmp, want>>

EndWrite ==
  /\ step \in {"done", "failed"}
  /\ step' = "idle" /\ want' = None
  /\ UNCHANGED <<path, was, tmp>>

(* The process dies, the operating system lives on.                        *)
Crash ==
  /\ step' = "idle" /\ want' = None
  /\ UNCHANGED <<path, was, tmp>>

PowerFails(f, v) ==
  /\ f \in {path} \cup was /\ v \in {f.data, f.safe}
  /\ path' = Stored(v) /\ was' = {}
  /\ step' = "idle" /\ want' = None
  /\ UNCHANGED tmp

Writing ==
  \/ OpenTmp \/ OpenFails
  \/ WriteTmp \/ SyncTmp \/ WriteFails
  \/ Rename \/ \E ok \in BOOLEAN : SyncFolder(ok)

FileNext ==
  \/ \E v \in Values : BeginWrite(v)
  \/ Writing \/ EndWrite
  \/ Crash \/ \E f \in {path} \cup was : \E v \in {f.data, f.safe} : PowerFails(f, v)

FileSpec == (\E v \in Values : FileInit(v)) /\ [][FileNext]_fileVars

-----------------------------------------------------------------------------
(* "a crash mid-write cannot leave a truncated JSON file" (atomic.go:8),   *)
(* and neither can a power failure at any point.                           *)
NeverTruncated ==
  \A f \in {path} \cup was : f.data # Truncated /\ f.safe # Truncated
=============================================================================
