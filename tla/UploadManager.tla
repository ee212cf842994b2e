--------------------------- MODULE UploadManager ---------------------------
(***************************************************************************)
(* Chunked uploads, upload.go: the table of open uploads in memory, their  *)
(* scratch directories on disk, and the requests that work on them.        *)
(*                                                                         *)
(* A request is a small program of its own (pc) whose steps interleave     *)
(* with those of every other request: um.mu protects one look at the table *)
(* (one step here), sessMu of an activeUpload is held over many steps, and *)
(* the file system is shared by all.  RemoveAll of a scratch directory is  *)
(* one step per entry.  An activeUpload is an object on the heap: several  *)
(* requests may hold a pointer to it after the table has forgotten it.     *)
(*                                                                         *)
(* The bytes of a chunk are abstracted to its index and its length; an     *)
(* upload is whole when all its chunks are.  All uploads have one size.    *)
(* handleUploadChunk acquires the upload once by itself before writeChunk  *)
(* does: that first part is what a status request does, so a chunk request *)
(* is a status request followed by "chunk" here.  Temporary chunk files    *)
(* are left out: an incomplete one is never read.                          *)
(***************************************************************************)
EXTENDS UploadChunks

CONSTANTS
  Uploads,      \* upload ids (random, so an id is created once)
  Dests,        \* destination paths
  Dest,         \* Dest[u]: meta.Path joined with meta.Name
  Requests,     \* request slots: how many requests run at the same time
  Objects,      \* heap cells for activeUpload objects
  None,         \* a nil pointer, an absent value
  Free,         \* a destination where no file is
  Other,        \* a file that is no upload's, or that its upload has given up
  Left,         \* a temporary file whose request a crash has ended
  Ops,          \* the operations requests come for
  Aging,        \* the uploads that may outlive uploadSessionTTL
  Touched       \* which names other handlers touch: "final", "temp" or both

ASSUME DestAssumption == Dest \in [Uploads -> Dests]

ASSUME OpsAssumption == Ops \subseteq {"chunk", "complete", "status", "abort", "sweep"}

Cell == [got : SUBSET Chunks, aborted : BOOLEAN, holder : Requests \cup {None}]

Blank == [got |-> {}, aborted |-> FALSE, holder |-> None]

(* The content of a destination written by complete.                       *)
Published == [by : Uploads, parts : SUBSET Chunks]

ASSUME NothingAssumption ==
  /\ None \notin Requests \cup Objects \cup Uploads
  /\ {Free, Other, Left} \cap (Requests \cup {None}) = {}
  /\ Left # Other
  /\ ({Free, Other} \cup Requests) \cap Published = {}

VARIABLES
  used,    \* ids handed out by init
  dirs,    \* uploads whose scratch directory exists
  meta,    \* uploads whose meta.json exists
  chunks,  \* chunks[u]: the chunk_* files of u
  final,   \* final[d]: Free, Other, what complete published at d, or the
           \*   request that still copies into the file at d
  temp,    \* temp[d]: the file d + ".uploading": the request that created it
           \*   and copies into it, Left, Other, or None: no such file
  active,  \* um.active: the object of an upload, or None
  heap,    \* the activeUpload objects
  old,     \* uploads created more than uploadSessionTTL ago
  pc,      \* where each request stands
  job,     \* what each request does, and to which upload and chunk
  obj,     \* the object each request has a pointer to
  local,   \* chunks a request has scanned, or copied to its temporary file
  acked,   \* acked[u]: chunks a client was told are stored
  ended,   \* uploads published, or that a client asked to abort (history)
  doomed,  \* uploads whose removal has begun (history)
  robbed   \* destinations whose temporary file another handler has taken
           \*   from the request that copied into it (history)

vars == <<used, dirs, meta, chunks, final, temp, active, heap, old,
          pc, job, obj, local, acked, ended, doomed, robbed>>

names == <<final, temp, robbed>>
files == <<dirs, meta, chunks, names>>
history == <<acked, ended, doomed>>

NoJob == [op |-> "none", up |-> None, chunk |-> 1]

Init ==
  /\ used = {} /\ dirs = {} /\ meta = {} /\ old = {}
  /\ chunks = [u \in Uploads |-> {}]
  /\ final = [d \in Dests |-> Free]
  /\ temp = [d \in Dests |-> None]
  /\ active = [u \in Uploads |-> None]
  /\ heap = [o \in Objects |-> Blank]
  /\ pc = [r \in Requests |-> "idle"]
  /\ job = [r \in Requests |-> NoJob]
  /\ obj = [r \in Requests |-> None]
  /\ local = [r \in Requests |-> {}]
  /\ acked = [u \in Uploads |-> {}]
  /\ ended = {} /\ doomed = {} /\ robbed = {}

Up(r) == job[r].up
D(r) == Dest[Up(r)]

(* Objects somebody can reach: the table, or a running request.            *)
Reached(act, o) == {act[u] : u \in Uploads} \cup {o[r] : r \in Requests}

(* The heap becomes h; cells nobody reaches any more are collected.        *)
Collect(h) ==
  heap' = [o \in Objects |-> IF o \in Reached(active', obj') THEN h[o] ELSE Blank]

(* Request r goes on at step s, keeping its locals.                        *)
Goto(r, s) == pc' = [pc EXCEPT ![r] = s] /\ UNCHANGED job

(* Request r returns to its client and gives up its pointer and locals.    *)
Return(r) ==
  /\ pc' = [pc EXCEPT ![r] = "idle"]
  /\ job' = [job EXCEPT ![r] = NoJob]
  /\ obj' = [obj EXCEPT ![r] = None]
  /\ local' = [local EXCEPT ![r] = {}]

Lock(r) == [heap EXCEPT ![obj[r]].holder = r]
Unlock(r) == [heap EXCEPT ![obj[r]].holder = None]

(* Request r releases sessMu and returns.                                  *)
UnlockAndReturn(r) ==
  /\ Return(r)
  /\ UNCHANGED active
  /\ Collect(Unlock(r))

-----------------------------------------------------------------------------
(* init: the destination is free, the directory and meta.json are written, *)
(* the object enters the table.  Nobody knows the id before it returns, so *)
(* this is one step; the sweep it ends with is a request of its own.       *)
InitUpload(u, o) ==
  /\ u \notin used
  /\ final[Dest[u]] = Free
  /\ o \notin Reached(active, obj)
  /\ used' = used \cup {u}
  /\ dirs' = dirs \cup {u}
  /\ meta' = meta \cup {u}
  /\ active' = [active EXCEPT ![u] = o]
  /\ UNCHANGED <<chunks, names, old, pc, job, obj, local, history>>
  /\ Collect(heap)

(* A request arrives.  "sweep" is reapExpired at work on one directory.    *)
Arrive(r, op, u, i) ==
  /\ pc[r] = "idle"
  /\ u \in used
  /\ op # "chunk" => i = 1
  /\ pc' = [pc EXCEPT ![r] = IF op \in {"abort", "sweep"} THEN op ELSE "lookup"]
  /\ job' = [job EXCEPT ![r] = [op |-> op, up |-> u, chunk |-> i]]
  /\ ended' = IF op = "abort" THEN ended \cup {u} ELSE ended
  /\ UNCHANGED <<used, files, active, heap, old, obj, local, acked, doomed>>

(* os.RemoveAll(sessionDir(u)) begins: one pass over the entries.          *)
BeginWipe(r) ==
  /\ doomed' = doomed \cup {Up(r)}
  /\ local' = [local EXCEPT ![r] = Chunks]
  /\ Goto(r, "wipe")

(* Take the upload out of the table and begin to remove its directory.     *)
Forget(r) ==
  /\ active' = [active EXCEPT ![Up(r)] = None]
  /\ BeginWipe(r)

(* acquire, under um.mu for the first time.                                *)
LookupExpired(r) ==
  /\ pc[r] = "lookup"
  /\ active[Up(r)] # None
  /\ Up(r) \in old
  /\ Forget(r)
  /\ UNCHANGED <<used, files, old, obj, acked, ended>>
  /\ Collect(heap)

LookupFound(r) ==
  /\ pc[r] = "lookup"
  /\ active[Up(r)] # None
  /\ Up(r) \notin old
  /\ obj' = [obj EXCEPT ![r] = active[Up(r)]]
  /\ Goto(r, "enter")
  /\ UNCHANGED <<used, files, active, heap, old, local, history>>

LookupMissed(r) ==
  /\ pc[r] = "lookup"
  /\ active[Up(r)] = None
  /\ Goto(r, "load")
  /\ UNCHANGED <<used, files, active, heap, old, obj, local, history>>

(* acquire, without the mutex: read meta.json, then look for chunk files.  *)
LoadFails(r) ==
  /\ pc[r] = "load"
  /\ Up(r) \notin meta
  /\ Return(r)
  /\ UNCHANGED <<used, files, active, heap, old, history>>

LoadExpired(r) ==
  /\ pc[r] = "load"
  /\ Up(r) \in meta \cap old
  /\ BeginWipe(r)
  /\ UNCHANGED <<used, files, active, heap, old, obj, acked, ended>>

Load(r) ==
  /\ pc[r] = "load"
  /\ Up(r) \in meta \ old
  /\ local' = [local EXCEPT ![r] = chunks[Up(r)]]
  /\ Goto(r, "insert")
  /\ UNCHANGED <<used, files, active, heap, old, obj, history>>

(* A faulty acquire that installs what it loaded without looking again.    *)
InsertBlindly(r, o) ==
  /\ pc[r] = "insert"
  /\ o \notin Reached(active, obj)
  /\ active' = [active EXCEPT ![Up(r)] = o]
  /\ heap' = [heap EXCEPT ![o].got = local[r]]
  /\ obj' = [obj EXCEPT ![r] = o]
  /\ local' = [local EXCEPT ![r] = {}]
  /\ Goto(r, "enter")
  /\ UNCHANGED <<used, files, old, history>>

(* acquire, under um.mu again: whoever came first wins.                    *)
Insert(r, o) ==
  /\ pc[r] = "insert"
  /\ IF active[Up(r)] # None
     THEN /\ o = active[Up(r)]
          /\ UNCHANGED <<active, heap>>
     ELSE /\ o \notin Reached(active, obj)
          /\ active' = [active EXCEPT ![Up(r)] = o]
          /\ heap' = [heap EXCEPT ![o].got = local[r]]
  /\ obj' = [obj EXCEPT ![r] = o]
  /\ local' = [local EXCEPT ![r] = {}]
  /\ Goto(r, "enter")
  /\ UNCHANGED <<used, files, old, history>>

-----------------------------------------------------------------------------
(* The three operations that take sessMu.                                  *)

Entering(r, op) ==
  pc[r] = "enter" /\ job[r].op = op /\ heap[obj[r]].holder = None

(* status reads the object under sessMu and answers.                       *)
Status(r) ==
  /\ Entering(r, "status")
  /\ Return(r)
  /\ UNCHANGED <<used, files, active, old, history>>
  /\ Collect(heap)

(* writeChunk and complete find the object aborted.                        *)
EnterAborted(r) ==
  /\ Entering(r, "chunk") \/ Entering(r, "complete")
  /\ heap[obj[r]].aborted
  /\ Return(r)
  /\ UNCHANGED <<used, files, active, old, history>>
  /\ Collect(heap)

EnterChunk(r) ==
  /\ Entering(r, "chunk")
  /\ ~ heap[obj[r]].aborted
  /\ heap' = Lock(r)
  /\ Goto(r, "write")
  /\ UNCHANGED <<used, files, active, old, obj, local, history>>

(* writeChunk: the body has the expected length, chunk_i.tmp is renamed.   *)
WriteChunk(r) ==
  /\ pc[r] = "write"
  /\ Up(r) \in dirs
  /\ Slice(job[r].chunk) = Expected(job[r].chunk)
  /\ chunks' = [chunks EXCEPT ![Up(r)] = @ \cup {job[r].chunk}]
  /\ Goto(r, "mark")
  /\ UNCHANGED <<used, dirs, meta, names, active, heap, old, obj, local, history>>

(* The body is short or too slow, the disk is full, or the directory gone. *)
WriteChunkFails(r) ==
  /\ pc[r] = "write"
  /\ UnlockAndReturn(r)
  /\ UNCHANGED <<used, files, old, history>>

MarkReceived(r) ==
  /\ pc[r] = "mark"
  /\ acked' = [acked EXCEPT ![Up(r)] = @ \cup {job[r].chunk}]
  /\ Return(r)
  /\ UNCHANGED <<used, files, active, old, ended, doomed>>
  /\ Collect([heap EXCEPT ![obj[r]].got = @ \cup {job[r].chunk},
                          ![obj[r]].holder = None])

(* complete: some chunk is missing.                                        *)
EnterIncomplete(r) ==
  /\ Entering(r, "complete")
  /\ ~ heap[obj[r]].aborted
  /\ heap[obj[r]].got # Chunks
  /\ Return(r)
  /\ UNCHANGED <<used, files, active, old, history>>
  /\ Collect(heap)

EnterComplete(r) ==
  /\ Entering(r, "complete")
  /\ ~ heap[obj[r]].aborted
  /\ heap[obj[r]].got = Chunks
  /\ heap' = Lock(r)
  /\ Goto(r, "stat")
  /\ UNCHANGED <<used, files, active, old, obj, local, history>>

(* A faulty early return that keeps sessMu.                                *)
CompleteRefusedLocked(r) ==
  /\ pc[r] \in {"stat", "open"}
  /\ Return(r)
  /\ UNCHANGED <<used, files, active, heap, old, history>>

(* complete returns early: the folder is gone, the name is taken, or the   *)
(* temporary file exists or cannot be created.                             *)
CompleteRefused(r) ==
  /\ pc[r] \in {"stat", "open"}
  /\ UnlockAndReturn(r)
  /\ UNCHANGED <<used, files, old, history>>

(* complete: os.Stat finds no file at the destination.                     *)
DestFree(r) ==
  /\ pc[r] = "stat"
  /\ final[D(r)] = Free
  /\ Goto(r, "open")
  /\ UNCHANGED <<used, files, active, heap, old, obj, local, history>>

(* A faulty open without O_EXCL.                                           *)
OpenTempShared(r) ==
  /\ pc[r] = "open"
  /\ temp' = [temp EXCEPT ![D(r)] = r]
  /\ Goto(r, "assemble")
  /\ UNCHANGED <<used, dirs, meta, chunks, final, robbed, active, heap, old, obj,
                 local, history>>

(* complete: O_EXCL, the temporary file is created by one request only.    *)
OpenTemp(r) ==
  /\ pc[r] = "open"
  /\ temp[D(r)] = None
  /\ temp' = [temp EXCEPT ![D(r)] = r]
  /\ Goto(r, "assemble")
  /\ UNCHANGED <<used, dirs, meta, chunks, final, robbed, active, heap, old, obj,
                 local, history>>

(* complete: copy the next chunk.                                          *)
NextChunk(r) == Cardinality(local[r]) + 1

Assemble(r) ==
  /\ pc[r] = "assemble"
  /\ NextChunk(r) \in chunks[Up(r)]
  /\ local' = [local EXCEPT ![r] = @ \cup {NextChunk(r)}]
  /\ Goto(r, "assemble")
  /\ UNCHANGED <<used, files, active, heap, old, obj, history>>

(* Request r closes its file: if it is at a destination by now, as another *)
(* request or a handler has left it there, it is what was copied so far.   *)
Closed(r) ==
  [d \in Dests |-> IF final[d] = r THEN [by |-> Up(r), parts |-> local[r]] ELSE final[d]]

(* A chunk file is gone, a copy fails, or the final rename fails.  What is *)
(* at the temporary name is removed, whoever put it there; the error of    *)
(* that removal is ignored, and the file stays.                            *)
AssembleFails(r) ==
  /\ pc[r] = "assemble"
  /\ \E left \in {None, IF temp[D(r)] = r THEN Other ELSE temp[D(r)]} :
       temp' = [temp EXCEPT ![D(r)] = left]
  /\ final' = Closed(r)
  /\ UnlockAndReturn(r)
  /\ UNCHANGED <<used, dirs, meta, chunks, robbed, old, history>>

(* complete: os.Rename moves what is at the temporary name over whatever   *)
(* is at the destination, and the client is told that its upload is done.  *)
Renamed(r) ==
  /\ pc[r] = "assemble"
  /\ temp[D(r)] # None
  /\ final' = [final EXCEPT ![D(r)] =
                 IF temp[D(r)] = r THEN [by |-> Up(r), parts |-> local[r]]
                 ELSE IF temp[D(r)] \in Requests THEN temp[D(r)] ELSE Other]
  /\ temp' = [temp EXCEPT ![D(r)] = None]
  /\ ended' = ended \cup {Up(r)}
  /\ local' = [local EXCEPT ![r] = {}]
  /\ Goto(r, "retire")
  /\ UNCHANGED <<used, dirs, meta, chunks, robbed, active, heap, old, obj, acked, doomed>>

(* A faulty complete that does not look at the error of the assembly.      *)
PublishUnchecked(r) == Renamed(r)

(* complete: all chunks are copied and the size is right.                  *)
Publish(r) ==
  /\ local[r] = Chunks /\ Copied[Cardinality(local[r])] = Size
  /\ Renamed(r)

(* complete: flag the object, drop the id from the table.                  *)
Retire(r) ==
  /\ pc[r] = "retire"
  /\ Forget(r)
  /\ UNCHANGED <<used, files, old, obj, acked, ended>>
  /\ Collect([heap EXCEPT ![obj[r]].aborted = TRUE])

-----------------------------------------------------------------------------
(* abort: the id leaves the table first, the object is flagged after.      *)

AbortUnknown(r) ==
  /\ pc[r] = "abort"
  /\ active[Up(r)] = None
  /\ Up(r) \notin dirs
  /\ Return(r)
  /\ UNCHANGED <<used, files, active, heap, old, history>>

AbortOnDisk(r) ==
  /\ pc[r] = "abort"
  /\ active[Up(r)] = None
  /\ Up(r) \in dirs
  /\ BeginWipe(r)
  /\ UNCHANGED <<used, files, active, heap, old, obj, acked, ended>>

AbortActive(r) ==
  /\ pc[r] = "abort"
  /\ active[Up(r)] # None
  /\ active' = [active EXCEPT ![Up(r)] = None]
  /\ obj' = [obj EXCEPT ![r] = active[Up(r)]]
  /\ doomed' = doomed \cup {Up(r)}
  /\ Goto(r, "flag")
  /\ UNCHANGED <<used, files, heap, old, local, acked, ended>>

FlagAborted(r) ==
  /\ pc[r] = "flag"
  /\ heap[obj[r]].holder = None
  /\ obj' = [obj EXCEPT ![r] = None]
  /\ BeginWipe(r)
  /\ UNCHANGED <<used, files, active, old, acked, ended>>
  /\ Collect([heap EXCEPT ![obj[r]].aborted = TRUE])

(* A faulty sweep that does not look at the age of the directory.          *)
SweepEarly(r) ==
  /\ pc[r] = "sweep"
  /\ Up(r) \in dirs
  /\ Forget(r)
  /\ UNCHANGED <<used, files, old, obj, acked, ended>>
  /\ Collect(heap)

(* reapExpired finds a directory past its time.                            *)
Sweep(r) ==
  /\ pc[r] = "sweep"
  /\ Up(r) \in dirs \cap old
  /\ Forget(r)
  /\ UNCHANGED <<used, files, old, obj, acked, ended>>
  /\ Collect(heap)

(* It is younger, or meta.json is gone and the directory changed lately,   *)
(* or meta.json cannot be parsed.                                          *)
SweepKeeps(r) ==
  /\ pc[r] = "sweep"
  /\ Up(r) \notin dirs \cap meta \cap old
  /\ Return(r)
  /\ UNCHANGED <<used, files, active, heap, old, history>>

-----------------------------------------------------------------------------
(* os.RemoveAll of the scratch directory, one entry at a time.             *)

WipeMeta(r) ==
  /\ pc[r] = "wipe"
  /\ meta' = meta \ {Up(r)}
  /\ meta' # meta
  /\ Goto(r, "wipe")
  /\ UNCHANGED <<used, dirs, chunks, names, active, heap, old, obj, local, history>>

WipeChunk(r, i) ==
  /\ pc[r] = "wipe"
  /\ i \in local[r]
  /\ chunks' = [chunks EXCEPT ![Up(r)] = @ \ {i}]
  /\ local' = [local EXCEPT ![r] = @ \ {i}]
  /\ Goto(r, "wipe")
  /\ UNCHANGED <<used, dirs, meta, names, active, heap, old, obj, history>>

(* The request returns; complete still holds sessMu here and releases it.  *)
ReturnFromWipe(r) ==
  /\ pc[r] = "wipe"
  /\ IF obj[r] # None
     THEN UnlockAndReturn(r)
     ELSE Return(r) /\ UNCHANGED <<active, heap>>
  /\ UNCHANGED <<used, meta, chunks, names, old, history>>

(* A faulty removal of the directory with meta.json still in it.           *)
WipeDoneEarly(r) ==
  /\ ReturnFromWipe(r)
  /\ dirs' = dirs \ {Up(r)}

(* The pass is over: the directory goes, unless a chunk came back.         *)
WipeDone(r) ==
  /\ ReturnFromWipe(r)
  /\ local[r] = {}
  /\ Up(r) \notin meta
  /\ dirs' = IF chunks[Up(r)] = {} THEN dirs \ {Up(r)} ELSE dirs

(* RemoveAll gives up; whatever it left stays until the next sweep.        *)
WipeFails(r) ==
  /\ ReturnFromWipe(r)
  /\ UNCHANGED dirs

-----------------------------------------------------------------------------
(* The clock, other handlers, and the process.                             *)

Age(u) ==
  /\ u \in used \cap Aging
  /\ old' = old \cup {u}
  /\ UNCHANGED <<used, files, active, heap, pc, job, obj, local, history>>

(* The other handlers (upload, mkdir, copy, move, rename, delete, trash)   *)
(* create and take away what has a destination's name or the temporary one *)
(* beside it: both are names of the archive like any other.  A rename of   *)
(* the folder takes both away, one after the other here.                   *)
ElsewhereUnchanged ==
  UNCHANGED <<used, dirs, meta, chunks, active, heap, old, pc, job, obj, local, history>>

Occupy(d) ==
  /\ "final" \in Touched
  /\ final[d] = Free
  /\ final' = [final EXCEPT ![d] = Other]
  /\ UNCHANGED <<temp, robbed>>
  /\ ElsewhereUnchanged

Vacate(d) ==
  /\ "final" \in Touched
  /\ final[d] # Free
  /\ final' = [final EXCEPT ![d] = Free]
  /\ UNCHANGED <<temp, robbed>>
  /\ ElsewhereUnchanged

PutTemp(d) ==
  /\ "temp" \in Touched
  /\ temp[d] = None
  /\ temp' = [temp EXCEPT ![d] = Other]
  /\ UNCHANGED <<final, robbed>>
  /\ ElsewhereUnchanged

TakeTemp(d) ==
  /\ "temp" \in Touched
  /\ temp[d] # None
  /\ temp' = [temp EXCEPT ![d] = None]
  /\ robbed' = IF temp[d] \in Requests THEN robbed \cup {d} ELSE robbed
  /\ UNCHANGED final
  /\ ElsewhereUnchanged

(* The process dies and starts again with an empty table; files stay.      *)
Restart ==
  /\ active' = [u \in Uploads |-> None]
  /\ heap' = [o \in Objects |-> Blank]
  /\ pc' = [r \in Requests |-> "idle"]
  /\ job' = [r \in Requests |-> NoJob]
  /\ obj' = [r \in Requests |-> None]
  /\ local' = [r \in Requests |-> {}]
  /\ temp' = [d \in Dests |-> IF temp[d] \in Requests THEN Left ELSE temp[d]]
  /\ final' = [d \in Dests |-> IF final[d] \in Requests THEN Closed(final[d])[d] ELSE final[d]]
  /\ UNCHANGED <<used, dirs, meta, chunks, robbed, old, history>>

-----------------------------------------------------------------------------
(* The steps of one request, once it has arrived.                          *)
Step(r) ==
  \/ LookupExpired(r) \/ LookupFound(r) \/ LookupMissed(r)
  \/ LoadFails(r) \/ LoadExpired(r) \/ Load(r)
  \/ \E o \in Objects : Insert(r, o)
  \/ Status(r) \/ EnterAborted(r)
  \/ EnterChunk(r) \/ WriteChunk(r) \/ WriteChunkFails(r) \/ MarkReceived(r)
  \/ EnterIncomplete(r) \/ EnterComplete(r)
  \/ CompleteRefused(r) \/ DestFree(r) \/ OpenTemp(r)
  \/ Assemble(r) \/ AssembleFails(r) \/ Publish(r) \/ Retire(r)
  \/ AbortUnknown(r) \/ AbortOnDisk(r) \/ AbortActive(r) \/ FlagAborted(r)
  \/ Sweep(r) \/ SweepKeeps(r)
  \/ WipeMeta(r) \/ (\E i \in Chunks : WipeChunk(r, i)) \/ WipeDone(r) \/ WipeFails(r)

Next ==
  \/ \E u \in Uploads, o \in Objects : InitUpload(u, o)
  \/ \E r \in Requests, op \in Ops, u \in Uploads, i \in Chunks : Arrive(r, op, u, i)
  \/ \E r \in Requests : Step(r)
  \/ \E u \in Uploads : Age(u)
  \/ \E d \in Dests : Occupy(d) \/ Vacate(d) \/ PutTemp(d) \/ TakeTemp(d)
  \/ Restart

Spec == Init /\ [][Next]_vars

(* The runtime keeps running every request that can run, and hands sessMu  *)
(* to a waiter that has waited long (sync.Mutex starvation mode): strong   *)
(* fairness, because others may take the mutex in between.  A body that    *)
(* stalls is cut by ReadTimeout (main.go:244), which is WriteChunkFails.   *)
FairSpec == Spec /\ \A r \in Requests : SF_vars(Step(r))

-----------------------------------------------------------------------------
(* Properties.                                                             *)

Ref(S) == S \cup {None}

(* Every variable has its shape.                                           *)
TypeOK ==
  /\ used \subseteq Uploads /\ dirs \subseteq used /\ meta \subseteq dirs
  /\ old \subseteq used /\ ended \subseteq used /\ doomed \subseteq used
  /\ chunks \in [Uploads -> SUBSET Chunks]
  /\ acked \in [Uploads -> SUBSET Chunks]
  /\ final \in [Dests -> {Free, Other} \cup Published \cup Requests]
  /\ temp \in [Dests -> Requests \cup {None, Other, Left}]
  /\ robbed \subseteq Dests
  /\ active \in [Uploads -> Ref(Objects)]
  /\ heap \in [Objects -> Cell]
  /\ pc \in [Requests -> {"idle", "lookup", "load", "insert", "enter", "write",
                          "mark", "stat", "open", "assemble", "retire",
                          "abort", "flag", "sweep", "wipe"}]
  /\ job \in [Requests -> [op : Ops \cup {"none"}, up : Ref(Uploads), chunk : Chunks]]
  /\ obj \in [Requests -> Ref(Objects)]
  /\ local \in [Requests -> SUBSET Chunks]
  /\ \A r \in Requests : pc[r] # "idle" => Up(r) \in used

(* src/README.md:160, "finished chunks are skipped": until the removal of  *)
(* an upload begins, a chunk a client was told is stored is on disk, and   *)
(* the object the server answers from knows it, across racing requests     *)
(* that reload the upload and across restarts; and it knows no chunk that  *)
(* is not there.                                                           *)
FinishedChunksKept ==
  \A u \in used \ doomed :
    /\ acked[u] \subseteq chunks[u]
    /\ active[u] # None =>
         /\ acked[u] \subseteq heap[active[u]].got
         /\ heap[active[u]].got \subseteq chunks[u]

(* upload.go:36, as far as it holds: until the removal of an upload begins *)
(* at most one request is between Lock and Unlock of its sessMu, because   *)
(* they all have the object of the table.                                  *)
InSession(r) ==
  \/ pc[r] \in {"write", "mark", "stat", "open", "assemble", "retire"}
  \/ pc[r] = "wipe" /\ obj[r] # None

SerializedWhileOpen ==
  \A r, s \in Requests :
    InSession(r) /\ InSession(s) /\ Up(r) = Up(s) /\ Up(r) \notin doomed => r = s

(* upload.go:364-401: whatever removes chunks under a running complete and *)
(* whoever else completes to the same name, the file that appears there is *)
(* whole and nobody writes to it any more; a crash leaves no part of it.   *)
(* The temporary file has a name of the archive, and a handler that takes  *)
(* it from its request breaks this (robbed): another complete creates the  *)
(* name again, and the first one renames that half-written file.           *)
PublishedIsWhole ==
  \A d \in Dests \ robbed :
    /\ final[d] \notin Requests
    /\ final[d] \in Published => final[d].parts = Chunks

(* upload.go:398-407: complete answers that the upload is done and removes *)
(* its chunks only in a step that has put exactly these chunks, not those  *)
(* of another upload, under the name; but for a temporary file another     *)
(* handler has taken.                                                      *)
DoneIsPublished ==
  [][\A r \in Requests : pc[r] = "assemble" /\ pc'[r] = "retire" /\ D(r) \notin robbed =>
       final'[D(r)] = [by |-> Up(r), parts |-> Chunks]]_vars

(* An upload that is neither published, aborted nor expired can be resumed *)
(* with all its finished chunks: no failure of another request, no restart *)
(* and no sweep begins to remove its directory.                            *)
OpenIsResumable ==
  \A u \in used \ (ended \cup old) : u \in meta /\ acked[u] \subseteq chunks[u]

(* What the browser sends is what the server waits for, and what complete  *)
(* has copied at the end has the declared size: no upload is refused for   *)
(* its size, be it empty or with a short chunk at the end (upload.go:233,  *)
(* 289-298, 387).                                                          *)
NoChunkIsRefused ==
  \A r \in Requests :
    /\ pc[r] = "write" => Slice(job[r].chunk) = Expected(job[r].chunk)
    /\ pc[r] = "assemble" /\ local[r] = Chunks => Copied[Cardinality(local[r])] = Size

(* No request waits for ever: sessMu is released on every path, and no two *)
(* requests wait for each other.                                           *)
RequestsReturn == \A r \in Requests : pc[r] # "idle" ~> pc[r] = "idle"

-----------------------------------------------------------------------------
(* What the comments and messages of the code say, and the code does not   *)
(* always do: see the findings in README.md of this directory.             *)

(* src/README.md:160: an interrupted upload can be finished later: but for *)
(* a file that somebody put there or that could not be removed, nothing    *)
(* but another running complete makes the temporary name unavailable.      *)
TempOnlyWhileAssembling ==
  \A r \in Requests : pc[r] = "open" /\ temp[D(r)] \notin {None, Other} =>
    \E s \in Requests : pc[s] = "assemble" /\ D(s) = D(r)
=============================================================================
