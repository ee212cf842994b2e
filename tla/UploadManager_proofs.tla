------------------------ MODULE UploadManager_proofs ------------------------
(***************************************************************************)
(* Proofs about UploadManager and the arithmetic of its chunks, for every  *)
(* size of a file and of a chunk and any sets of uploads and requests.     *)
(*                                                                         *)
(* A request keeps its pointer to an activeUpload over many steps, while   *)
(* others take the upload out of the table, put it back as a new object or *)
(* remove its files.  The inductive invariant says when the pointer of a   *)
(* request is still the one of the table, who holds sessMu of which        *)
(* object, and what a removal that has begun was begun for.                *)
(***************************************************************************)
EXTENDS UploadManager, FiniteSetTheorems, WellFoundedInduction, TLAPS

-----------------------------------------------------------------------------
(* How a file is cut.                                                      *)

LEMMA Division ==
  ASSUME NEW a \in Nat, NEW c \in Nat \ {0}
  PROVE  (a \div c) \in Nat /\ (a \div c) * c <= a /\ a < (a \div c) * c + c
OBVIOUS

(* The last chunk begins inside the file, or at 0 for an empty one, and is *)
(* not longer than the others.                                             *)
LEMMA LastChunkFits ==
  /\ TotalChunks \in Nat \ {0}
  /\ (TotalChunks - 1) * ChunkSize <= Size
  /\ Size <= TotalChunks * ChunkSize
  /\ Size # 0 => (TotalChunks - 1) * ChunkSize < Size
<1>1. CASE Size = 0
  BY <1>1, SizesAssumption DEF TotalChunks
<1>2. CASE Size # 0
  <2> DEFINE q == (Size + ChunkSize - 1) \div ChunkSize
  <2>1. TotalChunks = q BY <1>2 DEF TotalChunks
  <2>2. Size + ChunkSize - 1 \in Nat BY SizesAssumption
  <2>3. q \in Nat /\ q * ChunkSize <= Size + ChunkSize - 1
          /\ Size + ChunkSize - 1 < q * ChunkSize + ChunkSize
    BY <2>2, Division, SizesAssumption
  <2> HIDE DEF q
  <2>4. (q - 1) * ChunkSize = q * ChunkSize - ChunkSize /\ q * ChunkSize \in Int
    BY <2>3, SizesAssumption
  <2>5. (q - 1) * ChunkSize < Size /\ Size <= q * ChunkSize
    BY <2>3, <2>4, SizesAssumption
  <2>6. q # 0
    <3>1. 0 * ChunkSize = 0 BY SizesAssumption
    <3> QED BY <2>5, <3>1, <1>2, SizesAssumption
  <2> QED BY <2>1, <2>3, <2>4, <2>5, <2>6, SizesAssumption
<1> QED BY <1>1, <1>2

(* Every chunk but the last lies in the file as a whole.                   *)
LEMMA FullChunkFits ==
  ASSUME NEW i \in Chunks, i # TotalChunks
  PROVE  i * ChunkSize <= Size
<1>1. i \in Nat /\ i <= TotalChunks - 1
  BY LastChunkFits DEF Chunks
<1>2. i * ChunkSize <= (TotalChunks - 1) * ChunkSize
  BY <1>1, LastChunkFits, SizesAssumption
<1> QED
  BY <1>1, <1>2, LastChunkFits, SizesAssumption

(* No chunk the browser cuts (layout.html:1259-1260) is refused for its    *)
(* size (upload.go:289-298), whatever the size of the file and of a chunk, *)
(* and none of them is empty but the one chunk of an empty file.           *)
THEOREM NoSliceIsRefused ==
  \A i \in Chunks :
    /\ Slice(i) = Expected(i)
    /\ Expected(i) \in 0 .. ChunkSize
    /\ Size # 0 => Expected(i) > 0
<1> SUFFICES ASSUME NEW i \in Chunks
             PROVE  /\ Slice(i) = Expected(i)
                    /\ Expected(i) \in 0 .. ChunkSize
                    /\ Size # 0 => Expected(i) > 0
  OBVIOUS
<1>0. i \in Nat BY LastChunkFits DEF Chunks
<1>1. (i - 1) * ChunkSize + ChunkSize = i * ChunkSize
      /\ (i - 1) * ChunkSize \in Int /\ i * ChunkSize \in Int
  BY <1>0, SizesAssumption
<1>2. CASE i = TotalChunks
  <2>1. Expected(i) = Size - (i - 1) * ChunkSize BY <1>2 DEF Expected
  <2>2. (i - 1) * ChunkSize <= Size /\ Size <= i * ChunkSize
        /\ (Size # 0 => (i - 1) * ChunkSize < Size)
    BY <1>2, LastChunkFits
  <2>3. Slice(i) = Size - (i - 1) * ChunkSize
    BY <1>1, <2>2, SizesAssumption DEF Slice
  <2> QED BY <1>1, <2>1, <2>2, <2>3, SizesAssumption
<1>3. CASE i # TotalChunks
  <2>1. Expected(i) = ChunkSize BY <1>3 DEF Expected
  <2>2. i * ChunkSize <= Size BY <1>3, FullChunkFits
  <2>3. Slice(i) = ChunkSize
    BY <1>1, <2>2, SizesAssumption DEF Slice
  <2> QED BY <2>1, <2>3, SizesAssumption
<1> QED BY <1>2, <1>3

(* Induction over the numbers, as a fact about sets of them.               *)
LEMMA LeastNumber ==
  ASSUME NEW T \in SUBSET Nat, T # {}
  PROVE  \E n \in T : \A m \in T : n <= m
<1>1. PICK n \in T : \A m \in T : ~ (<<m, n>> \in OpToRel(<, Nat))
  BY NatLessThanWellFounded, WFMin
<1>2. \A m \in T : ~ (m < n)
  BY <1>1, Zenon DEF OpToRel
<1> QED BY <1>2

LEMMA Induction ==
  ASSUME NEW S, 0 \in S, \A n \in Nat : n \in S => n + 1 \in S
  PROVE  Nat \subseteq S
<1> SUFFICES ASSUME Nat \ S # {} PROVE FALSE
  OBVIOUS
<1>1. PICK n \in Nat \ S : \A m \in Nat \ S : n <= m
  BY LeastNumber
<1>2. n # 0 /\ n - 1 \in Nat /\ n - 1 \in S /\ (n - 1) + 1 = n
  BY <1>1
<1> QED BY <1>1, <1>2


(* What complete has counted after n chunks, without recursion.            *)
CopiedUpTo ==
  [n \in Nat |-> IF n < TotalChunks THEN n * ChunkSize
                 ELSE Size + (n - TotalChunks) * ChunkSize]

LEMMA CopiedUpToCounts ==
  CopiedUpTo = [n \in Nat |-> IF n = 0 THEN 0 ELSE CopiedUpTo[n - 1] + Expected(n)]
<1> DEFINE g == CopiedUpTo
           t == TotalChunks
<1>0. t \in Nat \ {0} /\ ChunkSize \in Nat /\ Size \in Nat
  BY LastChunkFits, SizesAssumption
<1>1. \A n \in Nat : g[n] = IF n < t THEN n * ChunkSize ELSE Size + (n - t) * ChunkSize
  BY DEF CopiedUpTo
<1>2. g[0] = 0
  <2>1. 0 < t /\ 0 * ChunkSize = 0 BY <1>0
  <2> QED BY <1>1, <2>1
<1> HIDE DEF g
<1>3. ASSUME NEW n \in Nat, n # 0 PROVE g[n] = g[n - 1] + Expected(n)
  <2>0. n - 1 \in Nat BY <1>3
  <2>1. CASE n < t
    <3>1. g[n] = n * ChunkSize /\ g[n - 1] = (n - 1) * ChunkSize BY <1>0, <1>1, <2>0, <2>1
    <3>2. Expected(n) = ChunkSize BY <1>0, <2>1 DEF Expected
    <3>3. n * ChunkSize = (n - 1) * ChunkSize + ChunkSize BY <1>0
    <3> QED BY <3>1, <3>2, <3>3
  <2>2. CASE n = t
    <3>1. g[n - 1] = (n - 1) * ChunkSize BY <1>0, <1>1, <2>0, <2>2
    <3>2. g[n] = Size
      <4>1. ~ (n < t) /\ (n - t) * ChunkSize = 0 BY <1>0, <2>2
      <4> QED BY <1>0, <1>1, <4>1
    <3>3. Expected(n) = Size - (n - 1) * ChunkSize BY <2>2 DEF Expected
    <3>4. (n - 1) * ChunkSize \in Int BY <1>0
    <3> QED BY <1>0, <3>1, <3>2, <3>3, <3>4
  <2>3. CASE n > t
    <3>1. ~ (n < t) /\ ~ (n - 1 < t) BY <1>0, <2>3
    <3>2. g[n] = Size + (n - t) * ChunkSize /\ g[n - 1] = Size + (n - 1 - t) * ChunkSize
      BY <1>1, <2>0, <3>1
    <3>3. Expected(n) = ChunkSize BY <1>0, <2>3 DEF Expected
    <3>4. (n - t) * ChunkSize = (n - 1 - t) * ChunkSize + ChunkSize
          /\ (n - 1 - t) * ChunkSize \in Int
      BY <1>0
    <3> QED BY <1>0, <3>2, <3>3, <3>4
  <2> QED BY <1>0, <2>1, <2>2, <2>3
<1>4. \A n \in Nat : g[n] = IF n = 0 THEN 0 ELSE g[n - 1] + Expected(n)
  BY <1>2, <1>3
<1>5. g = [n \in Nat |-> g[n]] BY DEF g, CopiedUpTo
<1> QED BY <1>4, <1>5 DEF g

LEMMA CopiedCounts ==
  Copied = [n \in Nat |-> IF n = 0 THEN 0 ELSE Copied[n - 1] + Expected(n)]
<1>1. Copied = CHOOSE f : f = [n \in Nat |-> IF n = 0 THEN 0 ELSE f[n - 1] + Expected(n)]
  BY DEF Copied
<1> QED BY <1>1, CopiedUpToCounts

LEMMA CopiedIs == \A n \in Nat : Copied[n] = CopiedUpTo[n]
<1> DEFINE S == {n \in Nat : Copied[n] = CopiedUpTo[n]}
<1>1. \A n \in Nat : Copied[n] = IF n = 0 THEN 0 ELSE Copied[n - 1] + Expected(n)
  BY CopiedCounts
<1>2. \A n \in Nat : CopiedUpTo[n] = IF n = 0 THEN 0 ELSE CopiedUpTo[n - 1] + Expected(n)
  BY CopiedUpToCounts
<1>3. 0 \in S BY <1>1, <1>2
<1>4. ASSUME NEW n \in Nat, n \in S PROVE n + 1 \in S
  <2>1. n + 1 \in Nat /\ n + 1 # 0 /\ (n + 1) - 1 = n OBVIOUS
  <2>2. Copied[n + 1] = Copied[n] + Expected(n + 1) BY <1>1, <2>1
  <2>3. CopiedUpTo[n + 1] = CopiedUpTo[n] + Expected(n + 1) BY <1>2, <2>1
  <2> QED BY <1>4, <2>1, <2>2, <2>3
<1> HIDE DEF S
<1>5. Nat \subseteq S BY <1>3, <1>4, Induction
<1> QED BY <1>5 DEF S

(* With all chunks complete has the size it was promised (upload.go:387).  *)
THEOREM ChunksMakeTheFile ==
  Copied[Cardinality(Chunks)] = Size
<1>1. TotalChunks \in Nat /\ Cardinality(Chunks) = TotalChunks
  BY LastChunkFits, FS_Interval DEF Chunks
<1>2. CopiedUpTo[TotalChunks] = Size
  <2>1. (TotalChunks - TotalChunks) * ChunkSize = 0 BY <1>1, SizesAssumption
  <2> QED BY <1>1, <2>1, SizesAssumption DEF CopiedUpTo
<1> QED BY <1>1, <1>2, CopiedIs

-----------------------------------------------------------------------------
(* The invariant.                                                          *)

(* A file that a request copies into is at the temporary name of its       *)
(* destination, or at the destination, and only until it has finished.     *)
WritersAssemble ==
  \A d \in Dests :
    /\ temp[d] \in Requests => pc[temp[d]] = "assemble" /\ D(temp[d]) = d
    /\ final[d] \in Requests => pc[final[d]] = "assemble" /\ D(final[d]) = d

(* The temporary file of a destination is that of its assembler, unless    *)
(* another handler has taken that away.                                    *)
AssemblerOwns ==
  \A r \in Requests : pc[r] = "assemble" => temp[D(r)] = r \/ D(r) \in robbed

WithObject == {"enter", "write", "mark", "stat", "open", "assemble", "retire", "flag"}

(* A request has a pointer from the table look-up on, and until it returns *)
(* or has flagged the object it aborts.                                    *)
PointersSet ==
  \A r \in Requests :
    /\ pc[r] \in WithObject => obj[r] \in Objects
    /\ pc[r] \notin WithObject \cup {"wipe"} => obj[r] = None

(* An object belongs to one upload, for the table and for every request.   *)
ObjectsOfOne ==
  /\ \A u, v \in Uploads : active[u] # None /\ active[u] = active[v] => u = v
  /\ \A r \in Requests, u \in Uploads : obj[r] # None /\ obj[r] = active[u] => Up(r) = u
  /\ \A r, s \in Requests : obj[r] # None /\ obj[r] = obj[s] => Up(r) = Up(s)

CollectedIsBlank == \A o \in Objects : o \notin Reached(active, obj) => heap[o] = Blank

(* Between Lock and Unlock a request is the holder.                        *)
HolderIsInside == \A r \in Requests : InSession(r) => heap[obj[r]].holder = r

(* Until the removal of the upload begins, the object is that of the table.*)
SameObject ==
  \A r \in Requests : pc[r] \in WithObject \ {"flag"} /\ Up(r) \notin doomed =>
    obj[r] = active[Up(r)]

(* Removals begin for a reason, and only they take meta.json away.         *)
DoomedHasCause ==
  /\ doomed \subseteq ended \cup old
  /\ \A r \in Requests : /\ pc[r] \in {"abort", "retire"} => Up(r) \in ended
                         /\ pc[r] \in {"wipe", "flag"} => Up(r) \in doomed
  /\ used \ doomed \subseteq meta

(* What a request knows of the chunks of an upload it is about to change.  *)
ChunksKnown ==
  /\ \A u \in Uploads \ used : acked[u] = {}
  /\ \A r \in Requests : Up(r) \notin doomed =>
       /\ pc[r] = "mark" => job[r].chunk \in chunks[Up(r)]
       /\ pc[r] = "insert" =>
            /\ local[r] \subseteq chunks[Up(r)]
            /\ active[Up(r)] = None => acked[Up(r)] \subseteq local[r]

IInv ==
  /\ TypeOK
  /\ WritersAssemble /\ AssemblerOwns /\ PublishedIsWhole
  /\ PointersSet /\ ObjectsOfOne /\ CollectedIsBlank
  /\ HolderIsInside /\ SameObject
  /\ DoomedHasCause
  /\ ChunksKnown /\ FinishedChunksKept

-----------------------------------------------------------------------------
(* What one step of a request does, whichever it is.                       *)

Controls == {"idle", "lookup", "load", "insert", "enter", "write", "mark", "stat",
             "open", "assemble", "retire", "abort", "flag", "sweep", "wipe"}

(* Request r works for itself, and keeps its job until it returns.         *)
Alone(r) ==
  /\ \A s \in Requests \ {r} : /\ pc'[s] = pc[s] /\ job'[s] = job[s]
                               /\ obj'[s] = obj[s] /\ local'[s] = local[s]
  /\ job'[r] = IF pc'[r] = "idle" THEN NoJob ELSE job[r]
  /\ pc[r] # "idle" /\ pc'[r] \in Controls
  /\ used' = used /\ old' = old

(* Where a step of the program can come from.                              *)
Flow(r) ==
  /\ pc'[r] \notin {"lookup", "abort", "sweep"}
  /\ pc'[r] = "load" => pc[r] = "lookup"
  /\ pc'[r] = "insert" => pc[r] = "load"
  /\ pc'[r] = "enter" => pc[r] \in {"lookup", "insert"}
  /\ pc'[r] \in {"write", "stat"} => pc[r] = "enter"
  /\ pc'[r] = "mark" => pc[r] = "write"
  /\ pc'[r] = "open" => pc[r] = "stat"
  /\ pc'[r] = "assemble" => pc[r] \in {"open", "assemble"}
  /\ pc'[r] = "retire" => pc[r] = "assemble"
  /\ pc'[r] = "flag" => pc[r] = "abort"
  /\ pc'[r] = "wipe" => pc[r] \in {"lookup", "load", "retire", "abort", "flag", "sweep", "wipe"}
  /\ pc[r] = "insert" => pc'[r] = "enter"

Look(r) ==
  \/ LookupExpired(r) \/ LookupFound(r) \/ LookupMissed(r)
  \/ LoadFails(r) \/ LoadExpired(r) \/ Load(r)
  \/ \E o \in Objects : Insert(r, o)

Write(r) ==
  \/ Status(r) \/ EnterAborted(r)
  \/ EnterChunk(r) \/ WriteChunk(r) \/ WriteChunkFails(r) \/ MarkReceived(r)

Complete(r) ==
  \/ EnterIncomplete(r) \/ EnterComplete(r)
  \/ CompleteRefused(r) \/ DestFree(r) \/ OpenTemp(r)
  \/ Assemble(r) \/ AssembleFails(r) \/ Publish(r) \/ Retire(r)

Remove(r) ==
  \/ AbortUnknown(r) \/ AbortOnDisk(r) \/ AbortActive(r) \/ FlagAborted(r)
  \/ Sweep(r) \/ SweepKeeps(r)
  \/ WipeMeta(r) \/ (\E i \in Chunks : WipeChunk(r, i)) \/ WipeDone(r) \/ WipeFails(r)

LEMMA StepParts == ASSUME NEW r \in Requests, Step(r)
                   PROVE  Look(r) \/ Write(r) \/ Complete(r) \/ Remove(r)
BY DEF Step, Look, Write, Complete, Remove

LEMMA StepAlone ==
  ASSUME TypeOK, NEW r \in Requests, Step(r)
  PROVE  Alone(r) /\ Flow(r)
<1> USE DEF TypeOK, Alone, Flow, Controls, Goto, Return, NoJob
<1>1. CASE Look(r)
  BY <1>1 DEF Look, LookupExpired, LookupFound, LookupMissed, LoadFails, LoadExpired, Load,
              Insert, Forget, BeginWipe
<1>2. CASE Write(r)
  BY <1>2 DEF Write, Status, EnterAborted, EnterChunk, WriteChunk, WriteChunkFails,
              MarkReceived, Entering, UnlockAndReturn
<1>3. CASE Complete(r)
  BY <1>3 DEF Complete, EnterIncomplete, EnterComplete, CompleteRefused, DestFree, OpenTemp,
              Assemble, AssembleFails, Publish, Renamed, Retire, Entering, UnlockAndReturn, Forget, BeginWipe
<1>4. CASE Remove(r)
  BY <1>4 DEF Remove, AbortUnknown, AbortOnDisk, AbortActive, FlagAborted, Sweep, SweepKeeps,
              WipeMeta, WipeChunk, WipeDone, WipeFails, ReturnFromWipe, UnlockAndReturn,
              Forget, BeginWipe
<1> QED BY <1>1, <1>2, <1>3, <1>4, StepParts

(* Where a request gets its pointer from, and when it gives it up.         *)
Pointer(r) ==
  obj'[r] = IF pc'[r] = "idle" \/ pc[r] = "flag" THEN None
            ELSE IF (pc[r] = "lookup" /\ pc'[r] = "enter") \/ pc'[r] = "flag" THEN active[Up(r)]
            ELSE IF pc[r] = "insert" THEN active'[Up(r)]
            ELSE obj[r]

(* The entry of its upload in the table is all a request changes there: it *)
(* takes it out when a removal begins, or puts in a new object.            *)
Table(r) ==
  /\ \A u \in Uploads \ {Up(r)} : active'[u] = active[u]
  /\ (pc[r] = "lookup" /\ pc'[r] = "enter") \/ pc'[r] = "flag" => active[Up(r)] # None
  /\ \/ active'[Up(r)] = active[Up(r)]
     \/ active'[Up(r)] = None /\ Up(r) \in doomed'
     \/ /\ pc[r] = "insert" /\ active[Up(r)] = None
        /\ active'[Up(r)] \in Objects \ Reached(active, obj)
  /\ pc[r] = "insert" => active'[Up(r)] \in Objects /\ (active[Up(r)] # None => active' = active)
  /\ pc[r] = "lookup" /\ pc'[r] = "enter" => active'[Up(r)] = active[Up(r)]

(* Removals begin for uploads that are ended or old.                       *)
Doom(r) ==
  /\ doomed \subseteq doomed' /\ doomed' \subseteq doomed \cup {Up(r)}
  /\ ended \subseteq ended' /\ ended' \subseteq ended \cup {Up(r)}
  /\ pc'[r] \in {"wipe", "flag"} => Up(r) \in doomed'
  /\ pc'[r] = "retire" => Up(r) \in ended'
  /\ Up(r) \in doomed' => Up(r) \in doomed \cup ended' \cup old
  /\ meta' \subseteq meta /\ meta \ {Up(r)} \subseteq meta'
  /\ Up(r) \notin doomed => meta' = meta

LEMMA StepPointer ==
  ASSUME TypeOK, PointersSet, NEW r \in Requests, Step(r)
  PROVE  Pointer(r)
<1> USE DEF TypeOK, PointersSet, WithObject, Pointer, Goto, Return, NoJob, Ref
<1>0. Up(r) \in Uploads BY StepAlone DEF Alone
<1>1. CASE Look(r)
  BY <1>0, <1>1 DEF Look, LookupExpired, LookupFound, LookupMissed, LoadFails, LoadExpired,
              Load, Insert, Forget, BeginWipe
<1>2. CASE Write(r)
  BY <1>0, <1>2 DEF Write, Status, EnterAborted, EnterChunk, WriteChunk, WriteChunkFails,
              MarkReceived, Entering, UnlockAndReturn
<1>3. CASE Complete(r)
  BY <1>0, <1>3 DEF Complete, EnterIncomplete, EnterComplete, CompleteRefused, DestFree, OpenTemp,
              Assemble, AssembleFails, Publish, Renamed, Retire, Entering, UnlockAndReturn, Forget, BeginWipe
<1>4. CASE Remove(r)
  BY <1>0, <1>4 DEF Remove, AbortUnknown, AbortOnDisk, AbortActive, FlagAborted, Sweep, SweepKeeps,
              WipeMeta, WipeChunk, WipeDone, WipeFails, ReturnFromWipe, UnlockAndReturn,
              Forget, BeginWipe
<1> QED BY <1>1, <1>2, <1>3, <1>4, StepParts

LEMMA StepTable ==
  ASSUME TypeOK, PointersSet, NEW r \in Requests, Step(r)
  PROVE  Table(r)
<1> USE DEF TypeOK, PointersSet, WithObject, Table, Goto, Return, NoJob, Ref
<1>0. Up(r) \in Uploads BY StepAlone DEF Alone
<1>1. CASE Look(r)
  BY <1>0, <1>1 DEF Look, LookupExpired, LookupFound, LookupMissed, LoadFails, LoadExpired,
              Load, Insert, Forget, BeginWipe
<1>2. CASE Write(r)
  BY <1>0, <1>2 DEF Write, Status, EnterAborted, EnterChunk, WriteChunk, WriteChunkFails,
              MarkReceived, Entering, UnlockAndReturn
<1>3. CASE Complete(r)
  BY <1>0, <1>3 DEF Complete, EnterIncomplete, EnterComplete, CompleteRefused, DestFree, OpenTemp,
              Assemble, AssembleFails, Publish, Renamed, Retire, Entering, UnlockAndReturn, Forget, BeginWipe
<1>4. CASE Remove(r)
  BY <1>0, <1>4 DEF Remove, AbortUnknown, AbortOnDisk, AbortActive, FlagAborted, Sweep, SweepKeeps,
              WipeMeta, WipeChunk, WipeDone, WipeFails, ReturnFromWipe, UnlockAndReturn,
              Forget, BeginWipe
<1> QED BY <1>1, <1>2, <1>3, <1>4, StepParts

LEMMA StepDoom ==
  ASSUME TypeOK, DoomedHasCause, NEW r \in Requests, Step(r)
  PROVE  Doom(r)
<1> USE DEF TypeOK, DoomedHasCause, Doom, Goto, Return, files, names, history
<1>0. Up(r) \in Uploads BY StepAlone DEF Alone
<1>1. CASE Look(r)
  BY <1>0, <1>1 DEF Look, LookupExpired, LookupFound, LookupMissed, LoadFails, LoadExpired,
              Load, Insert, Forget, BeginWipe
<1>2. CASE Write(r)
  BY <1>0, <1>2 DEF Write, Status, EnterAborted, EnterChunk, WriteChunk, WriteChunkFails,
              MarkReceived, Entering, UnlockAndReturn
<1>3. CASE Complete(r)
  BY <1>0, <1>3 DEF Complete, EnterIncomplete, EnterComplete, CompleteRefused, DestFree, OpenTemp,
              Assemble, AssembleFails, Publish, Renamed, Retire, Entering, UnlockAndReturn, Forget, BeginWipe
<1>4. CASE Remove(r)
  BY <1>0, <1>4 DEF Remove, AbortUnknown, AbortOnDisk, AbortActive, FlagAborted, Sweep, SweepKeeps,
              WipeMeta, WipeChunk, WipeDone, WipeFails, ReturnFromWipe, UnlockAndReturn,
              Forget, BeginWipe
<1> QED BY <1>1, <1>2, <1>3, <1>4, StepParts

-----------------------------------------------------------------------------
(* The objects.                                                            *)

LEMMA CellFacts ==
  ASSUME heap \in [Objects -> Cell], NEW r, obj[r] \in Objects, NEW o \in Objects
  PROVE  /\ Lock(r)[o].got = heap[o].got
         /\ Lock(r)[o].holder = IF o = obj[r] THEN r ELSE heap[o].holder
         /\ Unlock(r)[o].got = heap[o].got
         /\ Unlock(r)[o].holder = IF o = obj[r] THEN None ELSE heap[o].holder
         /\ [heap EXCEPT ![obj[r]].aborted = TRUE][o].got = heap[o].got
         /\ [heap EXCEPT ![obj[r]].aborted = TRUE][o].holder = heap[o].holder
BY DEF Lock, Unlock, Cell

LEMMA MarkedFacts ==
  ASSUME heap \in [Objects -> Cell], NEW r, obj[r] \in Objects, NEW o \in Objects, NEW i,
         NEW h, h = [heap EXCEPT ![obj[r]].got = @ \cup {i}, ![obj[r]].holder = None]
  PROVE  /\ h[o].got = IF o = obj[r] THEN heap[o].got \cup {i} ELSE heap[o].got
         /\ h[o].holder = IF o = obj[r] THEN None ELSE heap[o].holder
BY DEF Cell

LEMMA InsertedFacts ==
  ASSUME heap \in [Objects -> Cell], NEW n \in Objects, NEW S, NEW o \in Objects
  PROVE  /\ [heap EXCEPT ![n].got = S][o].got = IF o = n THEN S ELSE heap[o].got
         /\ [heap EXCEPT ![n].got = S][o].holder = heap[o].holder
BY DEF Cell

(* Of the objects still in use, a step changes at most its own: it takes   *)
(* or releases sessMu, marks a chunk, or fills in the object it made.      *)
Objs(r) ==
  /\ \A o \in Reached(active', obj') \cap Objects :
       /\ heap'[o].got =
            IF pc[r] = "mark" /\ o = obj[r] THEN heap[o].got \cup {job[r].chunk}
            ELSE IF pc[r] = "insert" /\ active[Up(r)] = None /\ o = active'[Up(r)] THEN local[r]
            ELSE heap[o].got
       /\ heap'[o].holder =
            IF pc'[r] \in {"write", "stat"} /\ o = obj[r] THEN r
            ELSE IF InSession(r) /\ pc'[r] = "idle" /\ o = obj[r] THEN None
            ELSE heap[o].holder
  /\ pc'[r] \in {"write", "stat"} => heap[obj[r]].holder = None

(* What becomes of the heap, by the kind of the step.                      *)
HeapBecomes(h) == \A o \in Reached(active', obj') \cap Objects : heap'[o] = h[o]

Flagged(r) == [heap EXCEPT ![obj[r]].aborted = TRUE]

HeapKind(r) ==
  \/ /\ HeapBecomes(heap) \/ (pc[r] \in {"flag", "retire"} /\ HeapBecomes(Flagged(r)))
     /\ pc'[r] \notin {"write", "stat"} /\ pc[r] # "mark"
     /\ InSession(r) => pc'[r] # "idle"
     /\ pc[r] = "insert" => active[Up(r)] # None
  \/ /\ HeapBecomes(Lock(r)) /\ heap[obj[r]].holder = None
     /\ pc[r] = "enter" /\ pc'[r] \in {"write", "stat"}
  \/ /\ HeapBecomes(Unlock(r))
     /\ InSession(r) /\ pc[r] # "mark" /\ pc'[r] = "idle"
  \/ /\ HeapBecomes([heap EXCEPT ![obj[r]].got = @ \cup {job[r].chunk}, ![obj[r]].holder = None])
     /\ pc[r] = "mark" /\ pc'[r] = "idle"
  \/ /\ active'[Up(r)] \in Objects /\ active[Up(r)] = None
     /\ HeapBecomes([heap EXCEPT ![active'[Up(r)]].got = local[r]])
     /\ pc[r] = "insert" /\ pc'[r] = "enter"

LEMMA StepHeapKind ==
  ASSUME TypeOK, PointersSet, NEW r \in Requests, Step(r)
  PROVE  HeapKind(r)
<1> USE DEF PointersSet, WithObject, HeapKind, HeapBecomes, Collect, Goto, Return, InSession, Entering
<1>0. /\ Up(r) \in Uploads /\ pc \in [Requests -> Controls] /\ active \in [Uploads -> Ref(Objects)]
  BY StepAlone DEF Alone, TypeOK, Controls
<1>1. CASE Look(r)
  BY <1>0, <1>1 DEF Look, LookupExpired, LookupFound, LookupMissed, LoadFails, LoadExpired,
              Load, Insert, Forget, BeginWipe
<1>2. CASE Write(r)
  BY <1>0, <1>2 DEF Write, Status, EnterAborted, EnterChunk, WriteChunk, WriteChunkFails,
              MarkReceived, UnlockAndReturn
<1>3. CASE Complete(r)
  BY <1>0, <1>3 DEF Complete, EnterIncomplete, EnterComplete, CompleteRefused, DestFree,
              OpenTemp, Assemble, AssembleFails, Publish, Renamed, Retire, UnlockAndReturn,
              Forget, BeginWipe, Flagged
<1>4. CASE Remove(r)
  BY <1>0, <1>4 DEF Remove, AbortUnknown, AbortOnDisk, AbortActive, FlagAborted, Sweep,
              SweepKeeps, WipeMeta, WipeChunk, WipeDone, WipeFails, ReturnFromWipe,
              UnlockAndReturn, Forget, BeginWipe, Flagged
<1> QED BY <1>1, <1>2, <1>3, <1>4, StepParts

LEMMA StepObjects ==
  ASSUME TypeOK, PointersSet, NEW r \in Requests, Step(r)
  PROVE  Objs(r)
<1>0. heap \in [Objects -> Cell] /\ HeapKind(r) BY StepHeapKind DEF TypeOK
<1>1. InSession(r) \/ pc[r] \in {"enter", "flag", "retire", "mark"} => obj[r] \in Objects
  BY DEF InSession, PointersSet, WithObject, TypeOK, Ref
<1> USE DEF Objs, HeapBecomes
<1>2. CASE /\ HeapBecomes(heap) \/ (pc[r] \in {"flag", "retire"} /\ HeapBecomes(Flagged(r)))
           /\ pc'[r] \notin {"write", "stat"} /\ pc[r] # "mark"
           /\ InSession(r) => pc'[r] # "idle"
           /\ pc[r] = "insert" => active[Up(r)] # None
  <2>1. CASE HeapBecomes(heap)
    BY <1>2, <2>1
  <2>2. CASE pc[r] \in {"flag", "retire"} /\ HeapBecomes(Flagged(r))
    <3>1. \A o \in Objects : /\ Flagged(r)[o].got = heap[o].got
                             /\ Flagged(r)[o].holder = heap[o].holder
      BY <1>0, <1>1, <2>2, CellFacts DEF Flagged
    <3> QED BY <1>2, <2>2, <3>1
  <2> QED BY <1>2, <2>1, <2>2
<1>3. CASE /\ HeapBecomes(Lock(r)) /\ heap[obj[r]].holder = None
           /\ pc[r] = "enter" /\ pc'[r] \in {"write", "stat"}
  BY <1>0, <1>1, <1>3, CellFacts
<1>4. CASE /\ HeapBecomes(Unlock(r))
           /\ InSession(r) /\ pc[r] # "mark" /\ pc'[r] = "idle"
  <2>1. pc[r] # "insert" BY <1>4 DEF InSession
  <2> QED BY <1>0, <1>1, <1>4, <2>1, CellFacts
<1>5. CASE /\ HeapBecomes([heap EXCEPT ![obj[r]].got = @ \cup {job[r].chunk}, ![obj[r]].holder = None])
           /\ pc[r] = "mark" /\ pc'[r] = "idle"
  <2> DEFINE h == [heap EXCEPT ![obj[r]].got = @ \cup {job[r].chunk}, ![obj[r]].holder = None]
  <2>1. \A o \in Objects :
          /\ h[o].got = IF o = obj[r] THEN heap[o].got \cup {job[r].chunk} ELSE heap[o].got
          /\ h[o].holder = IF o = obj[r] THEN None ELSE heap[o].holder
    BY <1>0, <1>1, <1>5, MarkedFacts
  <2>2. HeapBecomes(h) BY <1>5
  <2>3. InSession(r) BY <1>5 DEF InSession
  <2> HIDE DEF h
  <2> QED BY <1>5, <2>1, <2>2, <2>3
<1>6. CASE /\ active'[Up(r)] \in Objects /\ active[Up(r)] = None
           /\ HeapBecomes([heap EXCEPT ![active'[Up(r)]].got = local[r]])
           /\ pc[r] = "insert" /\ pc'[r] = "enter"
  <2>1. PICK n \in Objects : n = active'[Up(r)] BY <1>6
  <2> DEFINE h == [heap EXCEPT ![n].got = local[r]]
  <2>2. \A o \in Objects : /\ h[o].got = IF o = n THEN local[r] ELSE heap[o].got
                           /\ h[o].holder = heap[o].holder
    BY <1>0, InsertedFacts
  <2>3. HeapBecomes(h) BY <1>6, <2>1
  <2> HIDE DEF h
  <2> QED BY <1>6, <2>1, <2>2, <2>3
<1> QED BY <1>0, <1>2, <1>3, <1>4, <1>5, <1>6 DEF HeapKind

(* Whoever does not collect loses no object: the request keeps its pointer *)
(* or had none, and what leaves the table stays with the request.          *)
LEMMA StillReached ==
  ASSUME TypeOK, NEW r \in Requests,
         \A s \in Requests \ {r} : obj'[s] = obj[s],
         obj[r] = None \/ obj'[r] = obj[r],
         \A u \in Uploads : active'[u] = active[u] \/ active[u] \in {None, obj'[r]},
         NEW o \in Objects, o \in Reached(active, obj)
  PROVE  o \in Reached(active', obj')
<1>0. o # None BY NothingAssumption
<1>1. CASE \E u \in Uploads : o = active[u]
  BY <1>0, <1>1 DEF Reached
<1>2. CASE \E s \in Requests : o = obj[s]
  BY <1>0, <1>2 DEF Reached
<1> QED BY <1>1, <1>2 DEF Reached

LEMMA StepCollects ==
  ASSUME TypeOK, PointersSet, CollectedIsBlank, NEW r \in Requests, Step(r)
  PROVE  CollectedIsBlank'
<1> USE DEF Goto, Return
<1>0. /\ Alone(r) /\ Pointer(r) /\ Table(r) /\ Up(r) \in Uploads
      /\ pc \in [Requests -> Controls] /\ obj \in [Requests -> Ref(Objects)]
      /\ active \in [Uploads -> Ref(Objects)]
  BY StepAlone, StepPointer, StepTable DEF Alone, TypeOK, Controls
<1> DEFINE Collected == \A o \in Objects \ Reached(active', obj') : heap'[o] = Blank
           Kept == /\ obj[r] = None \/ obj'[r] = obj[r]
                   /\ \A u \in Uploads : active'[u] = active[u] \/ active[u] \in {None, obj'[r]}
                   /\ \/ heap' = heap
                      \/ obj[r] \in Objects /\ heap' = Lock(r) /\ obj'[r] = obj[r]
                      \/ heap' = [heap EXCEPT ![obj'[r]].got = local[r]]
<1>1. ASSUME Look(r) PROVE Collected \/ Kept
  BY <1>0, <1>1 DEF Look, LookupExpired, LookupFound, LookupMissed, LoadFails, LoadExpired,
              Load, Insert, Forget, BeginWipe, Collect, PointersSet, WithObject
<1>2. ASSUME Write(r) PROVE Collected \/ Kept
  BY <1>0, <1>2 DEF Write, Status, EnterAborted, EnterChunk, WriteChunk, WriteChunkFails,
              MarkReceived, Entering, UnlockAndReturn, Collect, PointersSet, WithObject
<1>3. ASSUME Complete(r) PROVE Collected \/ Kept
  BY <1>0, <1>3 DEF Complete, EnterIncomplete, EnterComplete, CompleteRefused, DestFree,
              OpenTemp, Assemble, AssembleFails, Publish, Renamed, Retire, Entering, UnlockAndReturn,
              Forget, BeginWipe, Collect, PointersSet, WithObject
<1>4. ASSUME Remove(r) PROVE Collected \/ Kept
  BY <1>0, <1>4 DEF Remove, AbortUnknown, AbortOnDisk, AbortActive, FlagAborted, Sweep,
              SweepKeeps, WipeMeta, WipeChunk, WipeDone, WipeFails, ReturnFromWipe,
              UnlockAndReturn, Forget, BeginWipe, Collect, PointersSet, WithObject
<1>5. Collected \/ Kept
  BY <1>1, <1>2, <1>3, <1>4, StepParts
<1>6. CASE Collected
  BY <1>6 DEF CollectedIsBlank
<1>7. CASE Kept
  <2> SUFFICES ASSUME NEW o \in Objects, o \notin Reached(active', obj') PROVE heap'[o] = Blank
    BY DEF CollectedIsBlank
  <2>1. o \notin Reached(active, obj) BY <1>0, <1>7, StillReached DEF Alone
  <2>2. heap[o] = Blank BY <2>1 DEF CollectedIsBlank
  <2>3. o # obj'[r] BY DEF Reached
  <2> HIDE DEF CollectedIsBlank
  <2>4. heap'[o] = heap[o] BY <1>7, <2>3, NothingAssumption DEF Lock, TypeOK
  <2> QED BY <2>2, <2>4
<1> QED BY <1>5, <1>6, <1>7

-----------------------------------------------------------------------------
(* The parts of the invariant, for a step of a request.                    *)

LEMMA KeepsPointersSet ==
  ASSUME TypeOK, PointersSet, NEW r \in Requests, Step(r)
  PROVE  PointersSet'
<1>1. Alone(r) /\ Flow(r) /\ Pointer(r) /\ Table(r) BY StepAlone, StepPointer, StepTable
<1>2. /\ Up(r) \in Uploads /\ active[Up(r)] \in Ref(Objects) /\ obj[r] \in Ref(Objects)
  BY <1>1 DEF TypeOK, Alone
<1>3. /\ pc'[r] \in WithObject => obj'[r] \in Objects
      /\ pc'[r] \notin WithObject \cup {"wipe"} => obj'[r] = None
  <2>1. CASE pc[r] \in WithObject
    BY <1>1, <1>2, <2>1 DEF PointersSet, WithObject, Flow, Pointer, Table, Ref, Controls, Alone
  <2>2. CASE pc[r] = "insert"
    BY <1>1, <1>2, <2>2 DEF PointersSet, WithObject, Flow, Pointer, Table, Ref, Controls, Alone
  <2>3. CASE pc[r] \notin WithObject \cup {"insert"}
    BY <1>1, <1>2, <2>3 DEF PointersSet, WithObject, Flow, Pointer, Table, Ref, Controls, Alone
  <2> QED BY <2>1, <2>2, <2>3
<1> QED BY <1>1, <1>3 DEF PointersSet, Alone

(* No object gets a second upload: a pointer comes from the table entry of *)
(* the own upload, and a new object is one nobody has.                     *)
LEMMA KeepsObjectsOfOne ==
  ASSUME TypeOK, PointersSet, ObjectsOfOne, NEW r \in Requests, Step(r)
  PROVE  ObjectsOfOne'
<1>1. Alone(r) /\ Flow(r) /\ Pointer(r) /\ Table(r) BY StepAlone, StepPointer, StepTable
<1>2. PICK u \in Uploads : u = Up(r)
  BY <1>1 DEF Alone, TypeOK
<1>3. \A s \in Requests : obj'[s] # None => Up(s)' = Up(s)
  BY <1>1 DEF Alone, Pointer, Up
<1>4. /\ \A v \in Uploads \ {u} : active'[v] = active[v]
      /\ \A s \in Requests \ {r} : obj'[s] = obj[s]
  BY <1>1, <1>2 DEF Alone, Table
<1>5. CASE active'[u] \in {active[u], None}
  <2>1. obj'[r] \in {None, obj[r], active[u]}
    BY <1>1, <1>2, <1>5 DEF Pointer
  <2>2. \A v \in Uploads : active'[v] \in {None, active[v]}
    BY <1>4, <1>5
  <2> QED BY <1>2, <1>3, <1>4, <2>1, <2>2 DEF ObjectsOfOne
<1>6. CASE active'[u] \notin Reached(active, obj) /\ active'[u] \in Objects /\ pc[r] = "insert"
  <2>1. /\ \A v \in Uploads : active[v] # active'[u]
        /\ \A s \in Requests : obj[s] # active'[u]
    BY <1>6 DEF Reached
  <2>2. obj'[r] = active'[u]
    BY <1>1, <1>2, <1>6 DEF Pointer, Flow
  <2> QED BY <1>2, <1>3, <1>4, <2>1, <2>2 DEF ObjectsOfOne
<1> QED BY <1>1, <1>2, <1>5, <1>6 DEF Table

LEMMA KeepsSameObject ==
  ASSUME TypeOK, PointersSet, ObjectsOfOne, SameObject, DoomedHasCause,
         NEW r \in Requests, Step(r)
  PROVE  SameObject'
<1>1. Alone(r) /\ Flow(r) /\ Pointer(r) /\ Table(r) /\ Doom(r)
  BY StepAlone, StepPointer, StepTable, StepDoom
<1>2. PICK u \in Uploads : u = Up(r)
  BY <1>1 DEF Alone, TypeOK
<1>3. ASSUME NEW s \in Requests, pc'[s] \in WithObject \ {"flag"}, Up(s)' \notin doomed'
      PROVE  obj'[s] = active'[Up(s)']
  <2>1. Up(s)' = Up(s) /\ Up(s) \notin doomed
    BY <1>1, <1>3 DEF Alone, Up, Doom, WithObject
  <2>2. CASE s # r
    <3>1. /\ pc[s] \in WithObject \ {"flag"} /\ obj[s] = active[Up(s)] /\ obj'[s] = obj[s]
          /\ obj[s] \in Objects /\ Up(s) \in Uploads
      BY <1>1, <1>3, <2>1, <2>2 DEF Alone, SameObject, PointersSet, TypeOK, WithObject
    <3>2. active'[Up(s)] = active[Up(s)]
      BY <1>1, <1>2, <1>3, <2>1, <3>1, NothingAssumption DEF Table
    <3> QED BY <2>1, <3>1, <3>2
  <2>3. CASE s = r /\ pc[r] \in {"lookup", "insert"}
    BY <1>1, <1>3, <2>1, <2>3 DEF Pointer, Flow, WithObject, Table
  <2>4. CASE s = r /\ pc[r] \notin {"lookup", "insert"}
    <3>1. pc[r] \in WithObject \ {"flag"} /\ obj'[r] = obj[r]
      BY <1>1, <1>3, <2>4 DEF Pointer, Flow, WithObject
    <3>2. obj[r] = active[Up(r)] BY <2>1, <2>4, <3>1 DEF SameObject
    <3>3. active'[Up(r)] = active[Up(r)]
      BY <1>1, <1>3, <2>1, <2>4 DEF Table
    <3> QED BY <2>1, <2>4, <3>1, <3>2, <3>3
  <2> QED BY <2>2, <2>3, <2>4
<1> QED BY <1>3 DEF SameObject

(* sessMu of an object has one holder.                                     *)
LEMMA KeepsHolderIsInside ==
  ASSUME TypeOK, PointersSet, HolderIsInside, NEW r \in Requests, Step(r)
  PROVE  HolderIsInside'
<1>1. Alone(r) /\ Flow(r) /\ Pointer(r) /\ Objs(r) /\ PointersSet'
  BY StepAlone, StepPointer, StepObjects, KeepsPointersSet
<1>2. \A s \in Requests : obj'[s] \in Reached(active', obj') BY DEF Reached
<1>3. ASSUME NEW s \in Requests, s # r, InSession(s)'
      PROVE  heap'[obj'[s]].holder = s
  <2>1. InSession(s) /\ obj'[s] = obj[s] /\ heap[obj[s]].holder = s
    BY <1>1, <1>3 DEF Alone, InSession, HolderIsInside
  <2>2. obj[s] \in Objects BY <2>1 DEF InSession, PointersSet, WithObject, TypeOK, Ref
  <2>3. s # None BY NothingAssumption
  <2>4. obj[s] = obj[r] => ~ InSession(r) /\ pc'[r] \notin {"write", "stat"}
    BY <1>1, <1>3, <2>1, <2>3 DEF Objs, HolderIsInside
  <2> QED BY <1>1, <1>2, <2>1, <2>2, <2>4 DEF Objs
<1>4. ASSUME InSession(r)' PROVE heap'[obj'[r]].holder = r
  <2>1. obj'[r] \in Objects
    BY <1>4, <1>1 DEF InSession, Flow, Pointer, PointersSet, WithObject, TypeOK, Ref
  <2>2. CASE pc'[r] \in {"write", "stat"}
    BY <1>1, <1>2, <2>1, <2>2 DEF Objs, Flow, Pointer
  <2>3. CASE pc'[r] \notin {"write", "stat"}
    <3>1. InSession(r) /\ obj'[r] = obj[r]
      BY <1>1, <1>4, <2>3 DEF InSession, Flow, Pointer, PointersSet, WithObject
    <3>2. heap[obj[r]].holder = r BY <3>1 DEF HolderIsInside
    <3>3. pc'[r] # "idle" BY <1>4 DEF InSession
    <3> QED BY <1>1, <1>2, <2>1, <2>3, <3>1, <3>2, <3>3 DEF Objs
  <2> QED BY <2>2, <2>3
<1> QED BY <1>3, <1>4 DEF HolderIsInside

LEMMA KeepsDoomedHasCause ==
  ASSUME TypeOK, DoomedHasCause, NEW r \in Requests, Step(r)
  PROVE  DoomedHasCause'
<1>1. Alone(r) /\ Flow(r) /\ Doom(r) BY StepAlone, StepDoom
<1>2. doomed' \subseteq ended' \cup old' /\ used' \ doomed' \subseteq meta'
  BY <1>1 DEF Doom, Alone, DoomedHasCause
<1>3. ASSUME NEW s \in Requests
      PROVE  /\ pc'[s] \in {"abort", "retire"} => Up(s)' \in ended'
             /\ pc'[s] \in {"wipe", "flag"} => Up(s)' \in doomed'
  <2>1. CASE s # r
    BY <1>1, <2>1 DEF Doom, Alone, DoomedHasCause, Up
  <2>2. CASE s = r
    BY <1>1, <2>2 DEF Doom, Alone, Flow, Up
  <2> QED BY <2>1, <2>2
<1> QED BY <1>2, <1>3 DEF DoomedHasCause

(* A step of a request stores a chunk, acknowledges what is stored, or     *)
(* takes chunks of a doomed upload away.                                   *)
Stored(r) ==
  /\ \A u \in Uploads \ {Up(r)} : chunks'[u] = chunks[u] /\ acked'[u] = acked[u]
  /\ Up(r) \notin doomed => chunks[Up(r)] \subseteq chunks'[Up(r)]
  /\ acked'[Up(r)] = acked[Up(r)] \cup (IF pc[r] = "mark" THEN {job[r].chunk} ELSE {})
  /\ pc'[r] = "mark" => job[r].chunk \in chunks'[Up(r)]
  /\ pc'[r] = "insert" => local'[r] = chunks[Up(r)]

LEMMA StepStored ==
  ASSUME TypeOK, DoomedHasCause, NEW r \in Requests, Step(r)
  PROVE  Stored(r)
<1> USE DEF TypeOK, Stored, Goto, Return, files, names, history
<1>0. Up(r) \in Uploads /\ (pc[r] = "wipe" => Up(r) \in doomed)
  BY StepAlone DEF Alone, DoomedHasCause
<1>1. CASE Look(r)
  BY <1>0, <1>1 DEF Look, LookupExpired, LookupFound, LookupMissed, LoadFails, LoadExpired,
              Load, Insert, Forget, BeginWipe
<1>2. CASE Write(r)
  BY <1>0, <1>2 DEF Write, Status, EnterAborted, EnterChunk, WriteChunk, WriteChunkFails,
              MarkReceived, Entering, UnlockAndReturn
<1>3. CASE Complete(r)
  BY <1>0, <1>3 DEF Complete, EnterIncomplete, EnterComplete, CompleteRefused, DestFree, OpenTemp,
              Assemble, AssembleFails, Publish, Renamed, Retire, Entering, UnlockAndReturn, Forget, BeginWipe
<1>4. CASE Remove(r)
  BY <1>0, <1>4 DEF Remove, AbortUnknown, AbortOnDisk, AbortActive, FlagAborted, Sweep, SweepKeeps,
              WipeMeta, WipeChunk, WipeDone, WipeFails, ReturnFromWipe, UnlockAndReturn,
              Forget, BeginWipe
<1> QED BY <1>1, <1>2, <1>3, <1>4, StepParts

(* No chunk of an open upload goes away, and acknowledged ones were there. *)
LEMMA ChunksStay ==
  ASSUME TypeOK, DoomedHasCause, ChunksKnown, NEW r \in Requests, Step(r),
         NEW u \in Uploads, u \notin doomed
  PROVE  /\ chunks[u] \subseteq chunks'[u]
         /\ acked[u] \subseteq chunks[u] => acked'[u] \subseteq chunks'[u]
BY StepStored, StepAlone DEF Stored, ChunksKnown

LEMMA KeepsChunksKnown ==
  ASSUME IInv, NEW r \in Requests, Step(r)
  PROVE  ChunksKnown'
<1> USE DEF IInv
<1>1. Alone(r) /\ Flow(r) /\ Table(r) /\ Doom(r) /\ Stored(r) /\ Pointer(r)
  BY StepAlone, StepPointer, StepTable, StepDoom, StepStored
<1>2. Up(r) \in used /\ Up(r) \in Uploads BY <1>1 DEF Alone, TypeOK
<1>3. \A u \in Uploads \ used' : acked'[u] = {}
  BY <1>1, <1>2 DEF Alone, Stored, ChunksKnown
<1>4. ASSUME NEW s \in Requests, Up(s)' \notin doomed', pc'[s] \in {"mark", "insert"}
      PROVE  /\ pc'[s] = "mark" => job'[s].chunk \in chunks'[Up(s)']
             /\ pc'[s] = "insert" => /\ local'[s] \subseteq chunks'[Up(s)']
                                     /\ active'[Up(s)'] = None => acked'[Up(s)'] \subseteq local'[s]
  <2>1. /\ Up(s)' = Up(s) /\ job'[s] = job[s] /\ Up(s) \notin doomed
        /\ Up(s) \in used /\ Up(s) \in Uploads
    BY <1>1, <1>2, <1>4 DEF Alone, Up, Doom, TypeOK
  <2>2. chunks[Up(s)] \subseteq chunks'[Up(s)] BY <2>1, ChunksStay
  <2>3. CASE s = r
    <3>1. acked'[Up(r)] = acked[Up(r)] /\ acked[Up(r)] \subseteq chunks[Up(r)]
      BY <1>1, <1>4, <2>1, <2>3 DEF Stored, Flow, FinishedChunksKept
    <3> QED BY <1>1, <1>4, <2>1, <2>2, <2>3, <3>1 DEF Stored
  <2>4. CASE s # r
    <3>1. pc'[s] = pc[s] /\ local'[s] = local[s] BY <1>1, <2>4 DEF Alone
    <3>2. CASE pc[s] = "mark"
      BY <2>1, <2>2, <2>4, <3>1, <3>2 DEF ChunksKnown
    <3>3. CASE pc[s] = "insert"
      <4>1. /\ local[s] \subseteq chunks[Up(s)]
            /\ active[Up(s)] = None => acked[Up(s)] \subseteq local[s]
        BY <2>1, <3>3 DEF ChunksKnown
      <4>2. active'[Up(s)] = None => active[Up(s)] = None
        BY <1>1, <1>4, <2>1, NothingAssumption DEF Table
      <4>3. CASE acked'[Up(s)] # acked[Up(s)]
        <5>1. pc[r] = "mark" /\ Up(r) = Up(s)
          BY <1>1, <2>1, <4>3 DEF Stored, TypeOK
        <5>2. active[Up(s)] \in Objects
          BY <2>1, <5>1 DEF SameObject, PointersSet, WithObject
        <5> QED BY <2>1, <2>2, <3>1, <3>3, <4>1, <4>2, <5>2, NothingAssumption
      <4> QED BY <2>1, <2>2, <3>1, <3>3, <4>1, <4>2, <4>3
    <3> QED BY <1>4, <3>1, <3>2, <3>3
  <2> QED BY <2>3, <2>4
<1> QED BY <1>3, <1>4 DEF ChunksKnown

(* The object of the table keeps knowing what was acknowledged.            *)
LEMMA KeepsFinishedChunks ==
  ASSUME IInv, NEW r \in Requests, Step(r)
  PROVE  FinishedChunksKept'
<1> USE DEF IInv
<1>1. /\ Alone(r) /\ Flow(r) /\ Table(r) /\ Doom(r) /\ Stored(r) /\ Pointer(r) /\ Objs(r)
      /\ Up(r) \in used /\ Up(r) \in Uploads
  BY StepAlone, StepPointer, StepTable, StepDoom, StepStored, StepObjects DEF Alone, TypeOK
<1> SUFFICES ASSUME NEW u \in used', u \notin doomed'
             PROVE  /\ acked'[u] \subseteq chunks'[u]
                    /\ active'[u] # None => /\ acked'[u] \subseteq heap'[active'[u]].got
                                            /\ heap'[active'[u]].got \subseteq chunks'[u]
  BY DEF FinishedChunksKept
<1>2. u \in used /\ u \in Uploads /\ u \notin doomed BY <1>1 DEF Alone, Doom, TypeOK
<1>3. /\ acked[u] \subseteq chunks[u] /\ chunks[u] \subseteq chunks'[u]
      /\ acked'[u] \subseteq chunks'[u]
  BY <1>2, ChunksStay DEF FinishedChunksKept
<1>4. CASE active'[u] # None /\ active'[u] = active[u]
  <2> DEFINE o == active[u]
  <2>1. /\ o \in Objects /\ o \in Reached(active', obj')
    BY <1>2, <1>4 DEF TypeOK, Ref, Reached
  <2>2. acked[u] \subseteq heap[o].got /\ heap[o].got \subseteq chunks[u]
    BY <1>2, <1>4 DEF FinishedChunksKept
  <2>3. CASE pc[r] = "mark" /\ Up(r) = u
    <3>1. obj[r] = o BY <1>2, <2>3 DEF SameObject, WithObject
    <3>2. heap'[o].got = heap[o].got \cup {job[r].chunk} BY <1>1, <2>1, <2>3, <3>1 DEF Objs
    <3>3. job[r].chunk \in chunks[u] BY <1>2, <2>3 DEF ChunksKnown
    <3>4. acked'[u] = acked[u] \cup {job[r].chunk} BY <1>1, <2>3 DEF Stored
    <3> QED BY <1>3, <1>4, <2>2, <3>2, <3>3, <3>4
  <2>4. CASE ~ (pc[r] = "mark" /\ Up(r) = u)
    <3>1. acked'[u] = acked[u] BY <1>1, <1>2, <2>4 DEF Stored
    <3>2. ~ (pc[r] = "mark" /\ o = obj[r])
      BY <1>2, <1>4, <2>1, <2>4, NothingAssumption DEF ObjectsOfOne
    <3>3. ~ (pc[r] = "insert" /\ active[Up(r)] = None /\ o = active'[Up(r)])
      <4> SUFFICES ASSUME pc[r] = "insert", active[Up(r)] = None, o = active'[Up(r)] PROVE FALSE
        OBVIOUS
      <4>1. active'[Up(r)] # active[Up(r)] BY <2>1, NothingAssumption
      <4>2. active'[Up(r)] \notin Reached(active, obj) BY <1>1, <2>1, <4>1, NothingAssumption DEF Table
      <4> QED BY <1>2, <4>2 DEF Reached
    <3>4. heap'[o].got = heap[o].got BY <1>1, <2>1, <3>2, <3>3 DEF Objs
    <3> QED BY <1>3, <1>4, <2>2, <3>1, <3>4
  <2> QED BY <2>3, <2>4
<1>5. CASE active'[u] # None /\ active'[u] # active[u]
  <2>1. /\ u = Up(r) /\ pc[r] = "insert" /\ active[u] = None
        /\ active'[u] \in Objects
    BY <1>1, <1>2, <1>5 DEF Table
  <2>2. heap'[active'[u]].got = local[r]
    <3>1. active'[u] \in Reached(active', obj') BY <1>2 DEF Reached
    <3> QED BY <1>1, <2>1, <3>1 DEF Objs
  <2>3. local[r] \subseteq chunks[u] /\ acked[u] \subseteq local[r]
    BY <1>2, <2>1 DEF ChunksKnown
  <2>4. acked'[u] = acked[u] BY <1>1, <2>1 DEF Stored
  <2> QED BY <1>3, <2>2, <2>3, <2>4
<1> QED BY <1>3, <1>4, <1>5

-----------------------------------------------------------------------------
(* The destination, and the shape of the state.                            *)

(* What a request finds at its destination when it has finished.           *)
Outcome(r) ==
  \/ final'[D(r)] = final[D(r)] /\ final[D(r)] # r
  \/ final[D(r)] = r /\ final'[D(r)] = [by |-> Up(r), parts |-> local[r]]
  \/ /\ temp[D(r)] = r
     /\ local[r] = Chunks /\ pc'[r] = "retire"
     /\ final'[D(r)] = [by |-> Up(r), parts |-> Chunks]
  \/ temp[D(r)] # r /\ final'[D(r)] \in {Other} \cup ({temp[D(r)]} \cap Requests)

(* A request creates the temporary file of its destination. When it has    *)
(* finished, the file is no longer its own, and at the destination is what *)
(* it made or found, or what it took for its own.                          *)
Destination(r) ==
  /\ \A d \in Dests \ {D(r)} : temp'[d] = temp[d] /\ final'[d] = final[d]
  /\ robbed' = robbed
  /\ IF pc[r] = "open" /\ pc'[r] = "assemble"
     THEN temp[D(r)] = None /\ temp'[D(r)] = r /\ final' = final
     ELSE IF pc[r] = "assemble" /\ pc'[r] # "assemble"
     THEN /\ temp'[D(r)] # r
          /\ temp'[D(r)] \in Requests => temp'[D(r)] = temp[D(r)]
          /\ temp[D(r)] = None => temp'[D(r)] = None
          /\ Outcome(r)
          /\ pc'[r] = "retire" => local[r] = Chunks /\ (temp[D(r)] = r =>
               final'[D(r)] = [by |-> Up(r), parts |-> Chunks])
     ELSE temp' = temp /\ final' = final

LEMMA StepDestination ==
  ASSUME TypeOK, WritersAssemble, NEW r \in Requests, Step(r)
  PROVE  Destination(r) /\ temp' \in [Dests -> Requests \cup {None, Other, Left}]
<1> USE DEF TypeOK, Destination, Goto, Return, files, names, history
<1>0. Up(r) \in Uploads /\ D(r) \in Dests /\ Flow(r)
  BY StepAlone, DestAssumption DEF Alone, D
<1>1. CASE Look(r)
  BY <1>0, <1>1 DEF Look, LookupExpired, LookupFound, LookupMissed, LoadFails, LoadExpired,
              Load, Insert, Forget, BeginWipe
<1>2. CASE Write(r)
  BY <1>0, <1>2 DEF Write, Status, EnterAborted, EnterChunk, WriteChunk, WriteChunkFails,
              MarkReceived, Entering, UnlockAndReturn
<1>3. CASE Complete(r)
  <2>1. CASE EnterIncomplete(r) \/ EnterComplete(r) \/ CompleteRefused(r) \/ DestFree(r) \/ Retire(r)
    BY <1>0, <2>1 DEF EnterIncomplete, EnterComplete, CompleteRefused, DestFree, Retire,
                      Entering, UnlockAndReturn, Forget, BeginWipe
  <2>2. CASE OpenTemp(r) \/ Assemble(r)
    BY <1>0, <2>2 DEF OpenTemp, Assemble
  <2>3. CASE AssembleFails(r)
    <3>1. PICK left \in {None, IF temp[D(r)] = r THEN Other ELSE temp[D(r)]} :
            temp' = [temp EXCEPT ![D(r)] = left]
      BY <2>3 DEF AssembleFails
    <3>2. pc[r] = "assemble" /\ pc'[r] = "idle" /\ robbed' = robbed /\ final' = Closed(r)
      BY <2>3 DEF AssembleFails, UnlockAndReturn
    <3>3. \A d \in Dests \ {D(r)} : final'[d] = final[d]
      BY <3>2 DEF Closed, WritersAssemble
    <3>4. Outcome(r)
      BY <1>0, <3>2 DEF Closed, Outcome
    <3>5. left \in Requests \cup {None, Other, Left} /\ left # r
      BY <1>0, <3>1, NothingAssumption
    <3> QED BY <1>0, <3>1, <3>2, <3>3, <3>4, <3>5, NothingAssumption
  <2>4. CASE Publish(r)
    BY <1>0, <2>4, NothingAssumption DEF Publish, Renamed, Outcome
  <2> QED BY <1>3, <2>1, <2>2, <2>3, <2>4 DEF Complete
<1>4. CASE Remove(r)
  BY <1>0, <1>4 DEF Remove, AbortUnknown, AbortOnDisk, AbortActive, FlagAborted, Sweep, SweepKeeps,
              WipeMeta, WipeChunk, WipeDone, WipeFails, ReturnFromWipe, UnlockAndReturn,
              Forget, BeginWipe
<1> QED BY <1>1, <1>2, <1>3, <1>4, StepParts

(* O_EXCL: one request has the temporary file, and it is whole when it is  *)
(* renamed; but for a name that another handler took away.                 *)
LEMMA KeepsDestinations ==
  ASSUME IInv, NEW r \in Requests, Step(r)
  PROVE  WritersAssemble' /\ AssemblerOwns' /\ PublishedIsWhole'
<1> USE DEF IInv
<1>1. TypeOK /\ Alone(r) /\ Flow(r) /\ Destination(r) BY StepAlone, StepDestination
<1>2. PICK d \in Dests : d = D(r) BY <1>1, DestAssumption DEF Alone, TypeOK, D, Up
<1>3. /\ \A s \in Requests : pc'[s] # "idle" => D(s)' = D(s)
      /\ \A s \in Requests \ {r} : pc'[s] = pc[s]
  BY <1>1 DEF Alone, D, Up
<1>4. pc[r] = "assemble" /\ d \notin robbed => temp[d] = r
  BY <1>2 DEF AssemblerOwns
<1>5. \A S \in SUBSET Chunks : [by |-> Up(r), parts |-> S] \in Published \ Requests
  BY <1>1, NothingAssumption DEF Alone, TypeOK, Published
<1>6. /\ \A e \in Dests \ {d} : temp'[e] = temp[e] /\ final'[e] = final[e]
      /\ robbed' = robbed
  BY <1>1, <1>2 DEF Destination
<1>7. ASSUME pc[r] = "assemble", pc'[r] # "assemble"
      PROVE  PublishedIsWhole' /\ WritersAssemble'
  <2>1. /\ temp'[d] # r /\ Outcome(r)
        /\ temp'[d] \in Requests => temp'[d] = temp[d]
    BY <1>1, <1>2, <1>7 DEF Destination
  <2>2. final'[d] \in Requests => final'[d] \in {final[d], temp[d]} /\ final'[d] # r
    <3>1. local[r] \in SUBSET Chunks BY DEF TypeOK
    <3>2. Other \notin Requests BY NothingAssumption
    <3> QED BY <1>2, <1>5, <2>1, <3>1, <3>2 DEF Outcome
  <2>3. WritersAssemble'
    <3> SUFFICES ASSUME NEW e \in Dests, NEW s \in Requests, temp'[e] = s \/ final'[e] = s
                 PROVE  pc'[s] = "assemble" /\ D(s)' = e
      BY DEF WritersAssemble
    <3>1. temp[e] = s \/ final[e] = s BY <1>6, <2>1, <2>2
    <3>2. pc[s] = "assemble" /\ D(s) = e BY <3>1 DEF WritersAssemble
    <3>3. s # r
      BY <1>2, <2>1, <2>2, <3>2
    <3> QED BY <1>3, <3>2, <3>3
  <2>4. PublishedIsWhole'
    <3>1. d \notin robbed => \/ final'[d] = final[d]
                             \/ final'[d] = [by |-> Up(r), parts |-> Chunks]
      BY <1>2, <1>4, <2>1, <1>7 DEF Outcome, PublishedIsWhole
    <3>2. [by |-> Up(r), parts |-> Chunks] \notin Requests BY <1>5
    <3> QED BY <1>6, <3>1, <3>2 DEF PublishedIsWhole
  <2> QED BY <2>3, <2>4
<1>8. ASSUME pc[r] = "open", pc'[r] = "assemble"
      PROVE  PublishedIsWhole' /\ WritersAssemble'
  <2>1. temp[d] = None /\ temp'[d] = r /\ final' = final
    BY <1>1, <1>2, <1>8 DEF Destination
  <2>2. PublishedIsWhole' BY <1>6, <2>1 DEF PublishedIsWhole
  <2>3. \A e \in Dests : temp'[e] = IF e = d THEN r ELSE temp[e] BY <1>6, <2>1
  <2>4. WritersAssemble'
    <3> SUFFICES ASSUME NEW e \in Dests, NEW s \in Requests, temp'[e] = s \/ final'[e] = s
                 PROVE  pc'[s] = "assemble" /\ D(s)' = e
      BY DEF WritersAssemble
    <3>1. CASE e = d /\ temp'[e] = s
      BY <1>2, <1>3, <1>8, <2>3, <3>1
    <3>2. CASE ~ (e = d /\ temp'[e] = s)
      <4>1. pc[s] = "assemble" /\ D(s) = e BY <2>1, <2>3, <3>2 DEF WritersAssemble
      <4> QED BY <1>3, <1>8, <4>1
    <3> QED BY <3>1, <3>2
  <2> QED BY <2>2, <2>4
<1>9. ASSUME ~ (pc[r] = "assemble" /\ pc'[r] # "assemble"),
             ~ (pc[r] = "open" /\ pc'[r] = "assemble")
      PROVE  PublishedIsWhole' /\ WritersAssemble'
  <2>1. temp' = temp /\ final' = final BY <1>1, <1>9 DEF Destination
  <2>2. PublishedIsWhole' BY <1>6, <2>1 DEF PublishedIsWhole
  <2>3. WritersAssemble'
    BY <1>3, <1>9, <2>1 DEF WritersAssemble
  <2> QED BY <2>2, <2>3
<1>10. AssemblerOwns'
  <2> SUFFICES ASSUME NEW s \in Requests, pc'[s] = "assemble"
               PROVE  temp'[D(s)'] = s \/ D(s)' \in robbed
    BY <1>1 DEF AssemblerOwns, Destination
  <2>1. D(s)' = D(s) BY <1>3
  <2>2. CASE s # r
    <3>1. pc[s] = "assemble" /\ (temp[D(s)] = s \/ D(s) \in robbed)
      BY <1>3, <2>2 DEF AssemblerOwns
    <3>2. D(s) \in Dests BY <3>1, DestAssumption DEF TypeOK, D
    <3>3. D(s) = d /\ d \notin robbed => pc[r] # "assemble" /\ temp[d] # None
      BY <1>4, <2>2, <3>1, NothingAssumption
    <3>4. D(s) = d /\ d \notin robbed => temp'[d] = temp[d]
      BY <1>1, <1>2, <3>3 DEF Destination
    <3>5. D(s) # d => temp'[D(s)] = temp[D(s)]
      BY <1>1, <1>2, <3>2 DEF Destination
    <3> QED BY <2>1, <3>1, <3>3, <3>4, <3>5
  <2>3. CASE s = r
    BY <1>1, <2>1, <2>3 DEF Destination, Flow, AssemblerOwns
  <2> QED BY <2>2, <2>3
<1> QED BY <1>7, <1>8, <1>9, <1>10

LEMMA CellTypes ==
  ASSUME heap \in [Objects -> Cell], NEW r \in Requests, NEW n, NEW i \in Chunks, NEW S \in SUBSET Chunks
  PROVE  /\ Lock(r) \in [Objects -> Cell] /\ Unlock(r) \in [Objects -> Cell]
         /\ Flagged(r) \in [Objects -> Cell]
         /\ [heap EXCEPT ![obj[r]].got = @ \cup {i}, ![obj[r]].holder = None] \in [Objects -> Cell]
         /\ [heap EXCEPT ![n].got = S] \in [Objects -> Cell]
         /\ Blank \in Cell
<1>1. /\ Lock(r) \in [Objects -> Cell] /\ Unlock(r) \in [Objects -> Cell]
      /\ Flagged(r) \in [Objects -> Cell]
  BY DEF Lock, Unlock, Flagged, Cell
<1>2. [heap EXCEPT ![obj[r]].got = @ \cup {i}, ![obj[r]].holder = None] \in [Objects -> Cell]
  BY DEF Cell
<1>3. [heap EXCEPT ![n].got = S] \in [Objects -> Cell] /\ Blank \in Cell
  BY DEF Cell, Blank
<1> QED BY <1>1, <1>2, <1>3

LEMMA StepHeapType ==
  ASSUME TypeOK, NEW r \in Requests, Step(r)
  PROVE  heap' \in [Objects -> Cell]
<1>0. /\ heap \in [Objects -> Cell] /\ job[r].chunk \in Chunks /\ local[r] \in SUBSET Chunks
      /\ Alone(r)
  BY StepAlone DEF TypeOK
<1>1. /\ Lock(r) \in [Objects -> Cell] /\ Unlock(r) \in [Objects -> Cell]
      /\ Flagged(r) \in [Objects -> Cell]
      /\ [heap EXCEPT ![obj[r]].got = @ \cup {job[r].chunk}, ![obj[r]].holder = None]
           \in [Objects -> Cell]
      /\ \A n \in Objects : [heap EXCEPT ![n].got = local[r]] \in [Objects -> Cell]
      /\ Blank \in Cell
  BY <1>0, CellTypes
<1>2. CASE Look(r)
  BY <1>0, <1>1, <1>2 DEF Look, LookupExpired, LookupFound, LookupMissed, LoadFails, LoadExpired,
              Load, Insert, Forget, BeginWipe, Collect
<1>3. CASE Write(r)
  BY <1>0, <1>1, <1>3 DEF Write, Status, EnterAborted, EnterChunk, WriteChunk, WriteChunkFails,
              MarkReceived, UnlockAndReturn, Collect
<1>4. CASE Complete(r)
  BY <1>0, <1>1, <1>4 DEF Complete, EnterIncomplete, EnterComplete, CompleteRefused, DestFree,
              OpenTemp, Assemble, AssembleFails, Publish, Renamed, Retire, UnlockAndReturn,
              Forget, BeginWipe, Collect, Flagged
<1>5. CASE Remove(r)
  BY <1>0, <1>1, <1>5 DEF Remove, AbortUnknown, AbortOnDisk, AbortActive, FlagAborted, Sweep,
              SweepKeeps, WipeMeta, WipeChunk, WipeDone, WipeFails, ReturnFromWipe,
              UnlockAndReturn, Forget, BeginWipe, Collect, Flagged
<1> QED BY <1>2, <1>3, <1>4, <1>5, StepParts

LEMMA ChunkOne == 1 \in Chunks
BY LastChunkFits DEF Chunks

(* What a step leaves of the directories, and copies.                      *)
LEMMA StepFiles ==
  ASSUME TypeOK, NEW r \in Requests, Step(r)
  PROVE  /\ dirs' \subseteq used /\ meta' \subseteq dirs'
         /\ ended' \subseteq used /\ doomed' \subseteq used
<1> USE DEF Goto, Return, files, names, history
<1>0. /\ Up(r) \in used /\ dirs \subseteq used /\ meta \subseteq dirs
      /\ ended \subseteq used /\ doomed \subseteq used
  BY StepAlone DEF Alone, TypeOK
<1>1. CASE Look(r)
  BY <1>0, <1>1 DEF Look, LookupExpired, LookupFound, LookupMissed, LoadFails, LoadExpired,
              Load, Insert, Forget, BeginWipe
<1>2. CASE Write(r)
  BY <1>0, <1>2 DEF Write, Status, EnterAborted, EnterChunk, WriteChunk, WriteChunkFails,
              MarkReceived, Entering, UnlockAndReturn
<1>3. CASE Complete(r)
  BY <1>0, <1>3 DEF Complete, EnterIncomplete, EnterComplete, CompleteRefused, DestFree, OpenTemp,
              Assemble, AssembleFails, Publish, Renamed, Retire, Entering, UnlockAndReturn, Forget, BeginWipe
<1>4. CASE Remove(r)
  BY <1>0, <1>4 DEF Remove, AbortUnknown, AbortOnDisk, AbortActive, FlagAborted, Sweep, SweepKeeps,
              WipeMeta, WipeChunk, WipeDone, WipeFails, ReturnFromWipe, UnlockAndReturn,
              Forget, BeginWipe
<1> QED BY <1>1, <1>2, <1>3, <1>4, StepParts

LEMMA StepChunks ==
  ASSUME TypeOK, NEW r \in Requests, Step(r)
  PROVE  /\ chunks' \in [Uploads -> SUBSET Chunks]
         /\ acked' \in [Uploads -> SUBSET Chunks]
<1> USE DEF Goto, Return, files, names, history
<1>0. /\ chunks \in [Uploads -> SUBSET Chunks]
      /\ acked \in [Uploads -> SUBSET Chunks]
      /\ job[r].chunk \in Chunks
  BY StepAlone DEF Alone, TypeOK
<1>1. CASE Look(r)
  BY <1>0, <1>1 DEF Look, LookupExpired, LookupFound, LookupMissed, LoadFails, LoadExpired,
              Load, Insert, Forget, BeginWipe
<1>2. CASE Write(r)
  BY <1>0, <1>2 DEF Write, Status, EnterAborted, EnterChunk, WriteChunk, WriteChunkFails,
              MarkReceived, Entering, UnlockAndReturn
<1>3. CASE Complete(r)
  BY <1>0, <1>3 DEF Complete, EnterIncomplete, EnterComplete, CompleteRefused, DestFree, OpenTemp,
              Assemble, AssembleFails, Publish, Renamed, Retire, Entering, UnlockAndReturn, Forget, BeginWipe
<1>4. CASE Remove(r)
  BY <1>0, <1>4 DEF Remove, AbortUnknown, AbortOnDisk, AbortActive, FlagAborted, Sweep, SweepKeeps,
              WipeMeta, WipeChunk, WipeDone, WipeFails, ReturnFromWipe, UnlockAndReturn,
              Forget, BeginWipe
<1> QED BY <1>1, <1>2, <1>3, <1>4, StepParts

LEMMA StepLocal ==
  ASSUME TypeOK, NEW r \in Requests, Step(r)
  PROVE  local' \in [Requests -> SUBSET Chunks]
<1> USE DEF Goto, Return
<1>0. /\ local \in [Requests -> SUBSET Chunks]
      /\ chunks[Up(r)] \in SUBSET Chunks
  BY StepAlone DEF Alone, TypeOK
<1>1. CASE Look(r)
  BY <1>0, <1>1 DEF Look, LookupExpired, LookupFound, LookupMissed, LoadFails, LoadExpired,
              Load, Insert, Forget, BeginWipe
<1>2. CASE Write(r)
  BY <1>0, <1>2 DEF Write, Status, EnterAborted, EnterChunk, WriteChunk, WriteChunkFails,
              MarkReceived, Entering, UnlockAndReturn
<1>3. CASE Complete(r)
  BY <1>0, <1>3 DEF Complete, EnterIncomplete, EnterComplete, CompleteRefused, DestFree, OpenTemp,
              Assemble, AssembleFails, Publish, Renamed, Retire, Entering, UnlockAndReturn, Forget, BeginWipe
<1>4. CASE Remove(r)
  BY <1>0, <1>4 DEF Remove, AbortUnknown, AbortOnDisk, AbortActive, FlagAborted, Sweep, SweepKeeps,
              WipeMeta, WipeChunk, WipeDone, WipeFails, ReturnFromWipe, UnlockAndReturn,
              Forget, BeginWipe
<1> QED BY <1>1, <1>2, <1>3, <1>4, StepParts

LEMMA StepActive ==
  ASSUME TypeOK, NEW r \in Requests, Step(r)
  PROVE  active' \in [Uploads -> Ref(Objects)]
<1> USE DEF Goto, Return, Ref
<1>0. active \in [Uploads -> Ref(Objects)]
  BY DEF TypeOK
<1>1. CASE Look(r)
  BY <1>0, <1>1 DEF Look, LookupExpired, LookupFound, LookupMissed, LoadFails, LoadExpired,
              Load, Insert, Forget, BeginWipe
<1>2. CASE Write(r)
  BY <1>0, <1>2 DEF Write, Status, EnterAborted, EnterChunk, WriteChunk, WriteChunkFails,
              MarkReceived, Entering, UnlockAndReturn
<1>3. CASE Complete(r)
  BY <1>0, <1>3 DEF Complete, EnterIncomplete, EnterComplete, CompleteRefused, DestFree, OpenTemp,
              Assemble, AssembleFails, Publish, Renamed, Retire, Entering, UnlockAndReturn, Forget, BeginWipe
<1>4. CASE Remove(r)
  BY <1>0, <1>4 DEF Remove, AbortUnknown, AbortOnDisk, AbortActive, FlagAborted, Sweep, SweepKeeps,
              WipeMeta, WipeChunk, WipeDone, WipeFails, ReturnFromWipe, UnlockAndReturn,
              Forget, BeginWipe
<1> QED BY <1>1, <1>2, <1>3, <1>4, StepParts

LEMMA StepFinal ==
  ASSUME TypeOK, WritersAssemble, NEW r \in Requests, Step(r)
  PROVE  final' \in [Dests -> {Free, Other} \cup Published \cup Requests]
<1>0. CASE final' = final
  BY <1>0 DEF TypeOK
<1>1. CASE AssembleFails(r)
  <2>1. final' = Closed(r) /\ Up(r) \in Uploads /\ local[r] \in SUBSET Chunks
    BY <1>1 DEF AssembleFails, TypeOK
  <2>2. [by |-> Up(r), parts |-> local[r]] \in Published BY <2>1 DEF Published
  <2> QED BY <2>1, <2>2 DEF Closed, TypeOK
<1>2. CASE Publish(r)
  <2>1. Up(r) \in Uploads /\ local[r] \in SUBSET Chunks
    BY <1>2 DEF Publish, Renamed, TypeOK
  <2>2. [by |-> Up(r), parts |-> local[r]] \in Published BY <2>1 DEF Published
  <2> QED BY <1>2, <2>2 DEF Publish, Renamed, TypeOK
<1>3. CASE Look(r)
  BY <1>0, <1>3 DEF Look, LookupExpired, LookupFound, LookupMissed, LoadFails, LoadExpired,
              Load, Insert, files, names
<1>4. CASE Write(r)
  BY <1>0, <1>4 DEF Write, Status, EnterAborted, EnterChunk, WriteChunk, WriteChunkFails,
              MarkReceived, files, names
<1>5. CASE Complete(r)
  BY <1>0, <1>1, <1>2, <1>5 DEF Complete, EnterIncomplete, EnterComplete, CompleteRefused, DestFree,
              OpenTemp, Assemble, Retire, files, names
<1>6. CASE Remove(r)
  BY <1>0, <1>6 DEF Remove, AbortUnknown, AbortOnDisk, AbortActive, FlagAborted, Sweep, SweepKeeps,
              WipeMeta, WipeChunk, WipeDone, WipeFails, ReturnFromWipe, files, names
<1> QED BY <1>3, <1>4, <1>5, <1>6, StepParts

LEMMA StepControl ==
  ASSUME TypeOK, NEW r \in Requests, Step(r)
  PROVE  pc' \in [Requests -> Controls]
<1> USE DEF Goto, Return, Controls
<1>0. pc \in [Requests -> Controls]
  BY DEF TypeOK, Controls
<1>1. CASE Look(r)
  BY <1>0, <1>1 DEF Look, LookupExpired, LookupFound, LookupMissed, LoadFails, LoadExpired,
              Load, Insert, Forget, BeginWipe
<1>2. CASE Write(r)
  BY <1>0, <1>2 DEF Write, Status, EnterAborted, EnterChunk, WriteChunk, WriteChunkFails,
              MarkReceived, Entering, UnlockAndReturn
<1>3. CASE Complete(r)
  BY <1>0, <1>3 DEF Complete, EnterIncomplete, EnterComplete, CompleteRefused, DestFree, OpenTemp,
              Assemble, AssembleFails, Publish, Renamed, Retire, Entering, UnlockAndReturn, Forget, BeginWipe
<1>4. CASE Remove(r)
  BY <1>0, <1>4 DEF Remove, AbortUnknown, AbortOnDisk, AbortActive, FlagAborted, Sweep, SweepKeeps,
              WipeMeta, WipeChunk, WipeDone, WipeFails, ReturnFromWipe, UnlockAndReturn,
              Forget, BeginWipe
<1> QED BY <1>1, <1>2, <1>3, <1>4, StepParts

LEMMA StepJob ==
  ASSUME TypeOK, NEW r \in Requests, Step(r)
  PROVE  job' \in {job, [job EXCEPT ![r] = NoJob]}
<1> USE DEF Goto, Return
<1>1. CASE Look(r)
  BY <1>1 DEF Look, LookupExpired, LookupFound, LookupMissed, LoadFails, LoadExpired,
              Load, Insert, Forget, BeginWipe
<1>2. CASE Write(r)
  BY <1>2 DEF Write, Status, EnterAborted, EnterChunk, WriteChunk, WriteChunkFails,
              MarkReceived, Entering, UnlockAndReturn
<1>3. CASE Complete(r)
  BY <1>3 DEF Complete, EnterIncomplete, EnterComplete, CompleteRefused, DestFree, OpenTemp,
              Assemble, AssembleFails, Publish, Renamed, Retire, Entering, UnlockAndReturn, Forget, BeginWipe
<1>4. CASE Remove(r)
  BY <1>4 DEF Remove, AbortUnknown, AbortOnDisk, AbortActive, FlagAborted, Sweep, SweepKeeps,
              WipeMeta, WipeChunk, WipeDone, WipeFails, ReturnFromWipe, UnlockAndReturn,
              Forget, BeginWipe
<1> QED BY <1>1, <1>2, <1>3, <1>4, StepParts

LEMMA StepObj ==
  ASSUME TypeOK, NEW r \in Requests, Step(r)
  PROVE  obj' \in [Requests -> Ref(Objects)]
<1> USE DEF Goto, Return, Ref
<1>0. /\ obj \in [Requests -> Ref(Objects)]
      /\ active[Up(r)] \in Ref(Objects)
  BY StepAlone DEF Alone, TypeOK
<1>1. CASE Look(r)
  BY <1>0, <1>1 DEF Look, LookupExpired, LookupFound, LookupMissed, LoadFails, LoadExpired,
              Load, Insert, Forget, BeginWipe
<1>2. CASE Write(r)
  BY <1>0, <1>2 DEF Write, Status, EnterAborted, EnterChunk, WriteChunk, WriteChunkFails,
              MarkReceived, Entering, UnlockAndReturn
<1>3. CASE Complete(r)
  BY <1>0, <1>3 DEF Complete, EnterIncomplete, EnterComplete, CompleteRefused, DestFree, OpenTemp,
              Assemble, AssembleFails, Publish, Renamed, Retire, Entering, UnlockAndReturn, Forget, BeginWipe
<1>4. CASE Remove(r)
  BY <1>0, <1>4 DEF Remove, AbortUnknown, AbortOnDisk, AbortActive, FlagAborted, Sweep, SweepKeeps,
              WipeMeta, WipeChunk, WipeDone, WipeFails, ReturnFromWipe, UnlockAndReturn,
              Forget, BeginWipe
<1> QED BY <1>1, <1>2, <1>3, <1>4, StepParts

LEMMA KeepsTypeOK ==
  ASSUME IInv, NEW r \in Requests, Step(r)
  PROVE  TypeOK'
<1> USE DEF IInv
<1>1. Alone(r) /\ TypeOK BY StepAlone
<1>2. used' \subseteq Uploads /\ old' \subseteq used' BY <1>1 DEF Alone, TypeOK
<1>3. \A s \in Requests : pc'[s] # "idle" => Up(s)' \in used'
  BY <1>1 DEF Alone, Up, TypeOK
<1> HIDE DEF IInv
<1>4. WritersAssemble /\ robbed' \subseteq Dests BY StepDestination DEF IInv, TypeOK, Destination
<1>5. job' \in [Requests -> [op : Ops \cup {"none"}, up : Ref(Uploads), chunk : Chunks]]
  <2>1. NoJob \in [op : Ops \cup {"none"}, up : Ref(Uploads), chunk : Chunks]
    BY ChunkOne DEF NoJob, Ref
  <2> QED BY <1>1, <2>1, StepJob DEF TypeOK
<1> QED BY <1>1, <1>2, <1>3, <1>4, <1>5, StepFiles, StepChunks, StepLocal, StepActive, StepFinal,
        StepControl, StepObj, StepHeapType, StepDestination
        DEF TypeOK, Controls, Alone

(* Every step of a request keeps the invariant.                            *)
LEMMA StepKeepsIInv ==
  ASSUME IInv, NEW r \in Requests, Step(r)
  PROVE  IInv'
BY KeepsTypeOK, KeepsDestinations, KeepsPointersSet, KeepsObjectsOfOne, StepCollects,
   KeepsHolderIsInside, KeepsSameObject, KeepsDoomedHasCause, KeepsChunksKnown,
   KeepsFinishedChunks
DEF IInv

-----------------------------------------------------------------------------
(* The other steps, and the theorems.                                      *)

(* init: the object is new, and nobody works on the upload yet.            *)
LEMMA InitKeepsIInv ==
  ASSUME IInv, NEW u \in Uploads, NEW o \in Objects, InitUpload(u, o)
  PROVE  IInv'
<1> USE DEF IInv
<1>1. /\ u \notin used /\ u \notin doomed /\ acked[u] = {} /\ o # None
      /\ \A s \in Requests : pc[s] # "idle" => Up(s) # u
      /\ \A s \in Requests : pc[s] = "idle" => obj[s] = None
      /\ o \notin Reached(active, obj) /\ heap[o] = Blank
  BY NothingAssumption
  DEF InitUpload, TypeOK, ChunksKnown, PointersSet, WithObject, CollectedIsBlank
<1>2. /\ used' = used \cup {u} /\ dirs' = dirs \cup {u} /\ meta' = meta \cup {u}
      /\ active' = [active EXCEPT ![u] = o]
      /\ UNCHANGED <<chunks, final, temp, robbed, old, pc, job, obj, local, acked, ended, doomed>>
      /\ active \in [Uploads -> Ref(Objects)] /\ heap \in [Objects -> Cell]
  BY DEF InitUpload, history, names, TypeOK
<1>3. \A n \in Objects : heap'[n] = IF n \in Reached(active', obj') THEN heap[n] ELSE Blank
  BY DEF InitUpload, Collect
<1>4. heap' \in [Objects -> Cell]
  BY <1>2 DEF InitUpload, Collect, Cell, Blank
<1>5. TypeOK' BY <1>1, <1>2, <1>4 DEF TypeOK, Ref, Up
<1>6. WritersAssemble' /\ AssemblerOwns' /\ PublishedIsWhole'
  BY <1>2 DEF WritersAssemble, AssemblerOwns, PublishedIsWhole, D, Up
<1>7. PointersSet' BY <1>2 DEF PointersSet
<1>8. /\ \A v \in Uploads : active[v] # o
      /\ \A s \in Requests : obj[s] # o
  BY <1>1 DEF Reached
<1>9. ObjectsOfOne' BY <1>1, <1>2, <1>8 DEF ObjectsOfOne, Up
<1>10. CollectedIsBlank' BY <1>3 DEF CollectedIsBlank
<1>11. HolderIsInside'
  <2> SUFFICES ASSUME NEW s \in Requests, InSession(s) PROVE heap'[obj[s]].holder = s
    BY <1>2 DEF HolderIsInside, InSession
  <2>1. obj[s] \in Objects BY DEF InSession, PointersSet, WithObject, TypeOK, Ref
  <2>2. obj[s] \in Reached(active', obj') BY <1>2 DEF Reached
  <2> QED BY <1>3, <2>1, <2>2 DEF HolderIsInside
<1>12. SameObject' BY <1>1, <1>2 DEF SameObject, WithObject, Up
<1>13. DoomedHasCause' BY <1>1, <1>2 DEF DoomedHasCause, Up
<1>14. ChunksKnown'
  BY <1>1, <1>2 DEF ChunksKnown, Up
<1>15. FinishedChunksKept'
  <2> SUFFICES ASSUME NEW v \in used', v \notin doomed
               PROVE  /\ acked[v] \subseteq chunks[v]
                      /\ active'[v] # None => /\ acked[v] \subseteq heap'[active'[v]].got
                                              /\ heap'[active'[v]].got \subseteq chunks[v]
    BY <1>2 DEF FinishedChunksKept
  <2>1. v \in Uploads BY <1>5 DEF TypeOK
  <2>2. active'[v] # None => heap'[active'[v]] = heap[active'[v]]
    <3>1. active'[v] \in Reached(active', obj') BY <2>1 DEF Reached
    <3> QED BY <1>3, <1>5, <2>1, <3>1 DEF TypeOK, Ref
  <2>3. CASE v = u
    BY <1>1, <1>2, <2>2, <2>3 DEF Blank
  <2>4. CASE v # u
    BY <1>2, <2>1, <2>2, <2>4 DEF FinishedChunksKept
  <2> QED BY <2>3, <2>4
<1> QED
  BY <1>5, <1>6, <1>7, <1>9, <1>10, <1>11, <1>12, <1>13, <1>14, <1>15

LEMMA ArriveKeepsIInv ==
  ASSUME IInv, NEW r \in Requests, NEW op \in Ops, NEW u \in Uploads, NEW i \in Chunks,
         Arrive(r, op, u, i)
  PROVE  IInv'
<1> USE DEF IInv
<1>1. /\ pc[r] = "idle" /\ pc'[r] \in {"lookup", "abort", "sweep"} /\ Up(r)' = u /\ u \in used
      /\ obj[r] = None /\ (pc'[r] = "abort" => u \in ended')
  BY OpsAssumption DEF Arrive, PointersSet, WithObject, TypeOK, Up
<1>2. /\ \A s \in Requests \ {r} : pc'[s] = pc[s] /\ job'[s] = job[s]
      /\ UNCHANGED <<used, dirs, meta, chunks, final, temp, robbed, active, heap, old, obj, local,
                     acked, doomed>>
      /\ ended \subseteq ended' /\ ended' \subseteq used
      /\ pc' \in [Requests -> Controls]
      /\ job' \in [Requests -> [op : Ops \cup {"none"}, up : Ref(Uploads), chunk : Chunks]]
  BY OpsAssumption DEF Arrive, TypeOK, files, names, Controls, Ref
<1>3. TypeOK' BY <1>1, <1>2 DEF TypeOK, Controls, Up
<1>4. WritersAssemble'
  BY <1>1, <1>2 DEF WritersAssemble, D, Up
<1>5. AssemblerOwns' /\ PublishedIsWhole'
  BY <1>1, <1>2 DEF AssemblerOwns, PublishedIsWhole, D, Up
<1>6. PointersSet' BY <1>1, <1>2 DEF PointersSet, WithObject
<1>7. ObjectsOfOne' BY <1>1, <1>2 DEF ObjectsOfOne, Up
<1>8. CollectedIsBlank' BY <1>2 DEF CollectedIsBlank
<1>9. HolderIsInside' BY <1>1, <1>2 DEF HolderIsInside, InSession
<1>10. SameObject' BY <1>1, <1>2 DEF SameObject, WithObject, Up
<1>11. DoomedHasCause' BY <1>1, <1>2 DEF DoomedHasCause, Up
<1>12. ChunksKnown' /\ FinishedChunksKept'
  BY <1>1, <1>2 DEF ChunksKnown, FinishedChunksKept, Up
<1> QED
  BY <1>3, <1>4, <1>5, <1>6, <1>7, <1>8, <1>9, <1>10, <1>11, <1>12

(* The clock, the other handlers and idling touch no upload, only what has *)
(* the names of its files.                                                 *)
LEMMA OutsideKeepsIInv ==
  ASSUME IInv,
         \/ \E u \in Uploads : Age(u)
         \/ \E d \in Dests : Occupy(d) \/ Vacate(d) \/ PutTemp(d) \/ TakeTemp(d)
         \/ UNCHANGED vars
  PROVE  IInv'
<1> USE DEF IInv
<1>1. /\ UNCHANGED <<used, dirs, meta, chunks, active, heap, pc, job, obj, local,
                     acked, ended, doomed>>
      /\ old \subseteq old' /\ old' \subseteq used
      /\ \A s \in Requests : D(s)' = D(s)
  BY DEF Age, Occupy, Vacate, PutTemp, TakeTemp, ElsewhereUnchanged, vars, files, names,
         history, TypeOK, D, Up
<1>2. /\ \A d \in Dests : final'[d] \in {final[d], Free, Other}
      /\ final' \in [Dests -> {Free, Other} \cup Published \cup Requests]
  BY DEF Age, Occupy, Vacate, PutTemp, TakeTemp, ElsewhereUnchanged, vars, files, names, TypeOK
<1>3. /\ \A d \in Dests : temp'[d] \in {temp[d], None, Other}
      /\ \A d \in Dests : temp'[d] # temp[d] /\ temp[d] \in Requests => d \in robbed'
      /\ temp' \in [Dests -> Requests \cup {None, Other, Left}]
      /\ robbed \subseteq robbed' /\ robbed' \subseteq Dests
  BY NothingAssumption
     DEF Age, Occupy, Vacate, PutTemp, TakeTemp, ElsewhereUnchanged, vars, files, names, TypeOK
<1>4. TypeOK' BY <1>1, <1>2, <1>3 DEF TypeOK, Up
<1>5. PublishedIsWhole' BY <1>2, <1>3, NothingAssumption DEF PublishedIsWhole
<1>6. DoomedHasCause' BY <1>1 DEF DoomedHasCause, Up
<1>7. WritersAssemble'
  BY <1>1, <1>2, <1>3, NothingAssumption DEF WritersAssemble
<1>8. AssemblerOwns'
  <2> SUFFICES ASSUME NEW s \in Requests, pc[s] = "assemble"
               PROVE  temp'[D(s)] = s \/ D(s) \in robbed'
    BY <1>1 DEF AssemblerOwns
  <2>1. D(s) \in Dests BY DestAssumption DEF TypeOK, D
  <2> QED BY <1>3, <2>1 DEF AssemblerOwns
<1>9. PointersSet' /\ ObjectsOfOne' /\ CollectedIsBlank'
  BY <1>1 DEF PointersSet, ObjectsOfOne, CollectedIsBlank, Up
<1>10. HolderIsInside' /\ SameObject' /\ ChunksKnown' /\ FinishedChunksKept'
  BY <1>1 DEF HolderIsInside, InSession, SameObject, ChunksKnown, FinishedChunksKept, Up
<1> QED BY <1>4, <1>5, <1>6, <1>7, <1>8, <1>9, <1>10

(* A restart forgets every request and object, and keeps the files.        *)
LEMMA RestartKeepsIInv ==
  ASSUME IInv, Restart
  PROVE  IInv'
<1> USE DEF IInv
<1>1. /\ \A r \in Requests : pc'[r] = "idle" /\ obj'[r] = None
      /\ \A o \in Objects : heap'[o] = Blank
      /\ \A u \in Uploads : active'[u] = None
      /\ temp' \in [Dests -> {None, Other, Left}]
      /\ UNCHANGED <<used, dirs, meta, chunks, robbed, old, acked, ended, doomed>>
  BY DEF Restart, history, TypeOK
<1>8. /\ final' \in [Dests -> {Free, Other} \cup Published]
      /\ \A d \in Dests : final[d] \notin Requests => final'[d] = final[d]
  <2>1. ASSUME NEW d \in Dests, final[d] \in Requests
        PROVE  Closed(final[d])[d] \in Published
    <3>1. PICK s \in Requests : s = final[d] BY <2>1
    <3>2. Up(s) \in Uploads /\ local[s] \in SUBSET Chunks
      BY <3>1 DEF WritersAssemble, TypeOK
    <3> QED BY <3>1, <3>2 DEF Closed, Published
  <2> QED BY <2>1 DEF Restart, TypeOK
<1>2. TypeOK'
  BY <1>1, <1>8, ChunkOne DEF TypeOK, Restart, history, Ref, Cell, Blank, NoJob
<1>3. WritersAssemble' /\ AssemblerOwns' /\ PublishedIsWhole'
  BY <1>1, <1>8, NothingAssumption DEF WritersAssemble, AssemblerOwns, PublishedIsWhole, Published
<1>4. PointersSet' /\ ObjectsOfOne' /\ CollectedIsBlank'
  BY <1>1 DEF PointersSet, ObjectsOfOne, CollectedIsBlank, WithObject
<1>5. HolderIsInside' /\ SameObject'
  BY <1>1 DEF HolderIsInside, SameObject, InSession, WithObject
<1>6. DoomedHasCause' /\ ChunksKnown'
  BY <1>1 DEF DoomedHasCause, ChunksKnown
<1>7. FinishedChunksKept'
  <2>1. used \subseteq Uploads BY DEF TypeOK
  <2> QED BY <1>1, <2>1 DEF FinishedChunksKept
<1> QED BY <1>2, <1>3, <1>4, <1>5, <1>6, <1>7

LEMMA InitIInv == Init => IInv
<1> SUFFICES ASSUME Init PROVE IInv
  OBVIOUS
<1>1. TypeOK
  BY ChunkOne DEF Init, TypeOK, Ref, Cell, Blank, NoJob
<1>2. WritersAssemble /\ AssemblerOwns /\ PublishedIsWhole
  BY NothingAssumption DEF Init, WritersAssemble, AssemblerOwns, PublishedIsWhole
<1>3. PointersSet /\ ObjectsOfOne /\ CollectedIsBlank /\ HolderIsInside /\ SameObject
  BY DEF Init, PointersSet, ObjectsOfOne, CollectedIsBlank, HolderIsInside, SameObject,
         InSession, WithObject
<1>4. DoomedHasCause /\ ChunksKnown /\ FinishedChunksKept
  BY DEF Init, DoomedHasCause, ChunksKnown, FinishedChunksKept
<1> QED BY <1>1, <1>2, <1>3, <1>4 DEF IInv

LEMMA NextKeepsIInv == IInv /\ [Next]_vars => IInv'
BY StepKeepsIInv, InitKeepsIInv, ArriveKeepsIInv, OutsideKeepsIInv, RestartKeepsIInv DEF Next

THEOREM Invariance == Spec => []IInv
BY InitIInv, NextKeepsIInv, PTL DEF Spec

(* Every variable keeps its shape: a directory is that of an id handed out *)
(* by init, and a running request works on such an id (upload.go:205-261). *)
THEOREM TypeCorrect == Spec => []TypeOK
<1>1. IInv => TypeOK BY DEF IInv
<1> QED BY <1>1, Invariance, PTL

(* "Finished chunks are skipped" (src/README.md:160): until the removal of *)
(* an upload begins, what a client was told is stored is on disk and known *)
(* to the object the server answers from.                                  *)
THEOREM FinishedChunksStay == Spec => []FinishedChunksKept
<1>1. IInv => FinishedChunksKept BY DEF IInv
<1> QED BY <1>1, Invariance, PTL

(* One request at a time works on an open upload (upload.go:36), because   *)
(* its object is the one of the table and sessMu of that has one holder.   *)
THEOREM OneAtATime == Spec => []SerializedWhileOpen
<1>1. IInv => SerializedWhileOpen
  <2> SUFFICES ASSUME IInv, NEW r \in Requests, NEW s \in Requests,
                      InSession(r), InSession(s), Up(r) = Up(s), Up(r) \notin doomed
               PROVE  r = s
    BY DEF SerializedWhileOpen
  <2>1. pc[r] # "wipe" /\ pc[s] # "wipe" BY DEF IInv, DoomedHasCause
  <2>2. obj[r] = active[Up(r)] /\ obj[s] = active[Up(r)]
    BY <2>1 DEF IInv, SameObject, InSession, WithObject
  <2> QED BY <2>2 DEF IInv, HolderIsInside
<1> QED BY <1>1, Invariance, PTL

(* The file that appears under the final name is whole, whoever removes    *)
(* chunks or completes to the same name meanwhile, unless another handler  *)
(* has taken the temporary file from the request that copied into it       *)
(* (upload.go:364-401, handlers.go:461-677).                               *)
THEOREM PublishedFilesAreWhole == Spec => []PublishedIsWhole
<1>1. IInv => PublishedIsWhole BY DEF IInv
<1> QED BY <1>1, Invariance, PTL

(* Complete answers, and goes on to remove the chunks, only in a step that *)
(* put these very chunks under the name, with the same exception           *)
(* (upload.go:398-407).                                                    *)
THEOREM DoneUploadsArePublished == Spec => DoneIsPublished
<1>1. ASSUME IInv, [Next]_vars, NEW r \in Requests,
             pc[r] = "assemble", pc'[r] = "retire", D(r) \notin robbed
      PROVE  final'[D(r)] = [by |-> Up(r), parts |-> Chunks]
  <2>1. CASE Step(r)
    <3>1. Destination(r) BY <1>1, <2>1, StepDestination DEF IInv
    <3>2. temp[D(r)] = r BY <1>1 DEF IInv, AssemblerOwns
    <3> QED BY <1>1, <3>1, <3>2 DEF Destination
  <2>2. ASSUME NEW s \in Requests, s # r, Step(s) PROVE FALSE
    BY <1>1, <2>2, StepAlone DEF IInv, Alone
  <2>3. CASE \E u \in Uploads, o \in Objects : InitUpload(u, o)
    BY <1>1, <2>3 DEF InitUpload
  <2>4. ASSUME NEW s \in Requests, NEW op \in Ops, NEW u \in Uploads, NEW i \in Chunks,
               Arrive(s, op, u, i)
        PROVE  FALSE
    BY <1>1, <2>4, OpsAssumption DEF Arrive, IInv, TypeOK
  <2>5. CASE (\E u \in Uploads : Age(u)) \/ UNCHANGED vars
    BY <1>1, <2>5 DEF Age, vars
  <2>6. CASE \E d \in Dests : Occupy(d) \/ Vacate(d) \/ PutTemp(d) \/ TakeTemp(d)
    BY <1>1, <2>6 DEF Occupy, Vacate, PutTemp, TakeTemp, ElsewhereUnchanged
  <2>7. CASE Restart
    BY <1>1, <2>7 DEF Restart
  <2> QED BY <1>1, <2>1, <2>2, <2>3, <2>4, <2>5, <2>6, <2>7 DEF Next
<1>2. IInv /\ [Next]_vars =>
        [\A r \in Requests : pc[r] = "assemble" /\ pc'[r] = "retire" /\ D(r) \notin robbed =>
           final'[D(r)] = [by |-> Up(r), parts |-> Chunks]]_vars
  BY <1>1
<1> QED BY <1>2, Invariance, PTL DEF Spec, DoneIsPublished

(* No failure of another request, no restart and no sweep begins to remove *)
(* an upload that is neither published, aborted nor expired.               *)
THEOREM OpenUploadsResume == Spec => []OpenIsResumable
<1>1. IInv => OpenIsResumable
  BY DEF IInv, OpenIsResumable, DoomedHasCause, FinishedChunksKept, TypeOK
<1> QED BY <1>1, Invariance, PTL

(* No upload is refused for its size (upload.go:233, 289-298, 387): what   *)
(* the browser sends is what the server waits for, and what complete has   *)
(* counted at the end is the declared size.                                *)
THEOREM NoChunkRefused == Spec => []NoChunkIsRefused
<1>1. ASSUME TypeOK, NEW r \in Requests
      PROVE  /\ pc[r] = "write" => Slice(job[r].chunk) = Expected(job[r].chunk)
             /\ pc[r] = "assemble" /\ local[r] = Chunks =>
                  Copied[Cardinality(local[r])] = Size
  <2>1. job[r].chunk \in Chunks BY <1>1 DEF TypeOK
  <2> QED BY <2>1, NoSliceIsRefused, ChunksMakeTheFile
<1>2. TypeOK => NoChunkIsRefused BY <1>1 DEF NoChunkIsRefused
<1> QED BY <1>2, TypeCorrect, PTL
=============================================================================
