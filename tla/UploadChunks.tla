---------------------------- MODULE UploadChunks ----------------------------
(***************************************************************************)
(* How an upload is cut into chunks: what the server expects (upload.go)   *)
(* and what the browser sends (layout.html).  Chunks are numbered from 1.  *)
(***************************************************************************)
EXTENDS Integers, FiniteSetsExt

CONSTANTS
  Size,      \* meta.Size, in bytes
  ChunkSize  \* meta.ChunkSize: the browser uses what init answers

ASSUME SizesAssumption == Size \in Nat /\ ChunkSize \in Nat \ {0}

(* A faulty count that forgets the short chunk at the end.                 *)
FullChunks == IF Size < ChunkSize THEN 1 ELSE Size \div ChunkSize

TotalChunks == IF Size = 0 THEN 1 ELSE (Size + ChunkSize - 1) \div ChunkSize

Chunks == 1 .. TotalChunks

(* writeChunk takes a body of this length only.                            *)
Expected(i) == IF i = TotalChunks THEN Size - (i - 1) * ChunkSize ELSE ChunkSize

(* file.slice of the browser.                                              *)
Slice(i) ==
  LET start == (i - 1) * ChunkSize
      end == IF start + ChunkSize < Size THEN start + ChunkSize ELSE Size
  IN end - start

(* What complete has counted when it has copied the first n chunks.        *)
Copied[n \in Nat] == IF n = 0 THEN 0 ELSE Copied[n - 1] + Expected(n)
=============================================================================
