-------------------------- MODULE MCUploadManager --------------------------
(***************************************************************************)
(* Small instances of UploadManager: the uploads share one destination, so *)
(* that completions of different uploads meet there.                       *)
(***************************************************************************)
EXTENDS UploadManager, TLC

CONSTANT here

SameDest == [u \in Uploads |-> here]

(* Uploads to one destination are interchangeable, and so are request      *)
(* slots and heap cells.                                                   *)
Symmetry ==
  Permutations(Uploads) \cup Permutations(Requests) \cup Permutations(Objects)

(* What exists, without the history variables that neither an action nor   *)
(* the properties of UploadTwo look at: states that differ only there are  *)
(* one state of that run.                                                  *)
Present == <<used, files, active, heap, old, pc, job, obj, local>>
=============================================================================
