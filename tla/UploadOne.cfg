\* One upload of two chunks, every operation, two requests at a time.
SPECIFICATION Spec
CONSTANTS
  here = here
  Uploads = {u1}
  Size = 3
  ChunkSize = 2
  Dests = {here}
  Dest <- SameDest
  Requests = {r1, r2}
  Objects = {o1, o2, o3}
  None = None
  Free = Free
  Other = Other
  Left = Left
  Ops = {"chunk", "complete", "status", "abort", "sweep"}
  Aging = {u1}
  Touched = {"final"}
SYMMETRY Symmetry
INVARIANT TypeOK FinishedChunksKept SerializedWhileOpen OpenIsResumable NoChunkIsRefused
