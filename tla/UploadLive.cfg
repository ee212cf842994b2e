\* One upload of one chunk, two requests at a time, fair scheduling.
SPECIFICATION FairSpec
CONSTANTS
  here = here
  Uploads = {u1}
  Size = 1
  ChunkSize = 2
  Dests = {here}
  Dest <- SameDest
  Requests = {r1, r2}
  Objects = {o1, o2, o3}
  None = None
  Free = Free
  Other = Other
  Left = Left
  Ops = {"chunk", "complete", "status", "abort", "sweep"}
  Aging = {}
  Touched = {"final"}
PROPERTY RequestsReturn
