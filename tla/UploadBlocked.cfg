\* A crash while complete assembles, then the browser resumes.
SPECIFICATION Spec
CONSTANTS
  here = here
  Uploads = {u1, u2}
  Size = 1
  ChunkSize = 2
  Dests = {here}
  Dest <- SameDest
  Requests = {r1, r2}
  Objects = {o1, o2, o3, o4}
  None = None
  Free = Free
  Other = Other
  Left = Left
  Ops = {"chunk", "complete"}
  Aging = {}
  Touched = {"final"}
SYMMETRY Symmetry
INVARIANT TempOnlyWhileAssembling
