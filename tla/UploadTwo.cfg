\* Two uploads of one chunk to one destination, two requests at a time.
SPECIFICATION Spec
CONSTANTS
  here = here
  Uploads = {u1, u2}
  Size = 0
  ChunkSize = 2
  Dests = {here}
  Dest <- SameDest
  Requests = {r1, r2}
  Objects = {o1, o2, o3}
  None = None
  Free = Free
  Other = Other
  Left = Left
  Ops = {"chunk", "complete", "abort"}
  Aging = {}
  Touched = {"final", "temp"}
VIEW Present
SYMMETRY Symmetry
INVARIANT PublishedIsWhole
PROPERTY DoneIsPublished
