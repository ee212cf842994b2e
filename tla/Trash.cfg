\* Two items that may come from one place, two requests and the janitor.
SPECIFICATION FairSpec
CONSTANTS
  Ids = {i1, i2}
  Paths = {p1, p2}
  Callers = {c1, c2}
  Janitor = janitor
  None = None
INVARIANT TrashedIsRestorable DamageIsLocal
PROPERTY OldIsPurged
