\* Three sessions of two users, three calls at a time.
SPECIFICATION Spec
CONSTANTS
  alice = alice
  bob = bob
  lastSession = s3
  Sessions = {s1, s2, s3}
  Users = {alice, bob}
  Owner <- OwnerOf
  Callers = {c1, c2, c3}
  None = None
SYMMETRY Symmetry
INVARIANT LoginIsDurable LogoutIsFinal QuietMeansSaved
PROPERTY NoLoginClobbered
