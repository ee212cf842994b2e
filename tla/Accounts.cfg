\* Two names, two requests at a time, all operations.
SPECIFICATION Spec
CONSTANTS
  Users = {u1, u2}
  Hashes = {h1, h2}
  Sessions = {s1}
  Tokens = {k1}
  Secrets = {x1}
  Slots = {n1}
  Callers = {c1, c2}
  None = None
SYMMETRY Symmetry
INVARIANT AlwaysAnAdmin SessionsAreCurrent TwoFactorIsForAdmins CodesAreSingleUse
