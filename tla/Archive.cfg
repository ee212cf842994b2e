\* Three requests on two folders and what is in them, one share.
SPECIFICATION Spec
CONSTANTS
  Callers = {c1, c2, c3}
  Files = {f1, f2}
  Folders = {d1, d2}
  Paths <- SomePaths
  Start <- Archives
  Tokens = {t1}
  NoShare = NoShare
  NoToken = NoToken
  Nobody = Nobody
SYMMETRY Symmetry
INVARIANT TypeOK SharesLeadHome AnsweredIsKept
