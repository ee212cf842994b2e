\* A copy that fails after another request took the name.
SPECIFICATION Spec
CONSTANTS
  Callers = {c1, c2}
  Files = {f1, f2}
  Folders = {d1, d2}
  Paths <- SomePaths
  Start <- Archives
  Tokens = {t1}
  NoShare = NoShare
  NoToken = NoToken
  Nobody = Nobody
SYMMETRY Symmetry
PROPERTY CopyCleansOwn
