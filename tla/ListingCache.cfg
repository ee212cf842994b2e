\* Two readers, one writer, four keys in a cache of two entries.
SPECIFICATION Spec
CONSTANTS
  outside = outside
  Places <- SomePlaces
  Kind <- KindOf
  Target <- TargetOf
  Outside = outside
  Hidden = {".t"}
  Keys <- SomeKeys
  Fixed <- AlwaysThere
  r1 = r1
  r2 = r2
  Comes <- TwoComeFor
  Readers = {r1, r2}
  Writers = {w1}
  MaxEntries = 2
  Matching = {"x", "m"}
  Limit = 2
  None = None
INVARIANT TypeOK StaleIsExplained UsageIsFresh NothingHiddenIsListed SearchFindsAll VaultGuards
