\* Two requests from one address, two failures lock it; a log of two lines.
SPECIFICATION FairSpec
CONSTANTS
  Callers = {c1, c2}
  Loggers = {c1, c2}
  MaxFailures = 2
  NoEntry = NoEntry
  Values <- Content
  Truncated = Truncated
  None = None
  MaxEvents = 3
  MaxLines = 2
  ListLimit = 2
  Garbage = Garbage
INVARIANT NeverTruncated TypeOK FailuresBounded EveryFailureCounts RecentIsComplete
PROPERTY EntriesDoNotLeak
