\* A sweep against uploads, deletions, the worker, direct writes and a crash
\* or a late replica
SPECIFICATION FairSpec
CONSTANTS
  a = a
  b = b
  x = x
  Nothing = Nothing
  Paths = {p1}
  Contents = {b}
  EntryIds = {e1, e2, e3, e4, e5, e6, e7, e8}
  PageCount <- MCPageCount
  MaxPage = 1
  MaxReceive = 2
  MaxQueued = 1
  InitialBudgets <- ConvergeBudgets
  Clients = {c1}
  AsyncMode = TRUE
  InlineReadable = {b}
  Workers = {w1}
  Readable = {b}
  Registered = TRUE
  Unquoted <- MCUnquoted
  MaxActive = 3
PROPERTIES SweepHidesOnlyOldDocuments ExistenceConverges
