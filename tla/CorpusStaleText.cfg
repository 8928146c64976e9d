\* A second PUT while the first is being extracted
SPECIFICATION FairSpec
CONSTANTS
  a = a
  b = b
  x = x
  Nothing = Nothing
  Paths = {p1}
  Contents = {a, b}
  EntryIds = {e1, e2, e3, e4}
  PageCount <- MCPageCount
  MaxPage = 2
  MaxReceive = 2
  MaxQueued = 1
  InitialBudgets <- TwoPutsBudgets
  Clients = {c1}
  AsyncMode = TRUE
  InlineReadable = {b}
  Workers = {w1}
  Readable = {a, b}
  Registered = TRUE
  Unquoted <- MCUnquoted
  MaxActive = 2
PROPERTIES TextConverges
