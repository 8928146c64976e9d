\* Overlapping operations on two paths
SPECIFICATION Spec
CONSTANTS
  a = a
  b = b
  x = x
  Nothing = Nothing
  Paths = {p1, p2}
  Contents = {b, x}
  EntryIds = {e1, e2, e3, e4, e5, e6}
  PageCount <- MCPageCount
  MaxPage = 1
  MaxReceive = 1
  MaxQueued = 1
  InitialBudgets <- RaceBudgets
  Clients = {c1, c2}
  AsyncMode = FALSE
  InlineReadable = {b}
  Workers = {w1}
  Readable = {b, x}
  Registered = TRUE
  Unquoted <- MCUnquoted
  MaxActive = 2
INVARIANTS NoForeignText
SYMMETRY RaceSymmetry
