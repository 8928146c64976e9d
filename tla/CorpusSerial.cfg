\* Whole operations in any order, inline extraction with escalation
SPECIFICATION Spec
CONSTANTS
  a = a
  b = b
  x = x
  Nothing = Nothing
  Paths = {p1}
  Contents = {a, b, x}
  EntryIds = {e1, e2, e3, e4}
  PageCount <- MCPageCount
  MaxPage = 2
  MaxReceive = 2
  MaxQueued = 3
  InitialBudgets <- SerialBudgets
  Clients = {c1}
  AsyncMode = FALSE
  InlineReadable = {b}
  Workers = {w1}
  Readable = {a, b}
  Registered = TRUE
  Unquoted <- MCUnquoted
  MaxActive = 1
INVARIANTS TypeOK SettledInSync SettledWithoutOrphans
