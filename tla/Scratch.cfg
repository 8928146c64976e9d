\* Calls on any paths overlap, die and race the lifecycle rule
SPECIFICATION Spec
CONSTANTS
  Callers = {c1, c2, c3}
  Files = {f1, f2, f3}
  NoFile = NoFile
  Sizes <- UpToTwo
  MaxSize = 2
  Quota = 3
  MaxCalls = 5
  MaxCrashes = 1
  MaxExpiries = 1
INVARIANTS TypeOK UsageBounded LedgerMatchesStorage SettledWithinQuota NeverUndercharged
SYMMETRY ScratchSymmetry
CHECK_DEADLOCK FALSE
