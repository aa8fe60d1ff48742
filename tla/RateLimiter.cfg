SPECIFICATION LSpec
CONSTANTS
  r1 = r1
  r2 = r2
  r3 = r3
  r4 = r4
  r5 = r5
  Calls = {r1, r2, r3, r4, r5}
  Max = 2
  Window = 4
  Second = 2
  Threads = 2
  LastTick = 7
INVARIANTS
  WindowHolds
  RefusedForCause
  WaitSuffices
SYMMETRY Sym
CHECK_DEADLOCK FALSE
