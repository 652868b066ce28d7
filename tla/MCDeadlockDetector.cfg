SPECIFICATION Spec
CONSTANTS
  Threads = {t1, t2}
  Mutexes = {m1, m2, m3}
  Shared = {m3}
  Tried = {m3}
  Dying = {m3}
  kSize = 2
  Limits <- MCLimits
  NoMutex = NoMutex
  MaxHeld = 3
  MaxEpoch = 4
INVARIANTS NoCheckFails EdgesReal EdgesComplete
SYMMETRY Symmetry
CHECK_DEADLOCK FALSE
