SPECIFICATION Spec
CONSTANTS
  Threads = {t1, t2, t3}
  Addrs = {x, y, z}
  kBucketSize = 1
  InitCap = 1
  NoAddr = NoAddr
INVARIANTS NoCheckFails HandlesValid
PROPERTY ImplementsMap
SYMMETRY Symmetry
