SPECIFICATION Spec
CONSTANTS
  Threads = {t1, t2}
  RegionSize = 2
  Bases = {6, 8}
  Sizes = {1, 2}
  MaxBlocks = 4
INVARIANT BlocksDisjoint
CHECK_DEADLOCK FALSE
