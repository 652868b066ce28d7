SPECIFICATION Spec
CONSTANTS
  Threads = {t1, t2}
  Sizes = {1, 4}
  Limits <- MCLimits
  kSize = 2
  Overhead = 3
  Free = Free
  MaxPuts = 4
INVARIANTS SizesExact EachChunkOnce PurgeComplete
PROPERTY OldestFirst
SYMMETRY Symmetry
