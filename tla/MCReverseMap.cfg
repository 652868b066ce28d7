SPECIFICATION Spec
CONSTANTS
  stackA = stackA
  stackB = stackB
  stackC = stackC
  Threads = {t1, t2}
  Stacks = {stackA, stackB, stackC}
  Hash <- MCHash
  StorageSize <- MCSize
  kTabSize = 2
  kPartSize = 2
  kMaxId = 4
  MaxForks = 0
  Forkers = {t1}
  RegionSize = 3
  Bases = {10, 20}
  NoStack = NoStack
  Newer = TRUE
  MapNodes = 1
INVARIANT LookupsSafe
