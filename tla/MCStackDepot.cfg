SPECIFICATION FairSpec
CONSTANTS
  stackA = stackA
  stackB = stackB
  stackC = stackC
  Threads = {t1, t2}
  Stacks = {stackA, stackB, stackC}
  Hash <- MCHash
  StorageSize <- MCSize
  kTabSize = 2
  kPartSize = 2
  kMaxId = 4
  MaxForks = 1
  Forkers = {t1}
  RegionSize = 3
  Bases = {10, 20}
  NoStack = NoStack
  Newer = FALSE
  MapNodes = 1
INVARIANTS BlocksDisjoint SnapshotComplete
PROPERTIES ImplementsDepot CallsReturn
