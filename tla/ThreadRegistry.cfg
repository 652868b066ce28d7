SPECIFICATION FairSpec
CONSTANTS
  MaxThreads = 3
  ThreadQuarantineSize = 1
  MaxReuse = 2
  UserIds = {1, 2}
  MaxTotal = 6
INVARIANTS TypeOK NoCheckFails CountersMatch ContextIsOwn UserIdFindsThread ContextsAccounted
PROPERTIES DeadStayQuarantined JoinReturns
CHECK_DEADLOCK FALSE
