SPECIFICATION FairFutexSpec
CONSTANT Threads = {t1, t2, t3, t4}
INVARIANTS FutexTypeOK HolderMarked NoLostWakeup
PROPERTIES ImplementsMutex LockProgress
