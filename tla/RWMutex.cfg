SPECIFICATION FairSpec
CONSTANTS
  Threads = {t1, t2, t3, t4}
  Modulus = 16
INVARIANTS TypeOK StateCounts
PROPERTIES NoWriterOvertakes ImplementsLock ReaderEnters
