SPECIFICATION Spec
CONSTANTS
  Modules <- MCModules
  NULL = NULL
  Names <- MCNames
  Workers = {w1, w2}
  Preinit = TRUE
  MaxCtor = 1
INVARIANTS ReadyBeforeUse EachMallocReported EndOfMainReported
CHECK_DEADLOCK FALSE
