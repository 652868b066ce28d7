SPECIFICATION Spec
CONSTANTS
  Modules <- MCModules
  NULL = NULL
  Names <- MCNames
  MaxBody = 2
  Typed = {TRUE, FALSE}
INVARIANTS TypeOK OriginalPreserved Instrumented CrashesExactlyOnNullCallee
PROPERTY PassesTerminate
