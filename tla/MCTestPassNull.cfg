SPECIFICATION Spec
CONSTANTS
  Modules <- MCModules
  NULL = NULL
  Names <- MCNames
  MaxBody = 1
  Typed = {}
INVARIANT CalledFunctionKnown
