SPECIFICATION Spec
CONSTANTS
  NI = 3
  NS = 2
  Code <- MCCode
  Data <- MCData
  SymExpr <- MCSymExpr
  Proxy <- MCProxy
  Modules <- ChainModules
INVARIANT FallthroughMerged
CHECK_DEADLOCK FALSE
