SPECIFICATION FairSpec
CONSTANTS
  NI = 3
  NS = 2
  Code <- MCCode
  Data <- MCData
  SymExpr <- MCSymExpr
  Proxy <- MCProxy
  Modules <- MCModules
INVARIANTS TypeOK ItemsIntact NonOverlapping Packed NothingPending
PROPERTIES DistanceKept SoleBlockAdjoins Terminates
\* a layout that failed is final: the tools do not call the library again
CHECK_DEADLOCK FALSE
