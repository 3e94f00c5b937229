SPECIFICATION Spec
CONSTANTS
  NI = 3
  NS = 2
  Code <- MCCode
  Data <- MCData
  SymExpr <- MCSymExpr
  Proxy <- MCProxy
  SecName <- MCSecName
  Entry <- MCEntry
  Modules <- MCModules
INVARIANTS AllListed FallsThrough LoadedSection
\* main ends
CHECK_DEADLOCK FALSE
