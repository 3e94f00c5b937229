SPECIFICATION Spec
CONSTANTS
  Format <- MCFormat
  Syntax <- MCSyntax
  Factory <- MCFactory
  Function <- MCFunction
  Registrations <- MCRegistrations
  DefaultSkip <- MCDefaultSkip
  MaxModules = 3
  Requests <- MCRequests
INVARIANT NamesMade
CHECK_DEADLOCK FALSE
