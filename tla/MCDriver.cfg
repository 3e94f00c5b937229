SPECIFICATION FairSpec
CONSTANTS
  Format <- MCFormat
  Syntax <- MCSyntax
  Factory <- MCFactory
  Function <- MCFunction
  Registrations <- MCRegistrations
  DefaultSkip <- MCDefaultSkip
  MaxModules = 3
  Requests <- MCRequests
INVARIANTS TypeOK FailureTouchesNothing OwnFiles KeepWins SavedMeansDone PrinterThere DefaultWorks
PROPERTY Terminates
\* main ends
CHECK_DEADLOCK FALSE
