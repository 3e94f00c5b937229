SPECIFICATION FairSpec
CONSTANTS
  Dir <- MCDir
  Cwd = "w"
  Name <- MCName
  Infix = {"libc"}
  Requests <- MCRequests
INVARIANTS TypeOK FirstMatch SamePaths
PROPERTY Terminates
\* the call returns
CHECK_DEADLOCK FALSE
