SPECIFICATION Spec
CONSTANTS
  Dir <- MCDir
  Cwd = "w"
  Name <- MCName
  Infix = {"libc"}
  Requests <- MCRequests
INVARIANT LinksChecked
\* the call returns
CHECK_DEADLOCK FALSE
