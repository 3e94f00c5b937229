SPECIFICATION Spec
CONSTANTS
  Code <- MCCode
  Data <- MCData
  Section <- MCSection
  Images <- FullImages
INVARIANT NothingLost
\* print returns
CHECK_DEADLOCK FALSE
