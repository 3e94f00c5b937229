SPECIFICATION FairSpec
CONSTANTS
  Code <- MCCode
  Data <- MCData
  Section <- MCSection
  Images <- MCImages
INVARIANTS TypeOK LabelOnce LabelDefined InOwnSection PlaceKept CfiPaired
PROPERTIES ListsBlocks Terminates
\* print returns
CHECK_DEADLOCK FALSE
