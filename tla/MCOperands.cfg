SPECIFICATION AllSpec
CONSTANTS
  Sym <- MCSym
  Addr <- MCAddr
  Text <- MCText
  Name <- Name4
  Format <- MCFormat
  Local <- MCLocal
  Numbered <- MCNumbered
  Unknown <- MCUnknown
  Tables <- MCTables
  Insts <- MCInsts
  ImmRange = 16
INVARIANTS AllTypeOK LabelsUnique RefersToNoOther RefersToLabel ReadsBack
CHECK_DEADLOCK FALSE
