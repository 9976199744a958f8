SPECIFICATION Spec
CONSTANTS
  MERKLE_TREE_DEPTH = 2
  PAGE_SIZE_WORDS = 4
  Val = {0, 1, 2, 3}
  CYCLE_COST_PAGE = 322
  CYCLE_COST_MERKLE = 13
  CYCLE_COST_EXTRA = 4122
  CODE_WORD = 0
  SUSPEND_PC_WORD = 12
  SUSPEND_MODE_WORD = 13
  INPUT_WORD = 14
  REG_WORD = 15
  Programs <- AllPrograms
  Thresholds = {4000, 5500, 7000}
  MaxCycles = 4
  HostData = {1, 2}
INVARIANTS SegmentsReplay CutsInTime
PROPERTY ExecuteReturns
CHECK_DEADLOCK FALSE
