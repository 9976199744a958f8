SPECIFICATION Spec
CONSTANTS
  MERKLE_TREE_DEPTH = 3
  PAGE_SIZE_WORDS = 2
  Val = {0, 1}
  CYCLE_COST_PAGE = 322
  CYCLE_COST_MERKLE = 13
  CYCLE_COST_EXTRA = 4122
  Available = {0, 1, 6}
INVARIANTS TypeOK CacheCoherent NodeStateIsMaximum CostIsExact SegmentCoversMemory
PROPERTY FlatMemory
CHECK_DEADLOCK FALSE
