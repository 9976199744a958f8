SPECIFICATION Spec
CONSTANTS
  MERKLE_TREE_DEPTH = 2
  PAGE_SIZE_WORDS = 1
  Val = {0, 1}
  CYCLE_COST_PAGE = 322
  CYCLE_COST_MERKLE = 13
  CYCLE_COST_EXTRA = 4122
  HashPage <- PageDigest
  HashPair <- PairDigest
  ZeroPage <- Zeros
  MaxTouched = 4
INVARIANTS FullImageIsTrue PartImageIsTrue NothingUnavailable
