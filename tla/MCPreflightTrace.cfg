SPECIFICATION Spec
CONSTANTS
  MERKLE_TREE_DEPTH = 2
  PAGE_SIZE_WORDS = 2
  Val = {0, 1}
  HashPage <- PageDigest
  HashPair <- PairDigest
  REG_WORD = 6
  STATE_WORD = 7
  GuestPages = {0, 1}
  InitialVal = {0}
  MaxSteps = 2
INVARIANTS MemoryHolds CyclesCancel RootOutIsTrue
CHECK_DEADLOCK FALSE
