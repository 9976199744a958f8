CONSTANTS
  QUERIES = 4
  FRI_FOLD = 4
  INV_RATE = 4
  MIN_DEGREE = 1
  PO2 = 4
  POOL = 8
  MixChallenges = {2, 77, 448}
  ZChallenges = {2, 7, 300}
  QueryChallenges = {0, 5, 16, 37, 63}
SPECIFICATION Spec
INVARIANTS Complete Sound ChallengesBind
CHECK_DEADLOCK FALSE
