SPECIFICATION Spec
CONSTRAINT RawInStep
CONSTANTS
  ZERO_PAGE_END_WORD = 1
  KERNEL_START_WORD = 9
  KERNEL_END_WORD = 70
  REGS = 8
  MAX_ECALL = 5
  DIGEST_WORDS = 2
  BLOCKS = 2
  HALF_ROUNDS = 1
  PAGES = 2
  COUNT_RANGE = 8
  TABLE_STEP = 1
  BYTE_VALUES = 2
  SHORT_VALUES = 3
  MAX_HOST = 16
  MaxSegments <- MCMaxSegments
  Guests = {"kernel", "raw"}
  UserCode <- MCUserCode
  UserEntry <- MCUserEntry
  RawCode <- MCRawCode
  RawRegs <- MCRawRegs
  Values <- MCValues
  Answers <- MCAnswers
  PageSets <- MCPageSets
INVARIANTS MachineModeInKernel KernelUntouched
PROPERTIES RowsFollowCircuit SyscallReturns KernelReturns
CHECK_DEADLOCK FALSE
