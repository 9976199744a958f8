CONSTANTS
  Inputs <- MCInputs
  Spare <- MCSpare
SPECIFICATION SpecBoth
INVARIANTS DigestIsChain TranscriptHashed
PROPERTIES RowsFollowCircuit
CHECK_DEADLOCK FALSE
