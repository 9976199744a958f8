CONSTANTS
  Segments <- MCSegments
  KeccakClaims <- MCKeccakClaims
  Roots <- MCRoots
  Allowed <- MCAllowed
  Wanted <- MCWanted
  TrueClaims <- MCTrueClaims
  TrueDigests <- MCTrueDigests
  Session <- MCSession
  zkvm = zkvm
  keccak = keccak
  Trusted = zkvm
  NoDigest = NoDigest
SPECIFICATION Spec
INVARIANTS ReceiptsHold
PROPERTIES SessionProved
CHECK_DEADLOCK FALSE
