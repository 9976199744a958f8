CONSTANTS
  Proof <- MCProof
  Coefficients16 <- MCCoefficients
  OPS = 2
SPECIFICATION Spec
INVARIANTS RunsAgree
CHECK_DEADLOCK FALSE
