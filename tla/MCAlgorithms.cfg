INIT Init
NEXT Next
CHECK_DEADLOCK FALSE
INVARIANTS CircuitComputes DecodeMatches WitnessAccepted BytecodeKeepsMeaning CurveComputes CurveSound AcceleratorHolds
