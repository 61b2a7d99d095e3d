CONSTANTS
  Operands <- MCOperands
  Offsets = {1, 2046}
  Shifts = {0, 3}
  MaxPasses = 2
  CodeBases = {0, 2045}
  RamBases = {0, 32, 120, 2040}
SPECIFICATION Spec
INVARIANT OffsetRefusedEverywhere
CHECK_DEADLOCK FALSE
