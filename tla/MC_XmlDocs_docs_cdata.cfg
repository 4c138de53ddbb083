SPECIFICATION Spec
CONSTANTS
  TOKEN_SIZE = 8
  MAX_RECURSION = 3
  Documents <- MC_CData
  CutPieces = 2
INVARIANT DataIsText
CHECK_DEADLOCK FALSE
