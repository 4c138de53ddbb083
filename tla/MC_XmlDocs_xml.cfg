SPECIFICATION Spec
CONSTANTS
  TOKEN_SIZE = 8
  MAX_RECURSION = 3
  Documents <- MC_Documents
  CutPieces = 3
INVARIANTS InBounds TreeIsDocument
PROPERTY Ends
CHECK_DEADLOCK FALSE
