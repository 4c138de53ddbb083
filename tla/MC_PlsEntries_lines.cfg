SPECIFICATION Spec
CONSTANTS
  UINT_MAX = 7
  Numbers <- MCNumbers
  INT_MAX = 8191
  Lengths <- MCLengths
  Contents <- MCContents
INVARIANTS TypeOK EntriesReported
PROPERTY EndsIfFindable
