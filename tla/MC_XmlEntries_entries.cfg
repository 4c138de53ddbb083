SPECIFICATION Spec
CONSTANTS
  Documents <- MC_Documents
INVARIANTS EntriesWhole AnnouncedWhole
CHECK_DEADLOCK FALSE
