CONSTANTS
  N = 4
  OPERATIONS = 4
  USIZE_MAX = 4
SPECIFICATION Spec
CHECK_DEADLOCK FALSE
INVARIANTS ValueIsNet EndsAtZero PairsNeverWrap
