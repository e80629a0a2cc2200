SPECIFICATION Spec
CONSTANTS
  Events = {101, 102}
  Thresholds = {7, 9}
  NumCntrs = 2
INVARIANT EachHasItsEntry
