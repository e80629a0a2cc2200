CONSTANTS
  Threads = {t1, t2}
  Sets = {s1, s2, s3}
  InitSlots = 1
  MaxSlots = 4
  NULL = NULL
  Junk = Junk
  NoThread = NoThread
SPECIFICATION Spec
INVARIANTS
  NoStaleArray
CHECK_DEADLOCK FALSE
