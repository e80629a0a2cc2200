SPECIFICATION Spec
CONSTANTS
  Threads = {t1, t2, t3}
  NoThread = NoThread
  Infos = {i1, i2, i3}
  NoInfo = NoInfo
  Pid = Pid
  Builds = {"tls", "list"}
  LeaveFirst = TRUE
  MaxInits = 3
  MaxThreaded = 1
INVARIANTS TypeOK ListIsRing OneRecordEach
PROPERTIES LockReleased KeepsRegistry
CHECK_DEADLOCK FALSE
