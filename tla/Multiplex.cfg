CONSTANTS
  t1 = t1
  t2 = t2
  s1 = s1
  s2 = s2
  itimer1 = itimer1
  Threads = {t1}
  Sets = {s1, s2}
  Events = {c1, c2}
  Timers = {itimer1}
  MasterOf <- OneMaster
  TimerOf <- TimerPerProcess
  MaxDegree = 2
  MaxActive = 2
  NoEvent = NoEvent
  Freed = Freed
  NoSet = NoSet
SPECIFICATION FairSpec
INVARIANTS
  TypeOK
  UsesMatch
  CurrentIsActive
  TicksArrive
PROPERTIES
  TurnComes
CHECK_DEADLOCK FALSE
