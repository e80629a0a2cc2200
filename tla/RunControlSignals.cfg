CONSTANTS
  t1 = t1
  t2 = t2
  itimer1 = itimer1
  itimer2 = itimer2
  Threads = {t1, t2}
  Sets = {e1, e2}
  Timers = {itimer1, itimer2}
  TimerOf <- TimerPerThread
  FailingCalls = {"vperfctr_control"}
  Threshold = 1
  MaxCount = 1
  MaxSignal = 2
  NoThread = NoThread
  NoSet = NoSet
SPECIFICATION FairSpec
INVARIANTS
  NoStockHandler
PROPERTIES
  DueIsServed
