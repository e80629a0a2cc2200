CONSTANTS
  n1 = n1
  n2 = n2
  n3 = n3
  n4 = n4
  n5 = n5
  p1 = p1
  p2 = p2
  p3 = p3
  Events = {n1, n2, n4, n5, p1, p2, p3}
  Natives <- AllNatives
  Terms <- P6Terms
  Selector <- P6Selector
  NumCntrs = 2
  NoNative = NoNative
  NoEvent = NoEvent
SPECIFICATION Spec
INVARIANTS
  EventsReadTheirOwn
