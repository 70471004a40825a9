\* Two sold-out marks and a sale; one of each fault, under fairness.
CONSTANTS
  None = None  d1 = d1  sale = sale  mark1 = mark1  mark2 = mark2
  Devices = {d1}
  Events = {sale, mark1, mark2}
  FoldFirst = {mark1, mark2}
  ReplayCapacity = 1
  FanoutCapacity = 1
  HeldLimit = 1
  SocketBuffer = 2
  MaxRestarts = 1
  MaxDrops = 1
  MaxFailures = 1
SPECIFICATION FairSpec
INVARIANTS TypeOK ReplayDense NextFrameContinues 
PROPERTIES ResyncReadKeepsMarks CatchesUp
CHECK_DEADLOCK FALSE
