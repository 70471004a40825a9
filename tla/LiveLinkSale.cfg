\* One command, one device, no fault at all.
CONSTANTS
  None = None  d1 = d1  sale = sale  mark1 = mark1  mark2 = mark2
  Devices = {d1}
  Events = {sale}
  FoldFirst = {}
  ReplayCapacity = 1
  FanoutCapacity = 1
  HeldLimit = 1
  SocketBuffer = 1
  MaxRestarts = 0
  MaxDrops = 0
  MaxFailures = 0
SPECIFICATION Spec
INVARIANTS InStepShowsAll
CHECK_DEADLOCK FALSE
