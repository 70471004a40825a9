\* Two stores on the fleet's stream, room for everything and no fault at all.
CONSTANTS
  s1 = s1
  s2 = s2
  NatsStores = {s1, s2}
  HttpStores = {}
  MaxEvents = 1
  BatchSize = 2
  CursorBatch = 2
  StreamLimit = 4
  MaxFaults = 0
SPECIFICATION FairSpec
PROPERTY EveryEventLands
CHECK_DEADLOCK FALSE
