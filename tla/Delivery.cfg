\* One store on each link.  The stream has room for every event with the copies
\* two faults can add before it, and is full when they add more.
CONSTANTS
  s1 = s1
  s2 = s2
  NatsStores = {s1}
  HttpStores = {s2}
  MaxEvents = 2
  BatchSize = 2
  CursorBatch = 2
  StreamLimit = 5
  MaxFaults = 2
SPECIFICATION FairSpec
INVARIANTS TypeOK HandedOnce AcknowledgedIsStored NothingFallsBetween
PROPERTIES UsesOutbox ImplementsExactlyOnce EveryEventLands
CHECK_DEADLOCK FALSE
