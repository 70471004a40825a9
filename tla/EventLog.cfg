\* Two events from before the chain, three after.
CONSTANTS
  LegacyCount = 2
  EventIds = {3, 4, 5}
SPECIFICATION Spec
INVARIANTS TypeOK NothingLost PrunedWasSynced OutboxInChainOrder PositionsUsedOnce 
PROPERTY ImplementsOutbox
