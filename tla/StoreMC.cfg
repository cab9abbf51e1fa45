SPECIFICATION Spec
CONSTANTS
  Ids <- MCIds
  Batches <- MCBatches
  MaxIngests = 2
  FlushInterval = 1
INVARIANTS TypeOK FlushedSound NoDangling ForeignKeysHold
PROPERTIES SweepCollectsAll IngestComplete ViewImplemented
