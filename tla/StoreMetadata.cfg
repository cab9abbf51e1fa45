SPECIFICATION Spec
CONSTANTS
  Ids <- MCIds
  Batches <- MCBatches
  MaxIngests = 2
  FlushInterval = 2
INVARIANT NoDanglingMetadata
