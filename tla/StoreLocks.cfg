SPECIFICATION LocksFairSpec
CONSTANTS
  Ingesters = {traces, logs}
  Readers = {list, stats}
  Writers = {retention}
  Closer = shutdown
INVARIANTS LocksTypeOK SectionsExclude NeverUsedClosed
PROPERTY EveryCallReturns
