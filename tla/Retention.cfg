SPECIFICATION RetentionSpec
CONSTANTS
  Times = {1, 43}
  Burst = 1
  Ulp = 2
  MaxBytes = 4
  MaxExports = 4
  MaxDeletes = 2
INVARIANT RetentionTypeOK
PROPERTIES PrunesSafely Converges
