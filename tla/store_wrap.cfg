\* Four publishes around the serial space while cleaners prune behind them
\* and pins (any horizon) hold history back.
CONSTANTS
  HALF = 2
  apex = apex
  www = www
  ns1 = ns1
  ns2 = ns2
  a1 = a1
  a2 = a2
  Apex = apex
  Rdata = {ns1, ns2, a1, a2}
  MaxRecords = 5
  Clients = {c1, c2, c3, c4}
  MaxAttempts = 1
  Cleaners = {w1}
  Retentions = {1, 2}
  MayBePinned = TRUE
  MaxTasks = 2
  Names <- MCNames
  Types <- MCTypes
  Creations <- MCCreations
  Requests <- WrappingRequests
SPECIFICATION Spec
SYMMETRY Symmetric
INVARIANTS
  RetainedInterval
  SerialChain
  DeltasRebuildSnapshots
PROPERTIES
  VersionsImmutable
  NewestVersionsKept
