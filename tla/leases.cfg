\* Two workers that may die or outlive their leases,
\* under any pins.
CONSTANTS
  HALF = 2
  apex = apex
  www = www
  ns1 = ns1
  ns2 = ns2
  a1 = a1
  a2 = a2
  Apex = apex
  Rdata = {ns1, ns2, a1, a2}
  MaxRecords = 5
  Clients = {c1}
  MaxAttempts = 1
  Cleaners = {w1, w2}
  Retentions = {1, 2}
  MayBePinned = TRUE
  MaxTasks = 1
  Lease = 1
  LockWait = 1
  Names <- MCNames
  Types <- MCTypes
  Creations <- MCCreations
  Requests <- OnePublish
SPECIFICATION LFairSpec
INVARIANTS
  LeaseIsExclusive
  DoneMeansPruned
PROPERTIES
  StoreKept
  TasksDrain
  HistoryConverges
