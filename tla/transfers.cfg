\* Two publishes, a cleaner that keeps one version, one transfer.
CONSTANTS
  HALF = 2
  apex = apex
  www = www
  ns1 = ns1
  ns2 = ns2
  a1 = a1
  a2 = a2
  Apex = apex
  Rdata = {ns1, ns2, a1, a2}
  MaxRecords = 5
  Clients = {c1, c2}
  MaxAttempts = 1
  Cleaners = {w1}
  Retentions = {1}
  MayBePinned = TRUE
  MaxTasks = 0
  Sessions = {t1}
  Stale = 1
  MaxNow = 2
  Names <- MCNames
  Types <- MCTypes
  Creations <- MCCreations
  Requests <- TwoPublishes
SPECIFICATION TSpec
SYMMETRY SymmetricSessions
INVARIANTS
  TransferExact
  FreshPinKeepsRows
