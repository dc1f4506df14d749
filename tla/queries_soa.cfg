\* A cleaner that keeps one version; a question for the SOA.
CONSTANTS
  HALF = 2
  apex = apex
  www = www
  ns1 = ns1
  ns2 = ns2
  a1 = a1
  a2 = a2
  Apex = apex
  Rdata = {ns1, ns2, a1, a2}
  MaxRecords = 5
  Clients = {c1, c2}
  MaxAttempts = 1
  Cleaners = {w1}
  Retentions = {1}
  MayBePinned = FALSE
  MaxTasks = 0
  Askers = {q1}
  Viewers = {}
  UdpRoom = 1
  TcpRoom = 2
  Names <- MCNames
  Types <- MCTypes
  Creations <- MCCreations
  Requests <- GrowingRequests
SPECIFICATION QSpec
SYMMETRY Symmetric
INVARIANTS
  SoaIsAnswered
