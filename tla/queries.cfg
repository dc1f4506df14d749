\* Two publishes and a cleaner that keeps two versions, around one question
\* and one view.
CONSTANTS
  HALF = 2
  apex = apex
  www = www
  ns1 = ns1
  ns2 = ns2
  a1 = a1
  a2 = a2
  Apex = apex
  Rdata = {ns1, ns2, a1, a2}
  MaxRecords = 5
  Clients = {c1, c2}
  MaxAttempts = 1
  Cleaners = {w1}
  Retentions = {2}
  MayBePinned = FALSE
  MaxTasks = 0
  Askers = {q1}
  Viewers = {v1}
  UdpRoom = 1
  TcpRoom = 2
  Names <- MCNames
  Types <- MCTypes
  Creations <- MCCreations
  Requests <- GrowingRequests
SPECIFICATION QSpec
SYMMETRY Symmetric
INVARIANTS
  PositiveAnswersExact
  ExactWithinRetention
