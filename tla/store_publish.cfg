\* Two clients, two attempts each: races on one base serial, reused ids and
\* requests that fail each check of publish; no cleanup.
\* The run ends when every attempt is answered.
CONSTANTS
  HALF = 2
  apex = apex
  www = www
  ns1 = ns1
  ns2 = ns2
  a1 = a1
  a2 = a2
  Apex = apex
  Rdata = {ns1, ns2, a1, a2}
  MaxRecords = 5
  Clients = {c1, c2}
  MaxAttempts = 2
  Cleaners = {}
  Retentions = {1}
  MayBePinned = FALSE
  MaxTasks = 0
  Names <- MCNames
  Types <- MCTypes
  Creations <- MCCreations
  Requests <- PublishRequests
SPECIFICATION Spec
SYMMETRY Symmetric
INVARIANTS
  TypeOK
  SnapshotsAreZones
  LedgerMatchesVersions
  OneOutcome
  AnswersOnRecord
PROPERTIES
  PublicationPromise
CHECK_DEADLOCK FALSE
