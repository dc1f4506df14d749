CONSTANTS
  KeyIds = {k1, k2}
  KeyNames = {n1, n2}
  Installers = {a1, a2}
  Lifetimes = {3}
  Conns = {t1}
  Second = 2
  Skews = {0, 2}
  Fudge = 1
  MaxMessages = 3
  MaxNow = 5
  RowStreams <- SmallStreams
  Header = 1
  Budget = 6
  TsigSpace = 2
  TsigSize = 1
  MaxRow = 4
  MaxFrame = 6
  Window = 1
SPECIFICATION SFairSpec
INVARIANTS
  NewestIsActive
  KeysInForceWork
  AcceptedWithinSecond
  FramesFit
  SentIsWhole
  AcceptedIsWhole
  WholeIsAccepted
PROPERTIES
  RetirementIsFinal
  TransferEnds
CHECK_DEADLOCK FALSE
