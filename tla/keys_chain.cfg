\* A stream of three messages, signed with one key.
CONSTANTS
  KeyIds = {k1}
  KeyNames = {n1}
  Installers = {a1}
  Lifetimes = {3}
  Conns = {t1}
  Second = 2
  Skews = {0}
  Fudge = 1
  MaxMessages = 3
  MaxNow = 1
  RowStreams <- SmallStreams
  Header = 1
  Budget = 6
  TsigSpace = 2
  TsigSize = 1
  MaxRow = 4
  MaxFrame = 6
  Window = 1
SPECIFICATION SSpec
INVARIANTS
  MacsCoverWhatPrecedes
CHECK_DEADLOCK FALSE
