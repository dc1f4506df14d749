SPECIFICATION NSpec
CONSTANTS
  MaxLabel = 3
  MaxName = 8
  Low = 4
  Ascii <- SmallAscii
  RawZones <- SomeZones
  RawNames <- SomeNames
  Octets <- SomeOctets
  MaxMessage = 5
  MaxLabels = 6
  MaxZones = 2
  MaxRecords = 1
INVARIANTS
  OwnersWithinZone
  StoredNamesEncode
  CanonicalFixed
  DecodedAsWritten
PROPERTIES
  AnsweredFromItsZone
  DecodingEnds
