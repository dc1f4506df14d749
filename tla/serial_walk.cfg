\* Sixteen serials, a secondary that falls up to two laps behind.
CONSTANTS
  HALF = 8
  MaxTravel = 32
SPECIFICATION Spec
INVARIANTS
  MatchesRFC1982
  RelationFollowsTravel
