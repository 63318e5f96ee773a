\* at the ends of the years that four digits can write
CONSTANTS
  Times = {}
  Texts <- MCLimitTexts
  Rooms <- MCRooms
SPECIFICATION TextSpec
INVARIANTS RoundTrip
\* the caller is done
CHECK_DEADLOCK FALSE
