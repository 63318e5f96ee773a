\* every other service of the library, each in its own states
CONSTANTS
  Times <- MCTimes
  Texts <- MCTexts
  Rooms <- MCRooms
  Callers = {t1, t2}
  Messages <- MCMessages
  WordBits = 5
  ByteBits = 2
  Polynomial <- MCPolynomial
  Users = {u1, u2}
  Ports = {gpioa, gpiob}
  Pins = {1, 2}
  NoPort = NoPort
  NoPin = 0
  Radix = 3
  HexRadix = 4
  HexDigits = 4
  U8Max = 3
  U16Max = 7
  U32Max = 31
  NumberTexts <- MCNumberTexts
  Widths = {0, 2, 3, 4}
  CharBits = 2
  FieldValues <- MCFieldValues
  PayloadSize = 11
  MaxFields = 2
  PrintFormats <- MCFormats
  Params <- MCParams
  DestSizes = {0, 3, 9}
  BufferSize = 8
  UintptrMax = 255
  Sites <- MCSites
  MaxFilename = 2
  MaxFunction = 3
  MaxLinenum = 6
  MaxNested = 2
SPECIFICATION LibrarySpec
INVARIANTS SameInstant NormalisedIsValid GreaterIsLater AcceptsRealDates RoundTrip
           CrcIsExact NumbersSurvive FrameSurvives PrintsWholePieces TinyMessageExact
PROPERTIES FirstLevelIsOwners
\* calls come to an end
CHECK_DEADLOCK FALSE
