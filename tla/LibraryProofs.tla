---------------------------- MODULE LibraryProofs -----------------------------
(***************************************************************************)
(* Theorems about the gpio driver, the checksum and the packing of bytes.  *)
(*                                                                         *)
(* However many users there are, and whatever ports and pins: until its    *)
(* owner has set the first level of the pin, no other context reaches a    *)
(* pin through the instance, and afterwards only that pin.                 *)
(*                                                                         *)
(* However many contexts fill the table at the same time, none of them     *)
(* sums with a row that is not in place yet; for every width of a byte     *)
(* and a word, every polynomial and all data.  And the sum is the division *)
(* of the data, bit by bit, that the table stands for: a byte of the       *)
(* register passes alone, which splits a row into the rows of its bits.    *)
(*                                                                         *)
(* Whatever the size of a byte, a frame that is packed field by field can  *)
(* be read field by field: storing a field leaves the fields in front of   *)
(* it alone, and the bytes of a number sum up to it.                       *)
(***************************************************************************)
EXTENDS Gpio, Crc32, Bytes, Induction, SequenceTheorems

-----------------------------------------------------------------------------
(* The gpio driver.                                                        *)

Places == (Ports \union {NoPort}) \X (Pins \union {NoPin})

SetupSteps == {"none", "port", "pin", "state", "drive", "flag", "ready"}

\* The place that the owner asks for.
Wanted == <<setup.port, setup.pin>>

GpioTypes ==
  /\ setup \in [step : SetupSteps, port : Ports \union {NoPort}, pin : Pins \union {NoPin},
                state : States]
  /\ access \in [Users -> States \union {"none", "read", "toggle"}]
  /\ level \in [Places -> States]

\* What the owner has stored so far.
StoredInv ==
  /\ bInitialised <=> setup.step = "ready"
  /\ setup.step \in {"pin", "state", "drive", "flag", "ready"} => pPort = setup.port
  /\ setup.step \in {"state", "drive", "flag", "ready"} => tPin = setup.pin

\* Which level is known: none, or that of the owner's pin.
LevelInv ==
  \A place \in Places :
    level[place] # "eGpioUnknown" <=> setup.step \in {"flag", "ready"} /\ place = Wanted

AccessInv == \A c \in Users : access[c] # "none" => bInitialised

GpioInv == GpioTypes /\ StoredInv /\ LevelInv /\ AccessInv

-----------------------------------------------------------------------------
\* At first nothing is stored, known or under way.
LEMMA GpioInitInv == GpioInit => GpioInv
  BY DEF GpioInit, GpioInv, GpioTypes, StoredInv, LevelInv, AccessInv, Places, SetupSteps,
         Levels, States, Wanted

\* The owner's first steps leave every level unknown.
LEMMA StorePlaceKeepsInv ==
  ASSUME GpioInv,
         \/ \E port \in Ports \union {NoPort}, pin \in Pins, state \in States :
              Initialise(port, pin, state)
         \/ StorePort \/ StorePin \/ StoreState \/ SetInitialised
  PROVE  GpioInv' /\ level' = level
<1> USE DEF GpioInv, GpioTypes, StoredInv, LevelInv, AccessInv, SetupSteps, SetupStep,
            Levels, States, Wanted
<1>1. CASE \E port \in Ports \union {NoPort}, pin \in Pins, state \in States :
             Initialise(port, pin, state)
  BY <1>1 DEF Initialise
<1>2. CASE StorePort
  BY <1>2 DEF StorePort
<1>3. CASE StorePin
  BY <1>3 DEF StorePin
<1>4. CASE StoreState
  BY <1>4 DEF StoreState
<1>5. CASE SetInitialised
  BY <1>5 DEF SetInitialised
<1> QED
  BY <1>1, <1>2, <1>3, <1>4, <1>5

\* The first level goes to the place asked for.
LEMMA DrivingKeepsInv ==
  ASSUME GpioInv, DriveFirst
  PROVE  /\ GpioInv'
         /\ ~bInitialised /\ level[Wanted] = "eGpioUnknown"
         /\ level' = [level EXCEPT ![Wanted] = InitialLevel(setup.state)]
<1> USE DEF GpioInv, GpioTypes, SetupSteps, SetupStep, DriveFirst
<1>1. /\ setup.step = "drive" /\ setup' = [setup EXCEPT !.step = "flag"]
      /\ Wanted \in Places /\ Wanted' = Wanted
  BY DEF Wanted, Places
<1>2. level' = [level EXCEPT ![Wanted] = InitialLevel(setup.state)]
  BY <1>1 DEF StoredInv, Driven, Wanted
<1>3. level[Wanted] = "eGpioUnknown" /\ ~bInitialised
  BY <1>1 DEF LevelInv, StoredInv
<1>4. GpioTypes'
  BY <1>1, <1>2 DEF InitialLevel, States, Levels
<1>5. StoredInv' /\ AccessInv'
  BY <1>1 DEF StoredInv, AccessInv
<1>6. LevelInv'
  BY <1>1, <1>2 DEF LevelInv, InitialLevel, Levels, States
<1> QED
  BY <1>2, <1>3, <1>4, <1>5, <1>6

\* A user that writes or toggles reaches the owner's pin, whose level is known.
LEMMA UsingKeepsInv ==
  ASSUME GpioInv, NEW c \in Users,
         \/ \E what \in States \union {"read", "toggle"} : Use(c, what)
         \/ ReadPin(c) \/ WritePin(c) \/ TogglePin(c)
  PROVE  /\ GpioInv'
         /\ \/ level' = level
            \/ /\ bInitialised /\ level[Wanted] # "eGpioUnknown"
               /\ \E new \in Levels : level' = [level EXCEPT ![Wanted] = new]
<1> USE DEF GpioInv, GpioTypes, AccessInv
<1>1. CASE \/ \E what \in States \union {"read", "toggle"} : Use(c, what)
           \/ ReadPin(c)
  BY <1>1 DEF Use, ReadPin, StoredInv, LevelInv, Wanted
<1>2. CASE WritePin(c) \/ TogglePin(c)
  <2>1. /\ bInitialised /\ setup.step = "ready" /\ UNCHANGED <<bInitialised, pPort, tPin, setup>>
        /\ access' = [access EXCEPT ![c] = "none"]
    BY <1>2 DEF WritePin, TogglePin, StoredInv, Levels, States
  <2>2. Driven = Wanted /\ Wanted \in Places /\ Wanted' = Wanted
    BY <2>1 DEF StoredInv, Driven, Wanted, Places
  <2>3. level[Wanted] # "eGpioUnknown"
    BY <2>1, <2>2 DEF LevelInv
  <2>4. PICK new \in Levels : level' = [level EXCEPT ![Wanted] = new]
    BY <1>2, <2>2 DEF WritePin, TogglePin, WrittenLevel, Levels, States
  <2>5. GpioTypes' /\ StoredInv' /\ AccessInv'
    BY <2>1, <2>4 DEF StoredInv, Levels, States
  <2>6. LevelInv'
    BY <2>1, <2>2, <2>3, <2>4 DEF LevelInv, Levels, States
  <2> QED
    BY <2>1, <2>3, <2>4, <2>5, <2>6
<1> QED
  BY <1>1, <1>2

\* Every step keeps the invariant.
LEMMA GpioNextInv == GpioInv /\ [GpioNext]_gpioVars => GpioInv'
<1> SUFFICES ASSUME GpioInv, [GpioNext]_gpioVars
             PROVE  GpioInv'
  OBVIOUS
<1>1. CASE GpioNext
  BY <1>1, StorePlaceKeepsInv, DrivingKeepsInv, UsingKeepsInv DEF GpioNext
<1>2. CASE UNCHANGED gpioVars
  BY <1>2 DEF gpioVars, GpioInv, GpioTypes, StoredInv, LevelInv, AccessInv, Wanted
<1> QED
  BY <1>1, <1>2

\* What FirstLevelIsOwners says of one step.
LevelStep ==
  \A place \in DOMAIN level :
    level'[place] # level[place] =>
      /\ place = <<setup.port, setup.pin>>
      /\ level[place] = "eGpioUnknown" <=> ~bInitialised
      /\ ~bInitialised => level'[place] = InitialLevel(setup.state)

LEMMA StepMovesOwnPin == GpioInv /\ GpioNext => LevelStep
<1> SUFFICES ASSUME GpioInv, GpioNext
             PROVE  LevelStep
  OBVIOUS
<1> USE DEF LevelStep, Wanted
<1>1. level \in [Places -> States]
  BY DEF GpioInv, GpioTypes
<1>2. CASE DriveFirst
  BY <1>1, <1>2, DrivingKeepsInv
<1>3. CASE \E c \in Users :
             \/ \E what \in States \union {"read", "toggle"} : Use(c, what)
             \/ ReadPin(c) \/ WritePin(c) \/ TogglePin(c)
  BY <1>1, <1>3, UsingKeepsInv
<1>4. CASE \/ \E port \in Ports \union {NoPort}, pin \in Pins, state \in States :
                Initialise(port, pin, state)
           \/ StorePort \/ StorePin \/ StoreState \/ SetInitialised
  BY <1>4, StorePlaceKeepsInv
<1> QED
  BY <1>2, <1>3, <1>4 DEF GpioNext

\* The level of a pin moves only when it is the owner's, and first to what
\* the owner's state stands for (gpio.c:23-34), for all users, ports and pins.
THEOREM OwnerDrivesFirst == GpioSpec => FirstLevelIsOwners
<1>1. GpioInv /\ [GpioNext]_gpioVars => [LevelStep]_gpioVars
  BY StepMovesOwnPin
<1>2. FirstLevelIsOwners <=> [][LevelStep]_gpioVars
  BY PTL DEF FirstLevelIsOwners, LevelStep
<1> QED
  BY <1>1, <1>2, GpioInitInv, GpioNextInv, PTL DEF GpioSpec

-----------------------------------------------------------------------------
(* The table of the checksum.                                              *)

CallSteps == {"idle", "check", "fill", "sum", "returned"}

\* The first n rows of the table are what they are to be.
Filled(n) == \A row \in 0..n - 1 : f_crc32_lut[Bits(row)] = Entry(Bits(row))

CallsInv ==
  /\ DOMAIN checksum = Callers
  /\ checksum = [c \in Callers |-> checksum[c]]
  /\ \A c \in Callers : checksum[c].step \in CallSteps /\ checksum[c].ix \in Nat

CrcTypes ==
  /\ f_crc32_lut = [byte \in Byte |-> f_crc32_lut[byte]]
  /\ CallsInv

CrcInv == CrcTypes /\ TableComplete

-----------------------------------------------------------------------------
\* Whatever its number, a row is named by a byte.
LEMMA BitsAreAByte == \A n : Bits(n) \in Byte
  BY DEF Bits, Byte

\* At first no context calls, and the table is empty.
LEMMA CrcInitInv == CrcInit => CrcInv
  BY DEF CrcInit, CrcInv, CrcTypes, CallsInv, TableComplete, NoCall, CallSteps, At

\* What a context's step does to its call, and to no other.
LEMMA ProceedEffect ==
  ASSUME CallsInv, NEW c \in Callers, NEW step \in CallSteps, NEW ix \in Nat, NEW result,
         Proceed(c, step, ix, result)
  PROVE  /\ CallsInv'
         /\ checksum'[c].step = step /\ checksum'[c].ix = ix
         /\ \A d \in Callers \ {c} : checksum'[d] = checksum[d]
<1> DEFINE call == [step |-> step, data |-> checksum[c].data, ix |-> ix, result |-> result]
<1>1. checksum' = [checksum EXCEPT ![c] = call]
  BY DEF Proceed
<1>2. checksum'[c] = call /\ \A d \in Callers \ {c} : checksum'[d] = checksum[d]
  BY <1>1 DEF CallsInv
<1>3. checksum' = [d \in Callers |-> checksum'[d]] /\ DOMAIN checksum' = Callers
  BY <1>1 DEF CallsInv
<1>4. CallsInv'
  BY <1>2, <1>3 DEF CallsInv
<1> QED
  BY <1>2, <1>4

\* A row that is stored is right, whoever stores it and however often: no
\* other context loses one it has counted on.
LEMMA StoringKeepsRows ==
  ASSUME CrcTypes, NEW ix \in Nat, NEW n \in Nat, Filled(n),
         f_crc32_lut' = [f_crc32_lut EXCEPT ![Bits(ix)] = Entry(Bits(ix))]
  PROVE  Filled(n)' /\ (n = ix => Filled(n + 1)')
<1>1. \A b \in Byte : f_crc32_lut'[b] = IF b = Bits(ix) THEN Entry(b) ELSE f_crc32_lut[b]
  BY BitsAreAByte DEF CrcTypes
<1>2. Bits(ix) \in Byte /\ f_crc32_lut'[Bits(ix)] = Entry(Bits(ix))
  BY <1>1, BitsAreAByte
<1>3. \A row \in 0..n - 1 : f_crc32_lut'[Bits(row)] = Entry(Bits(row))
  BY <1>1, BitsAreAByte DEF Filled
<1>4. n = ix => \A row \in 0..n : f_crc32_lut'[Bits(row)] = Entry(Bits(row))
  <2> SUFFICES ASSUME n = ix, NEW row \in 0..n
               PROVE  f_crc32_lut'[Bits(row)] = Entry(Bits(row))
    OBVIOUS
  <2>1. CASE row = n
    BY <1>2, <2>1
  <2>2. CASE row # n
    <3>1. row \in 0..n - 1
      BY <2>2
    <3> QED
      BY <1>3, <3>1
  <2> QED
    BY <2>1, <2>2
<1> QED
  BY <1>3, <1>4 DEF Filled

\* TableComplete, with Filled for its inner quantifiers.
LEMMA CompleteIsFilled ==
  TableComplete <=>
    /\ \A c \in Callers :
         /\ At(c, "sum") => f_crc32_initialised
         /\ At(c, "fill") => Filled(checksum[c].ix)
    /\ f_crc32_initialised => Filled(Rows)
  BY DEF TableComplete, Filled

\* The steps that leave the table alone.
LEMMA CheckingKeepsInv ==
  ASSUME CrcInv, NEW c \in Callers,
         \/ AskNothing(c)
         \/ \E data \in Messages : Ask(c, data)
         \/ CheckTable(c) \/ SumByte(c) \/ ReturnSum(c)
  PROVE  CrcInv'
<1>1. UNCHANGED <<f_crc32_lut, f_crc32_initialised>>
  BY DEF AskNothing, Ask, CheckTable, SumByte, ReturnSum
<1>2. /\ CallsInv'
      /\ checksum'[c].step = "sum" => At(c, "sum") \/ f_crc32_initialised
      /\ checksum'[c].step = "fill" => checksum'[c].ix = 0
      /\ \A d \in Callers \ {c} : checksum'[d] = checksum[d]
  <2> USE DEF CrcInv, CrcTypes, CallSteps
  <2>1. CASE AskNothing(c)
    BY <2>1, ProceedEffect DEF AskNothing
  <2>2. CASE \E data \in Messages : Ask(c, data)
    <3>1. PICK data \in Messages : Ask(c, data)
      BY <2>2
    <3> DEFINE call == [step |-> "check", data |-> data, ix |-> 0, result |-> {}]
    <3>2. checksum' = [checksum EXCEPT ![c] = call]
      BY <3>1 DEF Ask
    <3>3. checksum'[c] = call /\ \A d \in Callers \ {c} : checksum'[d] = checksum[d]
      BY <3>2 DEF CallsInv
    <3>4. checksum' = [d \in Callers |-> checksum'[d]] /\ DOMAIN checksum' = Callers
      BY <3>2 DEF CallsInv
    <3>5. CallsInv'
      BY <3>3, <3>4 DEF CallsInv
    <3> QED
      BY <3>3, <3>5
  <2>3. CASE CheckTable(c)
    BY <2>3, ProceedEffect DEF CheckTable
  <2>4. CASE SumByte(c)
    <3>1. checksum[c].ix + 1 \in Nat /\ At(c, "sum")
      BY <2>4 DEF SumByte, CallsInv
    <3> QED
      BY <2>4, <3>1, ProceedEffect DEF SumByte
  <2>5. CASE ReturnSum(c)
    <3>1. checksum[c].ix \in Nat
      BY DEF CallsInv
    <3> QED
      BY <2>5, <3>1, ProceedEffect DEF ReturnSum
  <2> QED
    BY <2>1, <2>2, <2>3, <2>4, <2>5
<1>3. TableComplete'
  BY <1>1, <1>2 DEF CrcInv, TableComplete, At
<1> QED
  BY <1>1, <1>2, <1>3 DEF CrcInv, CrcTypes

\* Storing a row.
LEMMA FillRowKeepsInv ==
  ASSUME CrcInv, NEW c \in Callers, FillRow(c)
  PROVE  CrcInv'
<1> DEFINE ix == checksum[c].ix
<1>1. /\ ix \in Nat /\ At(c, "fill")
      /\ f_crc32_lut' = [f_crc32_lut EXCEPT ![Bits(ix)] = Entry(Bits(ix))]
      /\ Proceed(c, "fill", ix + 1, {})
      /\ UNCHANGED f_crc32_initialised
  BY DEF FillRow, CrcInv, CrcTypes, CallsInv
<1>2. /\ CallsInv'
      /\ checksum'[c].step = "fill" /\ checksum'[c].ix = ix + 1
      /\ \A d \in Callers \ {c} : checksum'[d] = checksum[d]
  <2>1. ix + 1 \in Nat /\ "fill" \in CallSteps /\ CallsInv
    BY <1>1 DEF CrcInv, CrcTypes, CallSteps
  <2> QED
    BY <1>1, <2>1, ProceedEffect
<1>3. f_crc32_lut' = [byte \in Byte |-> f_crc32_lut'[byte]]
  BY <1>1 DEF CrcInv, CrcTypes
<1>4. ASSUME NEW n \in Nat, Filled(n)
      PROVE  /\ \A row \in 0..n - 1 : f_crc32_lut'[Bits(row)] = Entry(Bits(row))
             /\ n = ix => \A row \in 0..ix : f_crc32_lut'[Bits(row)] = Entry(Bits(row))
  <2>1. Filled(n)' /\ (n = ix => Filled(n + 1)')
    BY <1>1, <1>4, StoringKeepsRows DEF CrcInv
  <2> QED
    BY <1>1, <2>1 DEF Filled
<1>5. ASSUME NEW d \in Callers, At(d, "fill")'
      PROVE  \A row \in 0..checksum'[d].ix - 1 : f_crc32_lut'[Bits(row)] = Entry(Bits(row))
  <2>1. CASE d = c
    <3>1. Filled(ix)
      BY <1>1, CompleteIsFilled DEF CrcInv
    <3>2. \A row \in 0..ix : f_crc32_lut'[Bits(row)] = Entry(Bits(row))
      BY <1>1, <1>4, <3>1
    <3>3. checksum'[d].ix - 1 = ix
      BY <1>1, <1>2, <2>1
    <3> QED
      BY <3>2, <3>3
  <2>2. CASE d # c
    <3>1. checksum'[d] = checksum[d] /\ At(d, "fill") /\ checksum[d].ix \in Nat
      BY <1>2, <1>5, <2>2 DEF At, CrcInv, CrcTypes, CallsInv
    <3>2. Filled(checksum[d].ix)
      BY <3>1, CompleteIsFilled DEF CrcInv
    <3> QED
      BY <1>4, <3>1, <3>2
  <2> QED
    BY <2>1, <2>2
<1>6. ASSUME NEW d \in Callers, At(d, "sum")'
      PROVE  f_crc32_initialised'
  BY <1>1, <1>2, <1>6 DEF At, CrcInv, TableComplete
<1>7. ASSUME f_crc32_initialised'
      PROVE  \A row \in 0..Rows - 1 : f_crc32_lut'[Bits(row)] = Entry(Bits(row))
  <2>1. Filled(Rows)
    BY <1>1, <1>7, CompleteIsFilled DEF CrcInv
  <2>2. \A row \in 0..Rows - 1 : f_crc32_lut[Bits(row)] = Entry(Bits(row))
    BY <2>1 DEF Filled
  <2>3. \A b \in Byte : f_crc32_lut'[b] = IF b = Bits(ix) THEN Entry(b) ELSE f_crc32_lut[b]
    BY <1>1, BitsAreAByte DEF CrcInv, CrcTypes
  <2> QED
    BY <2>2, <2>3, BitsAreAByte
<1>8. TableComplete'
  BY <1>5, <1>6, <1>7 DEF TableComplete
<1> QED
  BY <1>2, <1>3, <1>8 DEF CrcInv, CrcTypes

\* The flag is set by a context that has stored every row.
LEMMA PublishTableKeepsInv ==
  ASSUME CrcInv, NEW c \in Callers, PublishTable(c)
  PROVE  CrcInv'
<1>1. /\ At(c, "fill") /\ checksum[c].ix = Rows
      /\ f_crc32_initialised' /\ UNCHANGED f_crc32_lut
      /\ Proceed(c, "sum", 0, AllOnes)
  BY DEF PublishTable
<1>2. Filled(Rows)
  BY <1>1, CompleteIsFilled DEF CrcInv
<1>3. /\ CallsInv' /\ checksum'[c].step = "sum"
      /\ \A d \in Callers \ {c} : checksum'[d] = checksum[d]
  BY <1>1, ProceedEffect DEF CrcInv, CrcTypes, CallSteps
<1>4. \A d \in Callers : At(d, "fill")' => At(d, "fill") /\ checksum'[d].ix = checksum[d].ix
  BY <1>3 DEF At
<1>5. TableComplete'
  BY <1>1, <1>2, <1>4 DEF TableComplete, CrcInv, Filled
<1> QED
  BY <1>1, <1>3, <1>5 DEF CrcInv, CrcTypes

\* Every step keeps the invariant.
LEMMA CrcNextInv == CrcInv /\ [CrcNext]_crcVars => CrcInv'
<1> SUFFICES ASSUME CrcInv, [CrcNext]_crcVars
             PROVE  CrcInv'
  OBVIOUS
<1>1. CASE CrcNext
  BY <1>1, CheckingKeepsInv, FillRowKeepsInv, PublishTableKeepsInv DEF CrcNext, CrcStep
<1>2. CASE UNCHANGED crcVars
  BY <1>2 DEF crcVars, CrcInv, CrcTypes, CallsInv, TableComplete, At
<1> QED
  BY <1>1, <1>2

\* A context that has passed the test of f_crc32_initialised finds every row of
\* the table in place (calcCrc32.c:58-69), whatever other contexts are doing.
THEOREM TableIsComplete == CrcSpec => []TableComplete
  BY CrcInitInv, CrcNextInv, PTL DEF CrcSpec, CrcInv

-----------------------------------------------------------------------------
(* Words: exclusive or and shift.                                          *)

LEMMA Widths ==
  /\ WordBits \in Nat /\ ByteBits \in Nat /\ ByteBits >= 1 /\ ByteBits <= WordBits
  /\ Polynomial \in Word /\ AllOnes \in Word /\ Byte \subseteq Word
  BY CrcAssumption DEF CrcAssumption, AllOnes, Word, Byte

LEMMA XorIn ==
  \A a, b, k : k \in SymDiff(a, b) <=> ~ (k \in a <=> k \in b)
  BY DEF SymDiff

LEMMA XorType ==
  ASSUME NEW a \in Word, NEW b \in Word
  PROVE  SymDiff(a, b) \in Word
  BY DEF SymDiff, Word

LEMMA XorSwap ==
  ASSUME NEW a, NEW b, NEW c
  PROVE  /\ SymDiff(SymDiff(a, b), c) = SymDiff(SymDiff(a, c), b)
         /\ SymDiff(a, b) = SymDiff(b, a)
<1>1. \A k : k \in SymDiff(SymDiff(a, b), c) <=> k \in SymDiff(SymDiff(a, c), b)
  BY XorIn
<1>2. \A k : k \in SymDiff(a, b) <=> k \in SymDiff(b, a)
  BY XorIn
<1> QED
  BY <1>1, <1>2

LEMMA XorNothing ==
  ASSUME NEW a PROVE SymDiff(a, {}) = a
  BY XorIn

LEMMA XorBack ==
  ASSUME NEW a, NEW b PROVE SymDiff(SymDiff(a, b), b) = a
<1>1. \A k : k \in SymDiff(SymDiff(a, b), b) <=> k \in a
  BY XorIn
<1> QED
  BY <1>1

LEMMA ShiftType ==
  ASSUME NEW w, NEW n PROVE ShiftRight(w, n) \in Word
  BY DEF ShiftRight, Word, AllOnes

LEMMA ShiftXor ==
  ASSUME NEW a, NEW b, NEW n
  PROVE  ShiftRight(SymDiff(a, b), n) = SymDiff(ShiftRight(a, n), ShiftRight(b, n))
<1>1. \A k : k \in ShiftRight(SymDiff(a, b), n)
               <=> k \in SymDiff(ShiftRight(a, n), ShiftRight(b, n))
  BY XorIn DEF ShiftRight
<1> QED
  BY <1>1

LEMMA ShiftMore ==
  ASSUME NEW w \in Word, NEW n \in Nat
  PROVE  /\ ShiftRight(w, 0) = w
         /\ ShiftRight(ShiftRight(w, n), 1) = ShiftRight(w, n + 1)
         /\ 0 \in ShiftRight(w, n) <=> n \in w
<1>1. /\ WordBits \in Nat /\ w \subseteq AllOnes /\ AllOnes = 0..WordBits - 1
      /\ 0 \in AllOnes
  BY Widths DEF Word, AllOnes
<1>2. \A k : k \in ShiftRight(w, 0) <=> k \in w
  <2>1. \A k \in AllOnes : k + 0 = k
    BY <1>1
  <2> QED
    BY <1>1, <2>1 DEF ShiftRight
<1>3. \A k \in AllOnes : k + 1 + n \in w => k + 1 \in AllOnes
  BY <1>1
<1>4. \A k : k \in ShiftRight(ShiftRight(w, n), 1) <=> k \in ShiftRight(w, n + 1)
  <2> TAKE k
  <2> SUFFICES ASSUME k \in AllOnes
               PROVE  k + 1 \in AllOnes /\ k + 1 + n \in w <=> k + (n + 1) \in w
    BY DEF ShiftRight
  <2>1. k + 1 + n = k + (n + 1)
    BY <1>1
  <2> QED
    BY <1>3, <2>1
<1>5. 0 \in ShiftRight(w, n) <=> n \in w
  BY <1>1 DEF ShiftRight
<1> QED
  BY <1>2, <1>4, <1>5

\* Dividing by x is linear, and a shift of what has no ones in the last place.
LEMMA DivideXor ==
  ASSUME NEW a \in Word, NEW b \in Word, 0 \notin b
  PROVE  /\ DivideByX(a) \in Word
         /\ DivideByX(SymDiff(a, b)) = SymDiff(DivideByX(a), ShiftRight(b, 1))
<1> DEFINE poly == IF 0 \in a THEN Polynomial ELSE {}
<1>1. 0 \in SymDiff(a, b) <=> 0 \in a
  BY XorIn
<1>2. DivideByX(a) = SymDiff(ShiftRight(a, 1), poly)
  BY DEF DivideByX
<1>3. DivideByX(SymDiff(a, b))
        = SymDiff(SymDiff(ShiftRight(a, 1), ShiftRight(b, 1)), poly)
  BY <1>1, ShiftXor DEF DivideByX
<1>4. poly \in Word
  BY Widths DEF Word
<1> HIDE DEF poly
<1>5. DivideByX(a) \in Word
  BY <1>2, <1>4, ShiftType, XorType
<1> QED
  BY <1>2, <1>3, <1>5, XorSwap

-----------------------------------------------------------------------------
(* A byte at a time is eight bits at a time.                               *)

\* The passes of the inner loop of calcCrc32_Initialise.
Passes(f, w) ==
  /\ f \in [0..ByteBits -> Word] /\ f[0] = w
  /\ \A k \in 1..ByteBits : f[k] = DivideByX(f[k - 1])

LEMMA EntryPasses ==
  ASSUME NEW w \in Word
  PROVE  \E f : Passes(f, w) /\ Entry(w) = f[ByteBits]
<1> DEFINE step == [p \in Word \X (1..ByteBits) |-> DivideByX(p[1])]
           e == CHOOSE g : g = [k \in 0..ByteBits |->
                                  IF k = 0 THEN w ELSE DivideByX(g[k - 1])]
<1>1. \A v \in Word : DivideByX(v) \in Word
  <2> TAKE v \in Word
  <2>1. {} \in Word /\ 0 \notin {}
    BY DEF Word
  <2> QED
    BY <2>1, DivideXor
<1>2. step \in [Word \X (1..ByteBits) -> Word]
  BY <1>1
<1>3. \A v \in Word, k \in 1..ByteBits : step[<<v, k>>] = DivideByX(v)
  OBVIOUS
<1> HIDE DEF step
<1>4. PICK f \in [0..ByteBits -> Word] :
        f[0] = w /\ \A k \in 1..ByteBits : f[k] = step[<<f[k - 1], k>>]
  <2>1. ByteBits \in Nat
    BY Widths
  <2> HIDE DEF e
  <2>2. step \in Rules(ByteBits, Word)
    BY <1>2 DEF Rules
  <2>3. \E f : Follows(f, ByteBits, Word, w, step)
    BY <2>1, <2>2, RecursiveFunction
  <2> QED
    BY <2>3 DEF Follows
<1>5. \A k \in 1..ByteBits : f[k] = DivideByX(f[k - 1])
  <2> TAKE k \in 1..ByteBits
  <2>1. f[k - 1] \in Word
    BY <1>4, Widths
  <2> QED
    BY <1>3, <1>4, <2>1
<1>6. f = [k \in 0..ByteBits |-> IF k = 0 THEN w ELSE DivideByX(f[k - 1])]
  <2>1. \A k \in 0..ByteBits : f[k] = IF k = 0 THEN w ELSE DivideByX(f[k - 1])
    BY <1>4, <1>5, Widths
  <2> QED
    BY <1>4, <2>1
<1>7. e = [k \in 0..ByteBits |-> IF k = 0 THEN w ELSE DivideByX(e[k - 1])]
  BY <1>6
<1>8. Entry(w) = e[ByteBits]
  BY DEF Entry
<1> HIDE DEF e
<1>9. \A k \in 0..ByteBits : e[k] \in Word
  <2> DEFINE typed == {k \in 0..ByteBits : e[k] \in Word}
  <2>1. 0 \in typed
    BY <1>7, Widths
  <2>2. \A k \in 0..ByteBits - 1 : k \in typed => k + 1 \in typed
    <3> TAKE k \in 0..ByteBits - 1
    <3> SUFFICES ASSUME e[k] \in Word PROVE e[k + 1] \in Word
      BY Widths
    <3>1. k + 1 \in 0..ByteBits /\ (k + 1) - 1 = k /\ k + 1 # 0
      BY Widths
    <3> QED
      BY <1>1, <1>7, <3>1
  <2> HIDE DEF typed
  <2>3. \A k \in 0..ByteBits : k \in typed
    BY <2>1, <2>2, Widths, IntervalInduction
  <2> QED
    BY <2>3 DEF typed
<1>10. e[0] = w /\ \A k \in 1..ByteBits : e[k] = DivideByX(e[k - 1])
  BY <1>7, Widths
<1>11. e \in [0..ByteBits -> Word]
  BY <1>7, <1>9
<1> QED
  BY <1>8, <1>10, <1>11 DEF Passes

\* What a word has above its low k bits only moves down in k passes.
LEMMA PassesApart ==
  ASSUME NEW a \in Word, NEW b \in Word, b \intersect (0..ByteBits - 1) = {},
         NEW f, Passes(f, SymDiff(a, b)), NEW g, Passes(g, a)
  PROVE  \A k \in 0..ByteBits : f[k] = SymDiff(g[k], ShiftRight(b, k))
<1> DEFINE good == {k \in 0..ByteBits : f[k] = SymDiff(g[k], ShiftRight(b, k))}
<1>1. 0 \in good
  BY Widths, ShiftMore DEF Passes
<1>2. ASSUME NEW k \in 0..ByteBits - 1, k \in good
      PROVE  k + 1 \in good
  <2>1. /\ k \in Nat /\ k + 1 \in 1..ByteBits /\ k + 1 \in 0..ByteBits /\ (k + 1) - 1 = k
    BY Widths
  <2>2. f[k] = SymDiff(g[k], ShiftRight(b, k)) /\ g[k] \in Word /\ ShiftRight(b, k) \in Word
    BY <1>2, <2>1, Widths, ShiftType DEF Passes
  <2>3. 0 \notin ShiftRight(b, k)
    BY <2>1, ShiftMore
  <2>4. f[k + 1] = DivideByX(f[k]) /\ g[k + 1] = DivideByX(g[k])
    BY <2>1 DEF Passes
  <2>5. f[k + 1] = SymDiff(g[k + 1], ShiftRight(ShiftRight(b, k), 1))
    BY <2>2, <2>3, <2>4, DivideXor
  <2> QED
    BY <2>1, <2>5, ShiftMore
<1> HIDE DEF good
<1>3. \A k \in 0..ByteBits : k \in good
  BY <1>1, <1>2, Widths, IntervalInduction
<1> QED
  BY <1>3 DEF good

\* The row for a word's low byte, and the rest shifted, are the word after
\* ByteBits passes.
LEMMA EntrySplits ==
  ASSUME NEW w \in Word
  PROVE  /\ LowByte(w) \in Byte
         /\ Entry(w) = SymDiff(ShiftRight(w, ByteBits), Entry(LowByte(w)))
<1> DEFINE low  == LowByte(w)
           high == w \ LowByte(w)
<1>1. /\ low \in Word /\ high \in Word /\ low \in Byte
      /\ high \intersect (0..ByteBits - 1) = {}
  BY DEF Word, Byte, LowByte
<1>2. w = SymDiff(low, high)
  <2>1. \A k : k \in w <=> k \in SymDiff(low, high)
    BY XorIn DEF LowByte
  <2> QED
    BY <2>1
<1>3. ShiftRight(high, ByteBits) = ShiftRight(w, ByteBits)
  <2>1. \A k \in AllOnes : k + ByteBits \notin 0..ByteBits - 1
    BY Widths DEF AllOnes
  <2> QED
    BY <2>1 DEF ShiftRight, LowByte
<1> HIDE DEF low, high
<1>4. PICK f : Passes(f, w) /\ Entry(w) = f[ByteBits]
  BY EntryPasses
<1>5. PICK g : Passes(g, low) /\ Entry(low) = g[ByteBits]
  BY <1>1, EntryPasses
<1>6. f[ByteBits] = SymDiff(g[ByteBits], ShiftRight(high, ByteBits))
  <2>1. ByteBits \in 0..ByteBits
    BY Widths
  <2> QED
    BY <1>1, <1>2, <1>4, <1>5, <2>1, PassesApart
<1>7. Entry(w) = SymDiff(ShiftRight(w, ByteBits), Entry(low))
  BY <1>3, <1>4, <1>5, <1>6, XorSwap
<1> QED
  BY <1>1, <1>7 DEF low

-----------------------------------------------------------------------------
(* What the definition of the checksum computes.                           *)

\* The register after a bit.
FedBit(word, bit) ==
  SymDiff(ShiftRight(word, 1), IF bit # (0 \in word) THEN Polynomial ELSE {})

BitOf(data, n) == (n - 1) % ByteBits \in data[(n - 1) \div ByteBits + 1]

LEMMA FedBitType ==
  ASSUME NEW word \in Word, NEW bit \in BOOLEAN
  PROVE  FedBit(word, bit) \in Word
<1>1. (IF bit # (0 \in word) THEN Polynomial ELSE {}) \in Word
  BY Widths DEF Word
<1> QED
  BY <1>1, ShiftType, XorType DEF FedBit

LEMMA FedMeaning ==
  ASSUME NEW data \in Seq(Byte), NEW seed \in Word
  PROVE  LET N == ByteBits * Len(data)
         IN  /\ N \in Nat
             /\ Fed(data, seed) \in [0..N -> Word]
             /\ Fed(data, seed)[0] = seed
             /\ \A n \in 1..N :
                  Fed(data, seed)[n] = FedBit(Fed(data, seed)[n - 1], BitOf(data, n))
<1> DEFINE N == ByteBits * Len(data)
           rule == [p \in Word \X (1..N) |-> FedBit(p[1], BitOf(data, p[2]))]
           e == CHOOSE g : g = [n \in 0..N |->
                  IF n = 0 THEN seed
                  ELSE SymDiff(ShiftRight(g[n - 1], 1),
                         IF ((n - 1) % ByteBits \in data[(n - 1) \div ByteBits + 1])
                              # (0 \in g[n - 1])
                         THEN Polynomial ELSE {})]
<1>1. N \in Nat
  BY Widths
<1>2. Fed(data, seed) = e
  BY DEF Fed
<1>3. e = CHOOSE g : g = [n \in 0..N |->
                            IF n = 0 THEN seed ELSE FedBit(g[n - 1], BitOf(data, n))]
  BY DEF FedBit, BitOf
<1> HIDE DEF N, e
<1>4. \A n : BitOf(data, n) \in BOOLEAN
  BY DEF BitOf
<1>5. \A v \in Word, n \in 1..N : FedBit(v, BitOf(data, n)) \in Word
  BY <1>4, FedBitType
<1>6. rule \in Rules(N, Word)
  BY <1>5 DEF Rules
<1>7. \A v \in Word, n \in 1..N : rule[<<v, n>>] = FedBit(v, BitOf(data, n))
  OBVIOUS
<1> HIDE DEF rule
<1>8. PICK f : Follows(f, N, Word, seed, rule)
  BY <1>1, <1>6, RecursiveFunction
<1>9. /\ f \in [0..N -> Word] /\ f[0] = seed
      /\ \A n \in 1..N : f[n] = FedBit(f[n - 1], BitOf(data, n))
  <2>1. ASSUME NEW n \in 1..N PROVE f[n - 1] \in Word
    BY <1>1, <1>8 DEF Follows
  <2> QED
    BY <1>7, <1>8, <2>1 DEF Follows
<1>10. f = [n \in 0..N |-> IF n = 0 THEN seed ELSE FedBit(f[n - 1], BitOf(data, n))]
  <2>1. \A n \in 0..N : f[n] = IF n = 0 THEN seed ELSE FedBit(f[n - 1], BitOf(data, n))
    BY <1>1, <1>9
  <2> QED
    BY <1>9, <2>1
<1>11. e = [n \in 0..N |-> IF n = 0 THEN seed ELSE FedBit(e[n - 1], BitOf(data, n))]
  BY <1>3, <1>10
<1>12. e[0] = seed /\ \A n \in 1..N : e[n] = FedBit(e[n - 1], BitOf(data, n))
  BY <1>1, <1>11
<1>13. \A n \in 0..N : e[n] \in Word
  <2> DEFINE typed == {n \in 0..N : e[n] \in Word}
  <2>1. 0 \in typed
    BY <1>1, <1>12
  <2>2. \A n \in 0..N - 1 : n \in typed => n + 1 \in typed
    <3> TAKE n \in 0..N - 1
    <3> SUFFICES ASSUME e[n] \in Word PROVE e[n + 1] \in Word
      BY <1>1
    <3>1. n + 1 \in 1..N /\ (n + 1) - 1 = n
      BY <1>1
    <3> QED
      BY <1>5, <1>12, <3>1
  <2> HIDE DEF typed
  <2>3. \A n \in 0..N : n \in typed
    BY <1>1, <2>1, <2>2, IntervalInduction
  <2> QED
    BY <2>3 DEF typed
<1>14. e \in [0..N -> Word]
  BY <1>11, <1>13
<1> QED
  BY <1>1, <1>2, <1>12, <1>14 DEF N

\* Feeding a byte bit by bit is looking up its row (calcCrc32.c:101-108).
LEMMA FedByte ==
  ASSUME NEW data \in Seq(Byte), NEW seed \in Word, NEW i \in 0..Len(data) - 1
  PROVE  LET r == Fed(data, seed)[ByteBits * i]
             x == SymDiff(r, data[i + 1])
         IN  /\ r \in Word
             /\ LowByte(x) \in Byte
             /\ Fed(data, seed)[ByteBits * (i + 1)]
                  = SymDiff(ShiftRight(r, ByteBits), Entry(LowByte(x)))
<1> DEFINE N == ByteBits * Len(data)
           F == Fed(data, seed)
           first == ByteBits * i
           r == F[first]
           d == data[i + 1]
           x == SymDiff(r, d)
<1>1. /\ N \in Nat /\ F \in [0..N -> Word]
      /\ \A n \in 1..N : F[n] = FedBit(F[n - 1], BitOf(data, n))
  BY FedMeaning
<1>2. first \in Nat /\ first + ByteBits = ByteBits * (i + 1) /\ first + ByteBits <= N
  <2>1. i \in Nat /\ Len(data) \in Nat /\ i + 1 <= Len(data)
    OBVIOUS
  <2>2. ByteBits * (i + 1) <= ByteBits * Len(data)
    BY <2>1, Widths
  <2> QED
    BY <2>1, <2>2, Widths
<1>3. d \in Byte /\ d \in Word
  BY Widths
<1> HIDE DEF N, F, first
<1>4. r \in Word
  BY <1>1, <1>2, Widths
<1>5. x \in Word
  BY <1>3, <1>4, XorType
<1>6. PICK f : Passes(f, x) /\ Entry(x) = f[ByteBits]
  BY <1>5, EntryPasses
<1> DEFINE good == {k \in 0..ByteBits : F[first + k] = SymDiff(f[k], ShiftRight(d, k))}
<1>7. 0 \in good
  <2>1. f[0] = x /\ ShiftRight(d, 0) = d
    BY <1>3, <1>6, ShiftMore DEF Passes
  <2>2. SymDiff(x, d) = r
    BY XorBack
  <2>3. first + 0 = first /\ 0 \in 0..ByteBits
    BY <1>2, Widths
  <2> QED
    BY <2>1, <2>2, <2>3
<1>8. ASSUME NEW k \in 0..ByteBits - 1, k \in good
      PROVE  k + 1 \in good
  <2> DEFINE n == first + (k + 1)
             s == ShiftRight(d, k)
  <2>1. /\ k \in Nat /\ k + 1 \in 1..ByteBits /\ (k + 1) - 1 = k /\ k \in 0..ByteBits
        /\ n \in 1..N /\ n - 1 = first + k
    BY <1>1, <1>2, Widths
  <2>2. F[n] = FedBit(F[first + k], BitOf(data, n))
    BY <1>1, <2>1
  <2>3. BitOf(data, n) <=> k \in d
    <3>1. (n - 1) \div ByteBits = i /\ (n - 1) % ByteBits = k
      <4>1. n - 1 = ByteBits * i + k
        BY <2>1 DEF first
      <4> QED
        <5>1. ByteBits \in Nat \ {0} /\ i \in Int
          BY Widths
        <5>2. /\ (ByteBits * i + k) \div ByteBits = i
              /\ (ByteBits * i + k) % ByteBits = k
          BY <5>1, Quotient
        <5> HIDE DEF n
        <5> QED
          BY <4>1, <5>2
    <3> QED
      BY <3>1 DEF BitOf
  <2>4. /\ F[first + k] = SymDiff(f[k], s) /\ f[k] \in Word /\ s \in Word
        /\ 0 \in s <=> k \in d
    BY <1>3, <1>6, <1>8, <2>1, ShiftType, ShiftMore DEF Passes
  <2>5. f[k + 1] = DivideByX(f[k])
    BY <1>6, <2>1 DEF Passes
  <2> DEFINE poly == IF 0 \in f[k] THEN Polynomial ELSE {}
  <2> HIDE DEF s, n
  <2>6. 0 \in SymDiff(f[k], s) <=> ~ (0 \in f[k] <=> 0 \in s)
    BY XorIn
  <2>7. F[n] = SymDiff(ShiftRight(SymDiff(f[k], s), 1), poly)
    <3>1. (BitOf(data, n) # (0 \in SymDiff(f[k], s))) <=> 0 \in f[k]
      BY <2>3, <2>4, <2>6 DEF BitOf
    <3> QED
      BY <2>2, <2>4, <3>1 DEF FedBit
  <2> HIDE DEF poly
  <2>8. F[n] = SymDiff(SymDiff(ShiftRight(f[k], 1), poly), ShiftRight(s, 1))
    BY <2>7, ShiftXor, XorSwap
  <2>9. F[n] = SymDiff(f[k + 1], ShiftRight(s, 1))
    BY <2>5, <2>8 DEF DivideByX, poly
  <2>10. ShiftRight(s, 1) = ShiftRight(d, k + 1)
    BY <1>3, <2>1, ShiftMore DEF s
  <2> QED
    BY <2>1, <2>9, <2>10, Widths DEF n
<1> HIDE DEF good
<1>9. ByteBits \in good
  <2>1. \A k \in 0..ByteBits : k \in good
    BY <1>7, <1>8, Widths, IntervalInduction
  <2> QED
    BY <2>1, Widths
<1>10. ShiftRight(d, ByteBits) = {}
  <2>1. \A k \in AllOnes : k + ByteBits \notin d
    BY <1>3, Widths DEF AllOnes, Byte
  <2> QED
    BY <2>1 DEF ShiftRight
<1>11. F[first + ByteBits] = Entry(x)
  BY <1>6, <1>9, <1>10, XorNothing DEF good
<1>12. ShiftRight(x, ByteBits) = ShiftRight(r, ByteBits)
  <2>1. ShiftRight(x, ByteBits) = SymDiff(ShiftRight(r, ByteBits), ShiftRight(d, ByteBits))
    BY ShiftXor
  <2> QED
    BY <1>10, <2>1, XorNothing
<1>13. LowByte(x) \in Byte /\ Entry(x) = SymDiff(ShiftRight(x, ByteBits), Entry(LowByte(x)))
  BY <1>5, EntrySplits
<1> QED
  BY <1>2, <1>4, <1>11, <1>12, <1>13 DEF F, first

-----------------------------------------------------------------------------
(* Every byte has a row.                                                   *)

\* n is the number with ones at the places of b.
Counts(n, b) == \A k \in Nat : (n \div 2 ^ k) % 2 = 1 <=> k \in b

LEMMA CountsNext ==
  ASSUME NEW n \in Nat, NEW b \in SUBSET Nat, Counts(n, {k \in Nat : k + 1 \in b})
  PROVE  Counts(2 * n + (IF 0 \in b THEN 1 ELSE 0), b)
<1> DEFINE e == IF 0 \in b THEN 1 ELSE 0
           next == 2 * n + e
<1>1. e \in 0..1 /\ (e = 1 <=> 0 \in b)
  OBVIOUS
<1>2. next \in Nat /\ next \div 2 = n /\ next % 2 = e
  <2> HIDE DEF e
  <2> QED
    BY <1>1, Quotient
<1> HIDE DEF e, next
<1>3. ASSUME NEW k \in Nat PROVE (next \div 2 ^ k) % 2 = 1 <=> k \in b
  <2>1. CASE k = 0
    <3>1. 2 ^ k = 1 /\ next \div 1 = next
      BY <1>2, <2>1
    <3> QED
      BY <1>1, <1>2, <2>1, <3>1
  <2>2. CASE k # 0
    <3>1. k - 1 \in Nat /\ (k - 1) + 1 = k
      BY <2>2
    <3>2. 2 ^ k = 2 * 2 ^ (k - 1) /\ 2 ^ (k - 1) \in Nat \ {0}
      BY <3>1, PowerOfTwo
    <3>3. next \div 2 ^ k = n \div 2 ^ (k - 1)
      <4> DEFINE p == 2 ^ (k - 1)
      <4>1. p \in Nat \ {0} /\ 2 ^ k = 2 * p
        BY <3>2
      <4> HIDE DEF p
      <4>2. next \div (2 * p) = (next \div 2) \div p
        <5>1. 2 \in Nat \ {0} /\ next \in Nat
          BY <1>2
        <5> QED
          BY <4>1, <5>1, DivideTwice, Zenon
      <4>3. next \div 2 ^ k = n \div p
        BY <1>2, <4>1, <4>2
      <4> QED
        BY <4>3 DEF p
    <3> QED
      BY <3>1, <3>3 DEF Counts
  <2> QED
    BY <2>1, <2>2
<1> QED
  BY <1>3 DEF Counts, next, e

LEMMA EverySetCounts ==
  ASSUME NEW m \in Nat
  PROVE  \A b \in SUBSET (0..m - 1) : \E n \in 0..2 ^ m - 1 : Counts(n, b)
<1> DEFINE good == {i \in Nat : \A b \in SUBSET (0..i - 1) :
                                  \E n \in 0..2 ^ i - 1 : Counts(n, b)}
<1>1. 0 \in good
  <2>1. Counts(0, {})
    <3>1. ASSUME NEW k \in Nat PROVE (0 \div 2 ^ k) % 2 = 0
      <4> DEFINE p == 2 ^ k
      <4>1. p \in Nat \ {0}
        BY PowerOfTwo
      <4> HIDE DEF p
      <4>2. (0 \div p) % 2 = 0
        BY <4>1
      <4> QED
        BY <4>2, Zenon DEF p
    <3> QED
      BY <3>1 DEF Counts
  <2>2. SUBSET (0..0 - 1) = {{}}
    OBVIOUS
  <2>3. 0 \in 0..2 ^ 0 - 1
    OBVIOUS
  <2> QED
    BY <2>1, <2>2, <2>3
<1>2. ASSUME NEW i \in Nat, i \in good
      PROVE  i + 1 \in good
  <2> SUFFICES ASSUME NEW b \in SUBSET (0..i)
               PROVE  \E n \in 0..2 ^ (i + 1) - 1 : Counts(n, b)
    OBVIOUS
  <2> DEFINE c == {k \in Nat : k + 1 \in b}
  <2>1. c \in SUBSET (0..i - 1) /\ b \in SUBSET Nat
    OBVIOUS
  <2>2. PICK n \in 0..2 ^ i - 1 : Counts(n, c)
    BY <1>2, <2>1
  <2> DEFINE next == 2 * n + (IF 0 \in b THEN 1 ELSE 0)
  <2>3. 2 ^ i \in Nat /\ 2 ^ (i + 1) = 2 * 2 ^ i
    BY PowerOfTwo
  <2>4. n \in Nat /\ next \in 0..2 ^ (i + 1) - 1
    BY <2>3
  <2>5. Counts(next, b)
    BY <2>1, <2>2, <2>4, CountsNext
  <2> QED
    BY <2>4, <2>5
<1> HIDE DEF good
<1>3. \A i \in Nat : i \in good
  BY <1>1, <1>2, SetInduction
<1> QED
  BY <1>3 DEF good

\* The table has CALC_CRC32_LUT_LEN rows, and that is one for each byte.
LEMMA EveryByteHasARow ==
  ASSUME NEW b \in Byte
  PROVE  \E n \in 0..Rows - 1 : Bits(n) = b
<1>1. ByteBits \in Nat /\ b \in SUBSET (0..ByteBits - 1)
  BY Widths DEF Byte
<1>2. PICK n \in 0..2 ^ ByteBits - 1 : Counts(n, b)
  BY <1>1, EverySetCounts
<1>3. Bits(n) = b
  <2>1. \A k \in 0..ByteBits - 1 : (n \div 2 ^ k) % 2 = 1 <=> k \in b
    BY <1>2 DEF Counts
  <2>2. Bits(n) = {k \in 0..ByteBits - 1 : k \in b}
    BY <2>1, Zenon DEF Bits
  <2> QED
    BY <1>1, <2>2
<1> QED
  BY <1>2, <1>3 DEF Rows

\* A whole table has the right entry for every byte.
LEMMA WholeTable ==
  ASSUME Filled(Rows), NEW b \in Byte
  PROVE  f_crc32_lut[b] = Entry(b)
  BY EveryByteHasARow DEF Filled

-----------------------------------------------------------------------------
(* What a call has summed so far.                                          *)

SumOf(call) ==
  /\ call.data \in Seq(Byte)
  /\ call.step = "idle" => call.data = <<>>
  /\ call.step = "sum" =>
       /\ call.ix <= Len(call.data)
       /\ call.result = Fed(call.data, AllOnes)[ByteBits * call.ix]
  /\ call.step = "returned" =>
       call.result = SymDiff(Register(call.data, AllOnes), AllOnes)

SumInv == \A c \in Callers : SumOf(checksum[c])

\* No data: the seed, complemented (calcCrc32.c:81-85).
LEMMA NothingFed ==
  SymDiff(Register(<<>>, AllOnes), AllOnes) = {}
<1>1. Fed(<<>>, AllOnes)[0] = AllOnes
  <2>1. <<>> \in Seq(Byte) /\ AllOnes \in Word
    BY Widths
  <2> QED
    BY <2>1, FedMeaning
<1>2. ByteBits * Len(<<>>) = 0
  BY Widths
<1>3. \A k : k \notin SymDiff(AllOnes, AllOnes)
  BY XorIn
<1> QED
  BY <1>1, <1>2, <1>3 DEF Register

\* A call's step changes the record of that call only.
LEMMA ProceedRecord ==
  ASSUME CallsInv, NEW c \in Callers, NEW step, NEW ix, NEW result,
         Proceed(c, step, ix, result), SumInv,
         SumOf([step |-> step, data |-> checksum[c].data, ix |-> ix, result |-> result])
  PROVE  SumInv'
<1> DEFINE call == [step |-> step, data |-> checksum[c].data, ix |-> ix, result |-> result]
<1>1. checksum' = [checksum EXCEPT ![c] = call]
  BY DEF Proceed
<1>2. checksum'[c] = call /\ \A d \in Callers \ {c} : checksum'[d] = checksum[d]
  BY <1>1 DEF CallsInv
<1>3. ASSUME NEW d \in Callers PROVE SumOf(checksum'[d])
  BY <1>2 DEF SumInv
<1> QED
  BY <1>3 DEF SumInv

LEMMA SumByteKeepsSum ==
  ASSUME CrcInv, SumInv, NEW c \in Callers, SumByte(c)
  PROVE  SumInv'
<1> DEFINE call == checksum[c]
           row == LowByte(SymDiff(call.result, call.data[call.ix + 1]))
           result == SymDiff(ShiftRight(call.result, ByteBits), f_crc32_lut[row])
<1>1. /\ At(c, "sum") /\ call.ix < Len(call.data) /\ call.ix \in Nat
      /\ Proceed(c, "sum", call.ix + 1, result)
      /\ CallsInv
  BY DEF SumByte, CrcInv, CrcTypes, CallsInv
<1>2. /\ call.data \in Seq(Byte)
      /\ call.result = Fed(call.data, AllOnes)[ByteBits * call.ix]
  BY <1>1 DEF SumInv, SumOf, At
<1>3. Filled(Rows)
  BY <1>1, CompleteIsFilled DEF CrcInv
<1>4. call.ix \in 0..Len(call.data) - 1 /\ AllOnes \in Word
  BY <1>1, <1>2, Widths
<1>5. /\ row \in Byte
      /\ Fed(call.data, AllOnes)[ByteBits * (call.ix + 1)]
           = SymDiff(ShiftRight(call.result, ByteBits), Entry(row))
  BY <1>2, <1>4, FedByte
<1>6. result = Fed(call.data, AllOnes)[ByteBits * (call.ix + 1)]
  BY <1>3, <1>5, WholeTable
<1>7. SumOf([step |-> "sum", data |-> call.data, ix |-> call.ix + 1, result |-> result])
  <2>1. call.ix + 1 <= Len(call.data)
    BY <1>1, <1>2
  <2> HIDE DEF call, result
  <2> QED
    BY <1>2, <1>6, <2>1 DEF SumOf
<1> HIDE DEF result
<1> QED
  BY <1>1, <1>7, ProceedRecord

LEMMA NextSum == CrcInv /\ SumInv /\ [CrcNext]_crcVars => SumInv'
<1> SUFFICES ASSUME CrcInv, SumInv, [CrcNext]_crcVars
             PROVE  SumInv'
  OBVIOUS
<1>0. CallsInv
  BY DEF CrcInv, CrcTypes
<1>1. ASSUME NEW c \in Callers, AskNothing(c) PROVE SumInv'
  <2>1. checksum[c].data = <<>> /\ <<>> \in Seq(Byte)
    BY <1>1 DEF SumInv, SumOf, AskNothing, At
  <2>2. SumOf([step |-> "returned", data |-> checksum[c].data, ix |-> 0, result |-> {}])
    BY <2>1, NothingFed DEF SumOf
  <2> QED
    BY <1>0, <1>1, <2>2, ProceedRecord DEF AskNothing
<1>2. ASSUME NEW c \in Callers, NEW data \in Messages, Ask(c, data) PROVE SumInv'
  <2> DEFINE call == [step |-> "check", data |-> data, ix |-> 0, result |-> {}]
  <2>1. checksum' = [checksum EXCEPT ![c] = call]
    BY <1>2 DEF Ask
  <2>2. checksum'[c] = call /\ \A d \in Callers \ {c} : checksum'[d] = checksum[d]
    BY <1>0, <2>1 DEF CallsInv
  <2>3. data \in Seq(Byte)
    BY CrcAssumption DEF CrcAssumption
  <2>4. SumOf(call)
    BY <2>3 DEF SumOf
  <2> HIDE DEF call
  <2>5. ASSUME NEW d \in Callers PROVE SumOf(checksum'[d])
    BY <2>2, <2>4 DEF SumInv
  <2> QED
    BY <2>5 DEF SumInv
<1>3. ASSUME NEW c \in Callers,
             NEW step \in {"fill", "sum"}, NEW ix \in Nat,
             NEW result, Proceed(c, step, ix, result),
             step = "sum" => ix = 0 /\ result = AllOnes
      PROVE  SumInv'
  <2>1. checksum[c].data \in Seq(Byte)
    BY DEF SumInv, SumOf
  <2>2. Fed(checksum[c].data, AllOnes)[0] = AllOnes /\ ByteBits * 0 = 0
    BY <2>1, Widths, FedMeaning
  <2>3. 0 <= Len(checksum[c].data)
    BY <2>1
  <2>4. SumOf([step |-> step, data |-> checksum[c].data, ix |-> ix, result |-> result])
    BY <1>3, <2>1, <2>2, <2>3 DEF SumOf
  <2> QED
    BY <1>0, <1>3, <2>4, ProceedRecord
<1>4. ASSUME NEW c \in Callers, CheckTable(c) PROVE SumInv'
  <2>1. \/ Proceed(c, "sum", 0, AllOnes)
        \/ Proceed(c, "fill", 0, {})
    BY <1>4 DEF CheckTable
  <2> QED
    BY <1>3, <2>1
<1>5. ASSUME NEW c \in Callers, FillRow(c) PROVE SumInv'
  <2>1. Proceed(c, "fill", checksum[c].ix + 1, {}) /\ checksum[c].ix + 1 \in Nat
    BY <1>0, <1>5 DEF FillRow, CallsInv
  <2> QED
    BY <1>3, <2>1
<1>6. ASSUME NEW c \in Callers, PublishTable(c) PROVE SumInv'
  BY <1>3, <1>6 DEF PublishTable
<1>7. ASSUME NEW c \in Callers, ReturnSum(c) PROVE SumInv'
  <2> DEFINE call == checksum[c]
             result == SymDiff(call.result, AllOnes)
  <2>1. /\ call.data \in Seq(Byte)
        /\ call.result = Fed(call.data, AllOnes)[ByteBits * call.ix]
        /\ call.ix = Len(call.data)
        /\ Proceed(c, "returned", call.ix, result)
    BY <1>7 DEF SumInv, SumOf, ReturnSum, At
  <2>2. result = SymDiff(Register(call.data, AllOnes), AllOnes)
    BY <2>1 DEF Register
  <2>3. SumOf([step |-> "returned", data |-> call.data, ix |-> call.ix, result |-> result])
    <3> HIDE DEF call, result
    <3> QED
      BY <2>1, <2>2 DEF SumOf
  <2> HIDE DEF result
  <2> QED
    BY <1>0, <2>1, <2>3, ProceedRecord
<1>8. CASE UNCHANGED crcVars
  BY <1>8 DEF crcVars, SumInv
<1> QED
  BY <1>1, <1>2, <1>4, <1>5, <1>6, <1>7, <1>8, SumByteKeepsSum DEF CrcNext, CrcStep

\* Every caller gets the checksum that the polynomial and the seed define
\* (calcCrc32.c:46), of all data of every length, whoever fills the table
\* meanwhile: the table walks through a byte's bits in one step.
THEOREM ChecksumIsExact == CrcSpec => []CrcIsExact
<1>1. CrcInit => SumInv
  <2>1. SumOf(NoCall)
    BY DEF SumOf, NoCall
  <2> QED
    BY <2>1 DEF CrcInit, SumInv
<1>2. SumInv => CrcIsExact
  BY DEF SumInv, SumOf, CrcIsExact, At
<1> QED
  BY <1>1, <1>2, CrcInitInv, CrcNextInv, NextSum, PTL DEF CrcSpec

-----------------------------------------------------------------------------
(* Numbers and their bytes.                                                *)

LEMMA Weights ==
  ASSUME NEW n \in Nat
  PROVE  /\ Weight(n) \in Nat \ {0} /\ Weight(0) = 1
         /\ Weight(n + 1) = Weight(n) * Base
         /\ Base \in Nat \ {0}
<1>1. CharBits \in Nat /\ CharBits * n \in Nat
  BY BytesAssumption DEF BytesAssumption
<1>2. /\ CharBits * 0 = 0 /\ CharBits * 1 = CharBits
      /\ CharBits * (n + 1) = CharBits * n + CharBits
  BY <1>1
<1>3. 2 ^ (CharBits * n + CharBits) = 2 ^ (CharBits * n) * 2 ^ CharBits
  BY <1>1, PowerSum
<1>4. 2 ^ 0 = 1
  OBVIOUS
<1>5. Weight(n) \in Nat \ {0} /\ Base \in Nat \ {0}
  BY <1>1, <1>2, PowerOfTwo DEF Weight, Base
<1>6. Weight(n + 1) = Weight(n) * Base
  BY <1>2, <1>3, Zenon DEF Weight, Base
<1>7. Weight(0) = 1
  BY <1>2, <1>4, Zenon DEF Weight
<1> QED
  BY <1>5, <1>6, <1>7

\* A weight is even: half of it is a whole number.
LEMMA EvenWeight ==
  ASSUME NEW n \in Nat \ {0}
  PROVE  /\ Weight(n) \div 2 \in Nat \ {0}
         /\ Weight(n) = 2 * (Weight(n) \div 2)
<1>1. CharBits * n \in Nat \ {0} /\ CharBits * n - 1 \in Nat
  BY BytesAssumption DEF BytesAssumption
<1> DEFINE h == 2 ^ (CharBits * n - 1)
<1>2. (CharBits * n - 1) + 1 = CharBits * n
  BY <1>1
<1>3. h \in Nat \ {0} /\ Weight(n) = 2 * h
  BY <1>1, <1>2, PowerOfTwo DEF Weight
<1> HIDE DEF h
<1> QED
  BY <1>3

\* One byte more taken off a number.
LEMMA Peel ==
  ASSUME NEW u \in Nat, NEW n \in Nat
  PROVE  /\ (u \div Weight(n)) % Base \in 0..Base - 1
         /\ Weight(n) * (u \div Weight(n))
              = ((u \div Weight(n)) % Base) * Weight(n)
                  + Weight(n + 1) * (u \div Weight(n + 1))
<1> DEFINE w == Weight(n)
           q == u \div w
<1>1. w \in Nat \ {0} /\ Base \in Nat \ {0} /\ Weight(n + 1) = w * Base
  BY Weights
<1> HIDE DEF w
<1>2. u \div (w * Base) = q \div Base
  BY <1>1, DivideTwice, Zenon
<1>3. q \in Nat /\ Base \in Nat \ {0}
  BY <1>1
<1> HIDE DEF q
<1> DEFINE p == q \div Base
           r == q % Base
<1>4. q = Base * p + r /\ p \in Nat /\ r \in 0..Base - 1
  BY <1>3
<1> HIDE DEF p, r
<1>5. w * q = r * w + (w * Base) * p
  BY <1>1, <1>4
<1> QED
  BY <1>1, <1>2, <1>4, <1>5 DEF w, q, p, r

\* A number is the sum of its bytes' worth.
LEMMA SumOfBytes ==
  ASSUME NEW u \in Nat
  PROVE  LET b(n) == (u \div Weight(n)) % Base
         IN  /\ u < Weight(2) => u = b(1) * Base + b(0)
             /\ u < Weight(4) =>
                  u = b(3) * Weight(3) + b(2) * Weight(2) + b(1) * Base + b(0)
             /\ u < Weight(8) =>
                  u = b(0) * Weight(0) + b(1) * Weight(1) + b(2) * Weight(2)
                        + b(3) * Weight(3) + b(4) * Weight(4) + b(5) * Weight(5)
                        + b(6) * Weight(6) + b(7) * Weight(7)
<1> DEFINE b(n) == (u \div Weight(n)) % Base
           term(n) == b(n) * Weight(n)
           rest(n) == Weight(n) * (u \div Weight(n))
<1>1. ASSUME NEW n \in Nat
      PROVE  /\ term(n) \in Int /\ rest(n) \in Int /\ rest(n) = term(n) + rest(n + 1)
             /\ u < Weight(n) => rest(n) = 0
  <2>1. Weight(n) \in Nat \ {0} /\ b(n) \in Int /\ Base \in Nat \ {0}
    BY Weights, Peel
  <2>2. rest(n) = term(n) + rest(n + 1)
    BY Peel
  <2> DEFINE w == Weight(n)
  <2>3. u < w => u \div w = 0
    <3>1. w \in Nat \ {0}
      BY <2>1
    <3> HIDE DEF w
    <3> QED
      BY <3>1
  <2>4. u \div w \in Int
    BY <2>1
  <2> QED
    BY <2>1, <2>2, <2>3, <2>4
<1>2. rest(0) = u
  BY Weights
<1>3. b(0) = term(0) /\ Weight(1) = Base /\ b(1) * Base = term(1)
  <2>1. Weight(0) = 1 /\ b(0) \in Int
    BY Weights, Peel
  <2> QED
    BY <2>1 DEF Base
<1> DEFINE t == [n \in 0..8 |-> term(n)]
           r == [n \in 0..8 |-> rest(n)]
<1>4. \A n \in 0..8 : t[n] = term(n) /\ r[n] = rest(n) /\ t[n] \in Int /\ r[n] \in Int
  BY <1>1
<1>5. \A n \in 0..7 : r[n] = t[n] + r[n + 1]
  BY <1>1
<1>6. /\ u < Weight(2) => r[2] = 0
      /\ u < Weight(4) => r[4] = 0
      /\ u < Weight(8) => r[8] = 0
  BY <1>1
<1>7. r[0] = u
  BY <1>2
<1> HIDE DEF b, term, rest, t, r
<1>8. /\ r[2] = 0 => u = t[1] + t[0]
      /\ r[4] = 0 => u = t[3] + t[2] + t[1] + t[0]
      /\ r[8] = 0 => u = t[0] + t[1] + t[2] + t[3] + t[4] + t[5] + t[6] + t[7]
  BY <1>4, <1>5, <1>7
<1>9. /\ u < Weight(2) => u = b(1) * Base + b(0)
      /\ u < Weight(4) => u = term(3) + term(2) + b(1) * Base + b(0)
      /\ u < Weight(8) => u = term(0) + term(1) + term(2) + term(3)
                                + term(4) + term(5) + term(6) + term(7)
  BY <1>3, <1>4, <1>6, <1>8
<1> QED
  BY <1>9 DEF b, term

\* The casts to unsigned and back.
LEMMA CastBack ==
  ASSUME NEW kind \in Kinds, NEW v \in NumbersOf(kind)
  PROVE  /\ kind.size \in {2, 4, 8} /\ kind.signed \in BOOLEAN /\ kind.big \in BOOLEAN
         /\ kind.big => kind.size = 2
         /\ Unsigned(v, kind.size) \in 0..Weight(kind.size) - 1
         /\ kind.signed => Signed(Unsigned(v, kind.size), kind.size) = v
         /\ ~kind.signed => Unsigned(v, kind.size) = v
<1>1. /\ kind.size \in {2, 4, 8} /\ kind.signed \in BOOLEAN /\ kind.big \in BOOLEAN
      /\ kind.big => kind.size = 2
  BY DEF Kinds
<1> DEFINE w == Weight(kind.size)
           h == w \div 2
<1>2. h \in Nat \ {0} /\ w = 2 * h
  BY <1>1, EvenWeight
<1>3. IF kind.signed THEN v \in -h..h - 1 ELSE v \in 0..w - 1
  BY DEF NumbersOf
<1>4. Unsigned(v, kind.size) = v % w /\ \A x : Signed(x, kind.size) = IF x < h THEN x ELSE x - w
  BY DEF Unsigned, Signed
<1> HIDE DEF w, h
<1>5. w \in Nat \ {0} /\ v \in Int
  BY <1>1, <1>2, <1>3
<1>6. v >= 0 => v % w = v
  BY <1>2, <1>3, <1>5
<1>7. v < 0 => v % w = v + w
  <2> SUFFICES ASSUME v < 0 PROVE v % w = v + w
    OBVIOUS
  <2>1. v + w \in 0..w - 1
    BY <1>2, <1>3, <1>5
  <2>2. (w * (-1) + (v + w)) % w = v + w
    BY <1>5, <2>1, Quotient
  <2>3. w * (-1) + (v + w) = v
    BY <1>5
  <2> QED
    BY <2>2, <2>3
<1>8. /\ v % w \in 0..w - 1
      /\ kind.signed => (IF v % w < h THEN v % w ELSE (v % w) - w) = v
      /\ ~kind.signed => v % w = v
  BY <1>1, <1>2, <1>3, <1>5, <1>6, <1>7
<1> QED
  BY <1>1, <1>4, <1>8 DEF w

-----------------------------------------------------------------------------
(* Reading back.                                                           *)

\* The bytes of one field are those of its value.
Encodes(bytes, kind, value) ==
  IF kind.big THEN bytes[1] = GetHiByte(value) /\ bytes[2] = GetLoByte(value)
  ELSE \A n \in 1..kind.size : bytes[n] = ByteOf(value, kind.size, n - 1)

\* What FrameSurvives says of one field, whose bytes are given.
ReadsBack(bytes, kind, value) ==
  LET worth(n) == bytes[n] * Weight(n - 1)
  IN  IF kind.size = 8
      THEN worth(1) + worth(2) + worth(3) + worth(4)
             + worth(5) + worth(6) + worth(7) + worth(8) = Unsigned(value, 8)
      ELSE Read(kind, bytes) = value

\* For every number of the kind, and all widths of a byte.
LEMMA EncodedReadsBack ==
  ASSUME NEW kind \in Kinds, NEW value \in NumbersOf(kind), NEW bytes,
         Encodes(bytes, kind, value)
  PROVE  ReadsBack(bytes, kind, value)
<1> DEFINE u == Unsigned(value, kind.size)
           b(n) == (u \div Weight(n)) % Base
<1>1. /\ kind.size \in {2, 4, 8} /\ kind.signed \in BOOLEAN /\ kind.big \in BOOLEAN
      /\ kind.big => kind.size = 2
      /\ u \in 0..Weight(kind.size) - 1
      /\ kind.signed => Signed(u, kind.size) = value
      /\ ~kind.signed => u = value
  BY CastBack
<1>2. \A n : ByteOf(value, kind.size, n) = b(n)
  BY DEF ByteOf
<1>3. Weight(kind.size) \in Nat
  BY <1>1, Weights
<1>4. u \in Nat /\ u < Weight(kind.size)
  BY <1>1, <1>3
<1>5. /\ kind.size = 2 => u = b(1) * Base + b(0)
      /\ kind.size = 4 => u = b(3) * Weight(3) + b(2) * Weight(2) + b(1) * Base + b(0)
      /\ kind.size = 8 =>
           u = b(0) * Weight(0) + b(1) * Weight(1) + b(2) * Weight(2)
                 + b(3) * Weight(3) + b(4) * Weight(4) + b(5) * Weight(5)
                 + b(6) * Weight(6) + b(7) * Weight(7)
  BY <1>4, SumOfBytes
<1> HIDE DEF u, b
<1>6. CASE kind.big
  <2>1. bytes[1] = b(1) /\ bytes[2] = b(0) /\ kind.size = 2
    BY <1>1, <1>2, <1>6 DEF Encodes, GetHiByte, GetLoByte
  <2>2. BytesToU16(bytes) = u
    BY <1>5, <2>1 DEF BytesToU16
  <2>3. Read(kind, bytes) = value
    BY <1>1, <1>6, <2>1, <2>2 DEF Read
  <2> QED
    BY <2>1, <2>3 DEF ReadsBack
<1>7. CASE ~kind.big
  <2>1. \A n \in 1..kind.size : bytes[n] = b(n - 1)
    BY <1>2, <1>7 DEF Encodes
  <2>2. CASE kind.size = 2
    <3>1. bytes[1] = b(0) /\ bytes[2] = b(1)
      BY <2>1, <2>2
    <3>2. BytesToU16Le(bytes) = u
      BY <1>5, <2>2, <3>1 DEF BytesToU16Le, DecodeLe
    <3>3. Read(kind, bytes) = value
      BY <1>1, <1>7, <2>2, <3>2 DEF Read
    <3> QED
      BY <2>2, <3>3 DEF ReadsBack
  <2>3. CASE kind.size = 4
    <3>1. bytes[1] = b(0) /\ bytes[2] = b(1) /\ bytes[3] = b(2) /\ bytes[4] = b(3)
      BY <2>1, <2>3
    <3>2. BytesToU32Le(bytes) = u
      BY <1>5, <2>3, <3>1 DEF BytesToU32Le
    <3>3. Read(kind, bytes) = value
      BY <1>1, <1>7, <2>3, <3>2 DEF Read
    <3> QED
      BY <2>3, <3>3 DEF ReadsBack
  <2>4. CASE kind.size = 8
    <3> DEFINE worth(n) == bytes[n] * Weight(n - 1)
    <3>1. /\ worth(1) = b(0) * Weight(0) /\ worth(2) = b(1) * Weight(1)
          /\ worth(3) = b(2) * Weight(2) /\ worth(4) = b(3) * Weight(3)
          /\ worth(5) = b(4) * Weight(4) /\ worth(6) = b(5) * Weight(5)
          /\ worth(7) = b(6) * Weight(6) /\ worth(8) = b(7) * Weight(7)
      BY <2>1, <2>4
    <3> HIDE DEF worth
    <3>2. worth(1) + worth(2) + worth(3) + worth(4)
            + worth(5) + worth(6) + worth(7) + worth(8) = u
      BY <1>5, <2>4, <3>1
    <3> QED
      BY <2>4, <3>2 DEF ReadsBack, worth, u
  <2> QED
    BY <1>1, <2>2, <2>3, <2>4
<1> QED
  BY <1>6, <1>7

-----------------------------------------------------------------------------
(* The payload.                                                            *)

Slice(mem, field) == SubSeq(mem, field.offset + 1, field.offset + field.kind.size)

MemInv == payload \in Seq(Int) /\ Len(payload) = PayloadSize + Behind

FieldsInv ==
  /\ fields \in Seq([kind : Kinds, value : Int, offset : Nat])
  /\ Offset \in 0..PayloadSize
  /\ \A k \in DOMAIN fields : fields[k].offset + fields[k].kind.size <= Offset

FrameInv == MemInv /\ FieldsInv /\ FrameSurvives

LEMMA SliceIs ==
  ASSUME NEW mem \in Seq(Int), NEW a \in Nat, NEW s \in Nat, a + s <= Len(mem)
  PROVE  SubSeq(mem, a + 1, a + s) = [i \in 1..s |-> mem[a + i]]
<1> DEFINE part == SubSeq(mem, a + 1, a + s)
<1>1. a + 1 \in 1..Len(mem) + 1 /\ a + s \in (a + 1) - 1..Len(mem)
  OBVIOUS
<1>2. /\ part \in Seq(Int) /\ Len(part) = (a + s) - (a + 1) + 1
      /\ \A i \in 1..(a + s) - (a + 1) + 1 : part[i] = mem[(a + 1) + i - 1]
  BY <1>1, SubSeqProperties
<1>3. (a + s) - (a + 1) + 1 = s /\ \A i \in 1..s : (a + 1) + i - 1 = a + i
  OBVIOUS
<1> HIDE DEF part
<1>4. part \in [1..s -> Int] /\ \A i \in 1..s : part[i] = mem[a + i]
  BY <1>2, <1>3
<1>5. part = [i \in 1..s |-> mem[a + i]]
  BY <1>4
<1> QED
  BY <1>5 DEF part

LEMMA FieldTypes ==
  ASSUME FieldsInv, NEW k \in 1..Len(fields)
  PROVE  /\ k \in DOMAIN fields
         /\ fields[k].offset \in Nat /\ fields[k].kind \in Kinds
<1> DEFINE Field == [kind : Kinds, value : Int, offset : Nat]
<1>1. fields \in Seq(Field)
  BY DEF FieldsInv
<1>2. \A field \in Field : field.offset \in Nat /\ field.kind \in Kinds
  OBVIOUS
<1> HIDE DEF Field
<1>3. fields[k] \in Field /\ k \in DOMAIN fields
  BY <1>1
<1> QED
  BY <1>2, <1>3

\* FrameSurvives, field by field.
LEMMA FrameByField ==
  FrameSurvives <=>
    /\ \A n \in PayloadSize + 1..PayloadSize + Behind : payload[n] = Neighbour
    /\ \A k \in DOMAIN fields :
         ReadsBack(Slice(payload, fields[k]), fields[k].kind, fields[k].value)
  BY DEF FrameSurvives, ReadsBack, Slice

LEMMA Sizes ==
  ASSUME NEW kind \in Kinds
  PROVE  kind.size \in {2, 4, 8} /\ kind.size \in Nat
<1>1. kind.size \in {2, 4, 8}
  BY DEF Kinds
<1> QED
  BY <1>1

\* A step that stores the bytes of a number in the next free places, and
\* nothing else, and keeps account of it, keeps the frame.
LEMMA PackingKeepsInv ==
  ASSUME FrameInv, NEW kind \in Kinds, NEW value \in NumbersOf(kind),
         Room >= kind.size, AddField(kind, value),
         DOMAIN payload' = DOMAIN payload, payload' \in Seq(Int),
         \A n \in DOMAIN payload :
           n - Offset \notin 1..kind.size => payload'[n] = payload[n],
         Encodes([i \in 1..kind.size |-> payload'[Offset + i]], kind, value)
  PROVE  FrameInv'
<1> DEFINE start == Offset
           size == kind.size
           new == [kind |-> kind, value |-> value, offset |-> Offset]
<1>1. size \in {2, 4, 8} /\ start \in 0..PayloadSize /\ start + size <= PayloadSize
  BY Sizes, BytesAssumption DEF FrameInv, FieldsInv, Room, BytesAssumption
<1>2. Len(payload') = PayloadSize + Behind /\ DOMAIN payload = 1..PayloadSize + Behind
  BY DEF FrameInv, MemInv
<1>3. fields' = Append(fields, new)
  BY DEF AddField
<1>4. value \in Int
  <2>1. Weight(kind.size) \in Nat
    BY Sizes, Weights
  <2> QED
    BY <2>1 DEF NumbersOf
<1>5. /\ fields' \in Seq([kind : Kinds, value : Int, offset : Nat])
      /\ Len(fields') = Len(fields) + 1
      /\ fields'[Len(fields) + 1] = new
      /\ \A k \in 1..Len(fields) : fields'[k] = fields[k]
      /\ fields \in Seq([kind : Kinds, value : Int, offset : Nat])
  BY <1>1, <1>3, <1>4 DEF FrameInv, FieldsInv
<1>6. Offset' = start + size
  <2>1. fields' # <<>> /\ fields'[Len(fields')] = new
    BY <1>5
  <2> QED
    BY <2>1 DEF Offset, Last
<1>7. \A k \in 1..Len(fields) : /\ fields[k].offset + fields[k].kind.size <= start
                                /\ fields[k].offset \in Nat /\ fields[k].kind \in Kinds
  BY FieldTypes DEF FrameInv, FieldsInv
<1> HIDE DEF start, new
<1>8. FieldsInv'
  <2>1. ASSUME NEW k \in 1..Len(fields) + 1
        PROVE  fields'[k].offset + fields'[k].kind.size <= start + size
    <3>1. CASE k = Len(fields) + 1
      <4>1. fields'[k].offset = start /\ fields'[k].kind = kind
        BY <1>5, <3>1 DEF new, start
      <4> QED
        BY <1>1, <4>1
    <3>2. CASE k \in 1..Len(fields)
      <4>1. fields[k].kind.size \in Nat
        BY <1>7, <3>2, Sizes
      <4>2. /\ fields'[k] = fields[k] /\ fields[k].offset \in Nat
            /\ fields[k].offset + fields[k].kind.size <= start
        BY <1>5, <1>7, <3>2
      <4>3. start <= start + size /\ start \in Int /\ size \in Int
        BY <1>1
      <4> QED
        BY <4>1, <4>2, <4>3
    <3> QED
      BY <1>5, <3>1, <3>2
  <2> QED
    BY <1>1, <1>5, <1>6, <2>1, BytesAssumption, SMTT(60) DEF FieldsInv, BytesAssumption
<1>9. \A n \in PayloadSize + 1..PayloadSize + Behind : payload'[n] = Neighbour
  <2> TAKE n \in PayloadSize + 1..PayloadSize + Behind
  <2>1. n \in 1..PayloadSize + Behind /\ n - start \notin 1..size
    BY <1>1, BytesAssumption DEF BytesAssumption, Behind
  <2>2. payload[n] = Neighbour
    BY DEF FrameInv, FrameSurvives
  <2> QED
    BY <1>2, <2>1, <2>2 DEF start
<1>10. ASSUME NEW k \in 1..Len(fields)
       PROVE  Slice(payload', fields[k]) = Slice(payload, fields[k])
  <2> DEFINE a == fields[k].offset
             s == fields[k].kind.size
  <2>1. a \in Nat /\ s \in Nat /\ a + s <= start
    BY <1>7, Sizes
  <2> HIDE DEF a, s
  <2>2. a + s <= PayloadSize + Behind
    BY <1>1, <2>1, BytesAssumption DEF BytesAssumption, Behind
  <2>3. \A i \in 1..s : payload'[a + i] = payload[a + i]
    <3> TAKE i \in 1..s
    <3>1. a + i \in 1..PayloadSize + Behind /\ (a + i) - start \notin 1..size
      <4>1. start \in Int /\ PayloadSize + Behind \in Int
        BY <1>1, BytesAssumption DEF BytesAssumption, Behind
      <4> QED
        BY <2>1, <2>2, <4>1
    <3> QED
      BY <1>2, <3>1 DEF start
  <2>4. SubSeq(payload', a + 1, a + s) = [i \in 1..s |-> payload'[a + i]]
    BY <1>2, <2>1, <2>2, SliceIs
  <2>5. SubSeq(payload, a + 1, a + s) = [i \in 1..s |-> payload[a + i]]
    BY <2>1, <2>2, SliceIs DEF FrameInv, MemInv
  <2>6. SubSeq(payload', a + 1, a + s) = SubSeq(payload, a + 1, a + s)
    BY <2>3, <2>4, <2>5
  <2> QED
    BY <2>6 DEF Slice, a, s
<1>11. Slice(payload', new) = [i \in 1..size |-> payload'[start + i]]
  <2>1. start + size <= Len(payload') /\ start \in Nat /\ size \in Nat
    BY <1>1, <1>2, BytesAssumption, SMTT(60) DEF BytesAssumption, Behind
  <2>2. SubSeq(payload', start + 1, start + size) = [i \in 1..size |-> payload'[start + i]]
    BY <2>1, SliceIs
  <2> QED
    BY <2>2 DEF Slice, new, start
<1>12. ReadsBack(Slice(payload', new), kind, value)
  BY <1>11, EncodedReadsBack DEF start
<1>13. \A k \in 1..Len(fields) + 1 :
         ReadsBack(Slice(payload', fields'[k]), fields'[k].kind, fields'[k].value)
  <2> TAKE k \in 1..Len(fields) + 1
  <2>1. CASE k = Len(fields) + 1
    <3>1. fields'[k] = new /\ new.kind = kind /\ new.value = value
      BY <1>5, <2>1 DEF new
    <3> QED
      BY <1>12, <3>1
  <2>2. CASE k \in 1..Len(fields)
    <3>1. ReadsBack(Slice(payload, fields[k]), fields[k].kind, fields[k].value)
      <4>1. k \in DOMAIN fields
        BY <1>5, <2>2
      <4> QED
        BY <4>1, FrameByField DEF FrameInv
    <3> QED
      BY <1>5, <1>10, <2>2, <3>1
  <2> QED
    BY <1>5, <2>1, <2>2
<1>14. DOMAIN fields' = 1..Len(fields) + 1
  BY <1>5
<1>15. FrameSurvives'
  BY <1>9, <1>13, <1>14 DEF FrameSurvives, ReadsBack, Slice
<1> QED
  BY <1>2, <1>8, <1>15 DEF FrameInv, MemInv

-----------------------------------------------------------------------------
(* The steps.                                                              *)

LEMMA StoredIs ==
  ASSUME MemInv, NEW offset \in Nat, NEW bytes \in Seq(Int)
  PROVE  LET mem == WithBytes(payload, offset, bytes)
         IN  /\ mem \in Seq(Int) /\ DOMAIN mem = DOMAIN payload
             /\ \A n \in DOMAIN payload :
                  mem[n] = IF n - offset \in 1..Len(bytes) THEN bytes[n - offset] ELSE payload[n]
<1> DEFINE mem == WithBytes(payload, offset, bytes)
           L == Len(payload)
<1>1. L \in Nat /\ DOMAIN payload = 1..L /\ DOMAIN bytes = 1..Len(bytes)
  BY DEF MemInv
<1>2. /\ DOMAIN mem = 1..L
      /\ \A n \in 1..L :
           mem[n] = IF n - offset \in 1..Len(bytes) THEN bytes[n - offset] ELSE payload[n]
      /\ mem = [n \in 1..L |-> mem[n]]
  BY <1>1 DEF WithBytes
<1>3. \A n \in 1..L : mem[n] \in Int
  BY <1>1, <1>2, ElementOfSeq DEF MemInv
<1> HIDE DEF mem, L
<1>4. mem \in [1..L -> Int]
  BY <1>2, <1>3
<1>5. mem \in Seq(Int)
  BY <1>1, <1>4, SeqDef
<1> QED
  BY <1>1, <1>2, <1>5 DEF mem

LEMMA BytesAreInts ==
  ASSUME NEW kind \in Kinds, NEW value \in NumbersOf(kind), NEW n \in Nat
  PROVE  ByteOf(value, kind.size, n) \in Int
<1>1. Unsigned(value, kind.size) \in 0..Weight(kind.size) - 1 /\ kind.size \in Nat
  BY CastBack, Sizes
<1>2. Unsigned(value, kind.size) \in Nat
  BY <1>1, Weights
<1> QED
  BY <1>2, Peel, Weights DEF ByteOf

LEMMA PackLeKeepsInv ==
  ASSUME FrameInv, NEW kind \in Kinds, NEW value \in NumbersOf(kind), PackLe(kind, value)
  PROVE  FrameInv'
<1> DEFINE bytes == [n \in 1..kind.size |-> ByteOf(value, kind.size, n - 1)]
<1>0. kind.size \in {2, 4, 8} /\ kind.size \in Nat /\ Offset \in Nat
  BY Sizes, BytesAssumption DEF FrameInv, FieldsInv, BytesAssumption
<1>1. CASE Room >= kind.size
  <2>1. /\ ~kind.big /\ payload' = WithBytes(payload, Offset, bytes)
        /\ AddField(kind, value)
    BY <1>1 DEF PackLe, ToBytesLe
  <2>2. bytes \in [1..kind.size -> Int]
    BY <1>0, BytesAreInts
  <2>3. bytes \in Seq(Int) /\ Len(bytes) = kind.size
    <3> HIDE DEF bytes
    <3> QED
      BY <1>0, <2>2, SeqDef
  <2>4. /\ payload' \in Seq(Int) /\ DOMAIN payload' = DOMAIN payload
        /\ \A n \in DOMAIN payload :
             payload'[n] = IF n - Offset \in 1..kind.size THEN bytes[n - Offset] ELSE payload[n]
    BY <1>0, <2>1, <2>3, StoredIs DEF FrameInv
  <2>5. \A i \in 1..kind.size : payload'[Offset + i] = bytes[i]
    <3> TAKE i \in 1..kind.size
    <3>1. Offset + i \in DOMAIN payload /\ (Offset + i) - Offset = i
      BY <1>0, <1>1, BytesAssumption DEF Room, FrameInv, MemInv, BytesAssumption, Behind
    <3> QED
      BY <2>4, <3>1
  <2>6. Encodes([i \in 1..kind.size |-> payload'[Offset + i]], kind, value)
    BY <2>1, <2>5 DEF Encodes
  <2> QED
    BY <1>1, <2>1, <2>4, <2>6, PackingKeepsInv
<1>2. CASE ~ (Room >= kind.size)
  <2>1. UNCHANGED <<payload, fields>>
    BY <1>2 DEF PackLe, ToBytesLe
  <2> QED
    BY <2>1 DEF FrameInv, MemInv, FieldsInv, FrameSurvives, Offset
<1> QED
  BY <1>1, <1>2

LEMMA PackPairKeepsInv ==
  ASSUME FrameInv, NEW kind \in Kinds, NEW value \in NumbersOf(kind), PackPair(kind, value)
  PROVE  FrameInv'
<1> DEFINE low == GetLoByte(value)
           high == GetHiByte(value)
<1>0. Offset \in Nat /\ kind.size = 2 /\ Room >= 2 /\ AddField(kind, value)
  BY BytesAssumption DEF PackPair, FrameInv, FieldsInv, BytesAssumption
<1>1. low \in Int /\ high \in Int /\ low = ByteOf(value, 2, 0) /\ high = ByteOf(value, 2, 1)
  BY <1>0, BytesAreInts DEF GetLoByte, GetHiByte
<1>2. /\ Offset + 1 \in DOMAIN payload /\ Offset + 2 \in DOMAIN payload
      /\ DOMAIN payload \subseteq Nat
  BY <1>0, BytesAssumption DEF Room, FrameInv, MemInv, BytesAssumption, Behind
<1>3. CASE kind.big
  <2> DEFINE bytes == <<high, low>>
  <2>1. payload' = WithBytes(payload, Offset, bytes)
    BY <1>3 DEF PackPair
  <2>2. bytes \in Seq(Int) /\ Len(bytes) = 2 /\ bytes[1] = high /\ bytes[2] = low
    BY <1>1
  <2> HIDE DEF bytes
  <2>3. /\ payload' \in Seq(Int) /\ DOMAIN payload' = DOMAIN payload
        /\ \A n \in DOMAIN payload :
             payload'[n] = IF n - Offset \in 1..2 THEN bytes[n - Offset] ELSE payload[n]
    BY <1>0, <2>1, <2>2, StoredIs DEF FrameInv
  <2>4. payload'[Offset + 1] = high /\ payload'[Offset + 2] = low
    <3>1. (Offset + 1) - Offset = 1 /\ (Offset + 2) - Offset = 2
      BY <1>0
    <3> QED
      BY <1>2, <2>2, <2>3, <3>1
  <2>5. Encodes([i \in 1..2 |-> payload'[Offset + i]], kind, value)
    BY <1>3, <2>4 DEF Encodes
  <2> QED
    BY <1>0, <2>3, <2>5, PackingKeepsInv
<1>4. CASE ~kind.big
  <2>1. payload' = EncodeLe(value, payload, Offset + 1, Offset + 2)
    BY <1>4 DEF PackPair
  <2>2. /\ DOMAIN payload' = DOMAIN payload
        /\ payload' = [n \in DOMAIN payload |-> payload'[n]]
        /\ \A n \in DOMAIN payload :
             payload'[n] = IF n = Offset + 2 THEN high
                           ELSE IF n = Offset + 1 THEN low ELSE payload[n]
    BY <2>1 DEF EncodeLe
  <2>3. payload' \in Seq(Int)
    <3>1. /\ payload \in Seq(Int) /\ Len(payload) \in Nat
          /\ DOMAIN payload = 1..Len(payload)
      BY DEF FrameInv, MemInv
    <3>2. \A n \in DOMAIN payload : payload'[n] \in Int
      BY <1>1, <2>2, <3>1, ElementOfSeq
    <3> QED
      BY <2>2, <3>1, <3>2, SeqDef, SMTT(60)
  <2>4. payload'[Offset + 1] = low /\ payload'[Offset + 2] = high
    BY <1>0, <1>2, <2>2
  <2>5. \A n \in DOMAIN payload : n - Offset \notin 1..2 => payload'[n] = payload[n]
    BY <1>0, <1>2, <2>2
  <2>6. Encodes([i \in 1..2 |-> payload'[Offset + i]], kind, value)
    <3>1. \A i \in 1..2 : payload'[Offset + i] = ByteOf(value, 2, i - 1)
      <4> TAKE i \in 1..2
      <4>1. CASE i = 1
        BY <1>1, <2>4, <4>1
      <4>2. CASE i = 2
        BY <1>1, <2>4, <4>2
      <4> QED
        BY <4>1, <4>2
    <3> QED
      BY <1>0, <1>4, <3>1 DEF Encodes
  <2> QED
    BY <1>0, <2>2, <2>3, <2>5, <2>6, PackingKeepsInv
<1> QED
  BY <1>3, <1>4

\* At first nothing is packed.
LEMMA BytesInitInv == BytesInit => FrameInv
<1> SUFFICES ASSUME BytesInit PROVE FrameInv
  OBVIOUS
<1>1. Base \in Nat /\ PayloadSize + Behind \in Nat /\ PayloadSize \in Nat
  BY Weights, BytesAssumption DEF BytesAssumption, Behind
<1>2. payload \in [1..PayloadSize + Behind -> Int]
  BY <1>1 DEF BytesInit, Neighbour
<1>3. MemInv
  BY <1>1, <1>2, SeqDef DEF MemInv
<1>4. FieldsInv
  BY <1>1 DEF BytesInit, FieldsInv, Offset
<1>5. FrameSurvives
  BY <1>1 DEF BytesInit, FrameSurvives
<1> QED
  BY <1>3, <1>4, <1>5 DEF FrameInv

LEMMA BytesNextInv == FrameInv /\ [BytesNext]_bytesVars => FrameInv'
<1> SUFFICES ASSUME FrameInv, [BytesNext]_bytesVars PROVE FrameInv'
  OBVIOUS
<1>1. CASE BytesNext
  <2>0. PICK kind \in Kinds : \E value \in FieldValues(kind) :
                               PackLe(kind, value) \/ PackPair(kind, value)
    BY <1>1 DEF BytesNext
  <2>1. PICK value \in FieldValues(kind) : PackLe(kind, value) \/ PackPair(kind, value)
    BY <2>0
  <2>2. value \in NumbersOf(kind)
    BY FieldsAssumption DEF FieldsAssumption
  <2> QED
    BY <2>1, <2>2, PackLeKeepsInv, PackPairKeepsInv
<1>2. CASE UNCHANGED bytesVars
  BY <1>2 DEF bytesVars, FrameInv, MemInv, FieldsInv, FrameSurvives, Offset
<1> QED
  BY <1>1, <1>2

\* Whatever numbers are packed, of every width of a byte and every size of the
\* payload, they read back as they were given, and memory behind the payload
\* is left alone (getBytes.c:163).
THEOREM FramesSurvive == BytesSpec => []FrameSurvives
  BY BytesInitInv, BytesNextInv, PTL DEF BytesSpec, FrameInv
=============================================================================
