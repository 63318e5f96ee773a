-------------------------------- MODULE Gpio --------------------------------
(***************************************************************************)
(* lib/drivers/src/gpio.c: one pin instance in persistent memory.  Its     *)
(* owner initialises it once, field by field; any other context may        *)
(* write, toggle or read through it at any moment.  The HAL is external.   *)
(***************************************************************************)
EXTENDS Integers

CONSTANTS
  Users,        \* the contexts that use the pin
  Ports, Pins,  \* the addresses and numbers the owner may give
  NoPort,       \* NULL, what a static instance holds first
  NoPin         \* and the pin number it holds first

ASSUME GpioAssumption == NoPort \notin Ports

VARIABLES
  bInitialised, pPort, tPin, eInitState,   \* st_gpio_instance_t
  setup,        \* the owner's call: how far it is and its arguments
  access,       \* the call of each user, between its test and the HAL
  level         \* the output level of each pin of each port

gpioVars == <<bInitialised, pPort, tPin, eInitState, setup, access, level>>

Levels == {"eGpioLo", "eGpioHi"}
States == Levels \union {"eGpioUnknown"}     \* e_gpio_states_t

GpioInit ==
  /\ bInitialised = FALSE /\ pPort = NoPort /\ tPin = NoPin
  /\ eInitState = "eGpioLo"
  /\ setup = [step |-> "none", port |-> NoPort, pin |-> NoPin, state |-> "eGpioLo"]
  /\ access = [c \in Users |-> "none"]
  /\ level = [place \in (Ports \union {NoPort}) \X (Pins \union {NoPin}) |-> "eGpioUnknown"]

Driven == <<pPort, tPin>>   \* the pin that the instance names now

-----------------------------------------------------------------------------
(* drv_Gpio_Initialise, one store after the other.                         *)

SetupStep(from, to) == setup.step = from /\ setup' = [setup EXCEPT !.step = to]

Initialise(port, pin, state) ==
  /\ setup.step = "none"
  /\ setup' = IF port = NoPort THEN setup
              ELSE [step |-> "port", port |-> port, pin |-> pin, state |-> state]
  /\ UNCHANGED <<bInitialised, pPort, tPin, eInitState, access, level>>

StorePort ==
  /\ SetupStep("port", "pin")
  /\ pPort' = setup.port
  /\ UNCHANGED <<bInitialised, tPin, eInitState, access, level>>

StorePin ==
  /\ SetupStep("pin", "state")
  /\ tPin' = setup.pin
  /\ UNCHANGED <<bInitialised, pPort, eInitState, access, level>>

StoreState_FlagToo ==
  /\ SetupStep("state", "drive")
  /\ eInitState' = setup.state /\ bInitialised' = TRUE
  /\ UNCHANGED <<pPort, tPin, access, level>>

StoreState ==
  /\ SetupStep("state", "drive")
  /\ eInitState' = setup.state
  /\ UNCHANGED <<bInitialised, pPort, tPin, access, level>>

\* Whatever is not eGpioLo sets the pin ...
InitialLevel(state) == IF state = "eGpioLo" THEN "eGpioLo" ELSE "eGpioHi"

DriveFirst ==
  /\ SetupStep("drive", "flag")
  /\ level' = [level EXCEPT ![Driven] = InitialLevel(setup.state)]
  /\ UNCHANGED <<bInitialised, pPort, tPin, eInitState, access>>

\* The flag comes last.
SetInitialised ==
  /\ SetupStep("flag", "ready")
  /\ bInitialised' = TRUE
  /\ UNCHANGED <<pPort, tPin, eInitState, access, level>>

-----------------------------------------------------------------------------
(* The users.                                                              *)

\* The test of bInitialised; a call that fails it does nothing.
Use(c, what) ==
  /\ access[c] = "none"
  /\ bInitialised
  /\ access' = [access EXCEPT ![c] = what]
  /\ UNCHANGED <<bInitialised, pPort, tPin, eInitState, setup, level>>

\* A read of the HAL leaves every level alone.
ReadPin(c) ==
  /\ access[c] = "read"
  /\ access' = [access EXCEPT ![c] = "none"]
  /\ UNCHANGED <<bInitialised, pPort, tPin, eInitState, setup, level>>

\* ... while here whatever is not eGpioHi resets it.
WrittenLevel(state) == IF state = "eGpioHi" THEN "eGpioHi" ELSE "eGpioLo"

WritePin(c) ==
  /\ access[c] \in States
  /\ access' = [access EXCEPT ![c] = "none"]
  /\ level' = [level EXCEPT ![Driven] = WrittenLevel(access[c])]
  /\ UNCHANGED <<bInitialised, pPort, tPin, eInitState, setup>>

TogglePin(c) ==
  /\ access[c] = "toggle"
  /\ access' = [access EXCEPT ![c] = "none"]
  /\ level' = [level EXCEPT ![Driven] = IF @ = "eGpioHi" THEN "eGpioLo" ELSE "eGpioHi"]
  /\ UNCHANGED <<bInitialised, pPort, tPin, eInitState, setup>>

GpioNext ==
  \/ \E port \in Ports \union {NoPort}, pin \in Pins, state \in States :
       Initialise(port, pin, state)
  \/ StorePort \/ StorePin \/ StoreState \/ DriveFirst \/ SetInitialised
  \/ \E c \in Users :
       \/ \E what \in States \union {"read", "toggle"} : Use(c, what)
       \/ ReadPin(c) \/ WritePin(c) \/ TogglePin(c)

GpioSpec == GpioInit /\ [][GpioNext]_gpioVars

-----------------------------------------------------------------------------
(* Properties.                                                             *)

\* "call this before attempting to use it" (gpio.c:10): whoever calls while
\* the owner is still at it, no level moves but that of the pin the owner
\* asked for, and its first level is the owner's, not a user's that the owner
\* then writes over.
FirstLevelIsOwners ==
  [][\A place \in DOMAIN level :
       level'[place] # level[place] =>
         /\ place = <<setup.port, setup.pin>>
         /\ level[place] = "eGpioUnknown" <=> ~bInitialised
         /\ ~bInitialised => level'[place] = InitialLevel(setup.state)]_gpioVars
=============================================================================
