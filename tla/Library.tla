------------------------------- MODULE Library ------------------------------
(***************************************************************************)
(* The services of the library beside queues, clock and assertions, as one *)
(* program has them.  They share no state, so that a program that uses one *)
(* of them at a time has every behaviour that each of them has.            *)
(***************************************************************************)
EXTENDS UtcText, Crc32, Gpio, Numbers, Bytes, Printf, TinyAssert

VARIABLE service    \* the one in use

Services == {"calendar", "crc", "gpio", "numbers", "bytes", "printf", "assert"}

CalendarIdle ==
  /\ source = <<>> /\ pc = "idle" /\ ix = 1
  /\ arg = [k \in 1..2 |-> Blank] /\ utc_time = arg
  /\ total_minutes = 0 /\ day_delta = 0 /\ is_greater = FALSE
  /\ printed = Blank /\ text = NoText /\ back = Unread

LibraryInit ==
  /\ CrcInit /\ GpioInit /\ NumbersInit /\ BytesInit /\ PrintfInit /\ TinyInit
  /\ \/ service = "calendar" /\ TextInit
     \/ service \in Services \ {"calendar"} /\ CalendarIdle
  /\ service = "assert" \/ unit_testing

LibraryNext ==
  /\ UNCHANGED service
  /\ \/ /\ service = "calendar" /\ TextNext
        /\ UNCHANGED <<crcVars, gpioVars, numberVars, bytesVars, printfVars, tinyVars>>
     \/ /\ service = "crc" /\ CrcNext
        /\ UNCHANGED <<allVars, gpioVars, numberVars, bytesVars, printfVars, tinyVars>>
     \/ /\ service = "gpio" /\ GpioNext
        /\ UNCHANGED <<allVars, crcVars, numberVars, bytesVars, printfVars, tinyVars>>
     \/ /\ service = "numbers" /\ NumbersNext
        /\ UNCHANGED <<allVars, crcVars, gpioVars, bytesVars, printfVars, tinyVars>>
     \/ /\ service = "bytes" /\ BytesNext
        /\ UNCHANGED <<allVars, crcVars, gpioVars, numberVars, printfVars, tinyVars>>
     \/ /\ service = "printf" /\ PrintfNext
        /\ UNCHANGED <<allVars, crcVars, gpioVars, numberVars, bytesVars, tinyVars>>
     \/ /\ service = "assert" /\ TinyNext
        /\ UNCHANGED <<allVars, crcVars, gpioVars, numberVars, bytesVars, printfVars>>

libraryVars == <<service, allVars, crcVars, gpioVars, numberVars, bytesVars,
                 printfVars, tinyVars>>

LibrarySpec == LibraryInit /\ [][LibraryNext]_libraryVars
=============================================================================
