------------------------------ MODULE MCLibrary -----------------------------
(***************************************************************************)
(* Inputs for each service.  Numbers have 2, 3 or 5 bits and few digits,   *)
(* checksums 5 bits, so that every limit is among them.                    *)
(***************************************************************************)
EXTENDS MCUtc, Library

\* Two tables full of rows are filled together; no data, and up to three bytes.
MCMessages == {<<{0}>>, <<{1}, {0, 1}>>, <<{}, {0}, {1}>>, <<>>}
MCPolynomial == {2, 4}

\* 0, 1 and 2 are digits; "-" and "a" are not; Nul may come anywhere.
MCNumberTexts == UNION {[1..n -> {48, 49, 50, 45, 0, 97}] : n \in 1..4}

Plain(spec) == Conversion(spec, FALSE, 0)

MCItems ==
  {Literal(97), Conversion("d", TRUE, 4), Conversion("u", TRUE, 3), Conversion("x", TRUE, 2)}
    \union {Plain(spec) : spec \in {"%", "c", "s", "d", "p", "l", "?"}}

MCFormats ==
  UNION {[1..n -> MCItems] : n \in 0..2}
    \union [1..3 -> {Literal(97), Plain("s"), Plain("d"), Plain("p"), Plain("?")}]
    \union {<<Literal(97), Plain(spec)>> : spec \in {"ld", "g", "end", "u", "x"}}
    \union {<<Literal(97), Conversion("ld", TRUE, S32Chars)>>}

\* None, one (as a character, a Nul and another), and three, of which the second is a text that the buffer of 8
\* characters cannot hold, nor anything in front of it.
MCParams ==
  {<<>>,
   <<[number |-> -16, text |-> <<98, 99, Nul>>]>>,
   <<[number |-> -15, text |-> <<98, Nul>>]>>,
   <<[number |-> 40, text |-> <<98, 99, Nul>>],
     [number |-> 7, text |-> <<98, 99, 100, 101, 102, 103, 104, 105, Nul>>],
     [number |-> 0, text |-> <<Nul>>]>>}

\* The smallest, the largest, and those next to 0 and to the half.
MCFieldValues(kind) ==
  LET all == Weight(kind.size)
  IN  IF kind.signed THEN {-(all \div 2), -2, -1, 0, 1, all \div 2 - 1}
                     ELSE {0, 1, all \div 2 - 1, all \div 2, all - 1}

\* Texts shorter and longer than what is kept of them.
MCSites ==
  [file : {<<97>>, <<97, 98, 99>>}, function : {<<102>>, <<102, 103, 104, 105>>},
   line : {7, 15}]
=============================================================================
