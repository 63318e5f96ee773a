-------------------------------- MODULE MCUtc -------------------------------
(***************************************************************************)
(* Texts around every place where a carry can go wrong.                    *)
(***************************************************************************)
EXTENDS UtcText

Text(date, time, zone) ==
  [digits |-> 6, zulu |-> zone.sign = "Z",
   length |-> FormatLength(6, zone.sign = "Z"), delimiters |-> TRUE,
   year |-> date[1], month |-> date[2], day |-> date[3],
   hour |-> time[1], minute |-> time[2], second |-> time[3],
   fraction |-> time[4], zone |-> zone]

MCDates ==
  {<<2023, 12, 31>>, <<2024, 1, 1>>, <<2024, 2, 29>>, <<2023, 2, 28>>,
   <<2023, 3, 1>>, <<1900, 3, 1>>, <<2000, 3, 1>>, <<2023, 4, 30>>}

MCZones == {Zone("Z", 0, 0), Zone("+", 14, 0), Zone("-", 12, 0), Zone("+", 5, 45)}

MCMoments == {<<0, 30, 0, 0>>, <<23, 30, 59, 999999>>}

MCGoodTexts == {Text(date, time, zone) :
                  date \in MCDates, time \in MCMoments, zone \in MCZones}

\* Of the dates only the first exists.
MCBadTexts ==
  {Text(date, <<12, 0, 0, 0>>, Zone("+", 0, 0)) :
     date \in {<<2000, 2, 29>>, <<1900, 2, 29>>, <<2023, 2, 29>>, <<2023, 4, 31>>,
               <<2023, 13, 1>>, <<2023, 0, 1>>, <<2023, 1, 0>>, <<2023, 1, 32>>}}
    \union {Text(<<2024, 1, 1>>, time, Zone("+", 0, 0)) :
              time \in {<<24, 0, 0, 0>>, <<0, 60, 0, 0>>, <<0, 0, 60, 0>>}}
    \union {Text(<<2024, 1, 1>>, <<12, 0, 0, 0>>, zone) :
              zone \in {Zone("-", 0, 0), Zone("+", 14, 30)}}
    \union {[Text(<<2024, 1, 1>>, <<12, 0, 0, 0>>, Zone("Z", 0, 0))
               EXCEPT !.delimiters = FALSE],
            [Text(<<2024, 1, 1>>, <<12, 0, 0, 0>>, Zone("Z", 0, 0)) EXCEPT !.length = @ + 1]}

\* The four forms with a shorter fraction, or none.
MCShortTexts ==
  {[Text(<<2024, 2, 29>>, <<23, 30, 59, 0>>, zone)
      EXCEPT !.digits = digits, !.length = FormatLength(digits, zone.sign = "Z"),
             !.fraction = IF digits = 3 THEN 999 ELSE 0] :
     digits \in {0, 3}, zone \in {Zone("Z", 0, 0), Zone("+", 14, 0)}}

MCTexts == MCGoodTexts \union MCBadTexts \union MCShortTexts

\* The first and the last hours that four digits can write.
MCLimitTexts ==
  {Text(<<0, 1, 1>>, <<0, 30, 0, 0>>, Zone("+", 14, 0)),
   Text(<<9999, 12, 31>>, <<23, 30, 0, 0>>, Zone("-", 12, 0))}

\* The least room for each format, and plenty.
MCRooms ==
  {FormatLength(digits, zulu) + 1 : digits \in {0, 3, 6}, zulu \in BOOLEAN} \union {40}

\* Structures, in zones that no text could name: several days away, and one
\* of the tests'.
MCTimes ==
  {[year |-> date[1], month |-> date[2], day |-> date[3], hour |-> 12, minute |-> 0,
    second |-> 0, microseconds |-> 0, zone |-> zone] :
      date \in MCDates,
      zone \in {Zone("+", 99, 59), Zone("-", 72, 0), Zone("-", 5, 45)}}
=============================================================================
