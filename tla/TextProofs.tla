------------------------------ MODULE TextProofs ------------------------------
(***************************************************************************)
(* Theorems about text: that numbers survive being written and read, that  *)
(* the line which a tiny assertion reports is its own and whole, and that  *)
(* what is printed to a format is made of whole pieces.                    *)
(*                                                                         *)
(* All rest on the digits of a number, a function that recurs to a smaller *)
(* number, and so on strong induction.  The meaning of a row of digits and *)
(* the scan of one run over its beginnings, and what is seen of a text is  *)
(* found by its first Nul.  The invariant of the tiny assertions says of   *)
(* every context that is writing what it has in the buffer, and that there *)
(* is one such context at most, under those that interrupt it.  The one of *)
(* m_printf says which pieces of the format so far are in the buffer.      *)
(***************************************************************************)
EXTENDS Numbers, TinyAssert, Printf, Induction, SequenceTheorems

-----------------------------------------------------------------------------
(* Digits.                                                                 *)

\* f is what Digits is made of, up to the number m.
Spells(f, m, radix) ==
  /\ f \in [0..m -> Seq(Nat)]
  /\ \A n \in 0..m : f[n] = IF n < radix THEN <<Char(n)>>
                            ELSE Append(f[n \div radix], Char(n % radix))

LEMMA CharType ==
  ASSUME NEW n \in Nat
  PROVE  Char(n) \in Nat /\ Char(n) # Nul
  BY DEF Char, Nul

LEMMA Smaller ==
  ASSUME NEW radix \in 2..16, NEW n \in Nat
  PROVE  /\ n \div radix \in Nat /\ n % radix \in 0..radix - 1
         /\ n = radix * (n \div radix) + (n % radix)
         /\ n >= radix => n \div radix < n /\ n \div radix >= 1
<1>0. /\ n \div radix \in Nat /\ n % radix \in 0..radix - 1
      /\ n = radix * (n \div radix) + (n % radix)
  OBVIOUS
<1>1. PICK q \in Nat, e \in 0..radix - 1 : q = n \div radix /\ n = radix * q + e
  BY <1>0
<1>2. radix * q >= 2 * q
  BY <1>1
<1>3. q = 0 => n = e
  BY <1>1
<1>4. n >= radix => q >= 1 /\ q < n
  BY <1>1, <1>2, <1>3
<1> QED
  BY <1>0, <1>1, <1>4

LEMMA SpellingExists ==
  ASSUME NEW radix \in 2..16, NEW m \in Nat
  PROVE  \E f : Spells(f, m, radix)
<1> DEFINE good == {k \in Nat : \E f : Spells(f, k, radix)}
<1>1. 0 \in good
  <2> DEFINE f == [n \in 0..0 |-> <<Char(0)>>]
  <2>1. f[0] = <<Char(0)>> /\ f \in [0..0 -> Seq(Nat)]
    BY CharType
  <2>2. Spells(f, 0, radix)
    <3>1. 0 < radix /\ 0..0 = {0}
      OBVIOUS
    <3> HIDE DEF f
    <3> QED
      BY <2>1, <3>1 DEF Spells
  <2> QED
    BY <2>2
<1>2. ASSUME NEW k \in Nat, k \in good
      PROVE  k + 1 \in good
  <2>1. PICK f : Spells(f, k, radix)
    BY <1>2
  <2> DEFINE next == IF k + 1 < radix THEN <<Char(k + 1)>>
                     ELSE Append(f[(k + 1) \div radix], Char((k + 1) % radix))
             g == [n \in 0..k + 1 |-> IF n <= k THEN f[n] ELSE next]
  <2>2. next \in Seq(Nat)
    <3>1. CASE k + 1 < radix
      BY <3>1, CharType
    <3>2. CASE ~ (k + 1 < radix)
      <4>1. (k + 1) \div radix \in 0..k /\ (k + 1) % radix \in Nat
        BY <3>2, Smaller
      <4>2. f[(k + 1) \div radix] \in Seq(Nat) /\ Char((k + 1) % radix) \in Nat
        BY <2>1, <4>1, CharType DEF Spells
      <4> QED
        BY <3>2, <4>2, AppendProperties
    <3> QED
      BY <3>1, <3>2
  <2> HIDE DEF next
  <2>3. g \in [0..k + 1 -> Seq(Nat)]
    BY <2>1, <2>2 DEF Spells
  <2>4. ASSUME NEW n \in 0..k + 1
        PROVE  g[n] = IF n < radix THEN <<Char(n)>>
                      ELSE Append(g[n \div radix], Char(n % radix))
    <3>1. n >= radix => n \div radix \in 0..k /\ g[n \div radix] = f[n \div radix]
      BY Smaller
    <3>2. CASE n = k + 1
      BY <3>1, <3>2 DEF next
    <3>3. CASE n # k + 1
      <4>1. n \in 0..k /\ g[n] = f[n]
        BY <3>3
      <4>2. f[n] = IF n < radix THEN <<Char(n)>> ELSE Append(f[n \div radix], Char(n % radix))
        BY <2>1, <4>1 DEF Spells
      <4>3. n \in Nat /\ radix \in Nat
        OBVIOUS
      <4> HIDE DEF g
      <4> QED
        BY <3>1, <4>1, <4>2, <4>3
    <3> QED
      BY <3>2, <3>3
  <2> HIDE DEF g
  <2>5. Spells(g, k + 1, radix)
    BY <2>3, <2>4 DEF Spells
  <2> QED
    BY <2>5
<1> HIDE DEF good
<1>3. \A k \in Nat : k \in good
  BY <1>1, <1>2, SetInduction
<1> QED
  BY <1>3 DEF good

\* Digits is any such function's value: what it is up to does not matter.
LEMMA DigitsSpell ==
  ASSUME NEW radix \in 2..16, NEW m \in Nat, NEW f, Spells(f, m, radix)
  PROVE  \A value \in 0..m : Digits(value, radix) = f[value]
<1> SUFFICES ASSUME NEW value \in 0..m PROVE Digits(value, radix) = f[value]
  OBVIOUS
<1> DEFINE e == CHOOSE g : g = [n \in 0..value |->
                   IF n < radix THEN <<Char(n)>>
                   ELSE Append(g[n \div radix], Char(n % radix))]
<1>1. Digits(value, radix) = e[value]
  BY DEF Digits
<1>2. PICK h : Spells(h, value, radix)
  BY SpellingExists
<1>3. h = [n \in 0..value |-> IF n < radix THEN <<Char(n)>>
                              ELSE Append(h[n \div radix], Char(n % radix))]
  BY <1>2 DEF Spells
<1>4. e = [n \in 0..value |-> IF n < radix THEN <<Char(n)>>
                              ELSE Append(e[n \div radix], Char(n % radix))]
  BY <1>3
<1> HIDE DEF e
<1> DEFINE good == {n \in Nat : n <= value => e[n] = f[n]}
<1>5. ASSUME NEW n \in Nat, \A k \in 0..n - 1 : k \in good
      PROVE  n \in good
  <2> SUFFICES ASSUME n <= value PROVE e[n] = f[n]
    OBVIOUS
  <2>1. n \in 0..value /\ n \in 0..m
    OBVIOUS
  <2>2. n >= radix => e[n \div radix] = f[n \div radix]
    <3> SUFFICES ASSUME n >= radix PROVE e[n \div radix] = f[n \div radix]
      OBVIOUS
    <3>1. n \div radix \in 0..n - 1 /\ n \div radix <= value
      BY Smaller
    <3> QED
      BY <1>5, <3>1
  <2>3. /\ e[n] = IF n < radix THEN <<Char(n)>> ELSE Append(e[n \div radix], Char(n % radix))
        /\ f[n] = IF n < radix THEN <<Char(n)>> ELSE Append(f[n \div radix], Char(n % radix))
    BY <1>4, <2>1 DEF Spells
  <2> QED
    BY <2>2, <2>3
<1> HIDE DEF good
<1>6. \A n \in Nat : n \in good
  BY <1>5, StrongInduction
<1> QED
  BY <1>1, <1>6 DEF good

LEMMA DigitsMeaning ==
  ASSUME NEW radix \in 2..16, NEW value \in Nat
  PROVE  /\ Digits(value, radix) \in Seq(Nat)
         /\ Digits(value, radix) =
              IF value < radix THEN <<Char(value)>>
              ELSE Append(Digits(value \div radix, radix), Char(value % radix))
<1>1. PICK f : Spells(f, value, radix)
  BY SpellingExists
<1>2. \A v \in 0..value : Digits(v, radix) = f[v]
  BY <1>1, DigitsSpell
<1>3. value \in 0..value /\ (value >= radix => value \div radix \in 0..value)
  BY Smaller
<1>4. /\ f[value] \in Seq(Nat)
      /\ f[value] = IF value < radix THEN <<Char(value)>>
                    ELSE Append(f[value \div radix], Char(value % radix))
  BY <1>1, <1>3 DEF Spells
<1>5. Digits(value, radix) = f[value]
  BY <1>2, <1>3
<1>6. CASE value < radix
  BY <1>4, <1>5, <1>6
<1>7. CASE ~ (value < radix)
  <2>1. value >= radix
    BY <1>7
  <2>2. Digits(value \div radix, radix) = f[value \div radix]
    BY <1>2, <1>3, <2>1
  <2> QED
    BY <1>4, <1>5, <1>7, <2>2
<1> QED
  BY <1>6, <1>7

\* The same, case by case.
LEMMA ShortDigits ==
  ASSUME NEW radix \in 2..16, NEW value \in Nat, value < radix
  PROVE  Digits(value, radix) = <<Char(value)>> /\ Char(value) \in Nat
<1>1. Digits(value, radix) = IF value < radix THEN <<Char(value)>>
              ELSE Append(Digits(value \div radix, radix), Char(value % radix))
  BY DigitsMeaning, Zenon
<1> QED
  BY <1>1, CharType

LEMMA LongDigits ==
  ASSUME NEW radix \in 2..16, NEW value \in Nat, ~ (value < radix)
  PROVE  /\ Digits(value \div radix, radix) \in Seq(Nat) /\ Char(value % radix) \in Nat
         /\ Digits(value, radix) = Append(Digits(value \div radix, radix), Char(value % radix))
<1>1. Digits(value, radix) = IF value < radix THEN <<Char(value)>>
              ELSE Append(Digits(value \div radix, radix), Char(value % radix))
  BY DigitsMeaning, Zenon
<1>2. value \div radix \in Nat /\ value % radix \in Nat
  BY Smaller
<1>3. Digits(value \div radix, radix) \in Seq(Nat)
  BY <1>2, DigitsMeaning, Zenon
<1> QED
  BY <1>1, <1>2, <1>3, CharType

\* Digits are characters other than the Nul, and there is one at least.
LEMMA DigitsAreText ==
  ASSUME NEW radix \in 2..16
  PROVE  \A value \in Nat : /\ Digits(value, radix) # <<>>
                            /\ \A n \in DOMAIN Digits(value, radix) :
                                 \E d \in 0..radix - 1 : Digits(value, radix)[n] = Char(d)
<1> DEFINE Good(value) == /\ Digits(value, radix) # <<>>
                          /\ \A n \in DOMAIN Digits(value, radix) :
                               \E d \in 0..radix - 1 : Digits(value, radix)[n] = Char(d)
           good == {value \in Nat : Good(value)}
<1>1. ASSUME NEW value \in Nat, \A k \in 0..value - 1 : k \in good
      PROVE  value \in good
  <2>1. CASE value < radix
    <3>1. Digits(value, radix) = <<Char(value)>> /\ value \in 0..radix - 1
      BY <2>1, ShortDigits, SMTT(60)
    <3> QED
      BY <3>1
  <2>2. CASE ~ (value < radix)
    <3> DEFINE q == value \div radix
               d == value % radix
               s == Digits(q, radix)
    <3>1. q \in 0..value - 1 /\ q \in Nat /\ d \in 0..radix - 1
      BY <2>2, Smaller
    <3>2. Digits(value, radix) = Append(s, Char(d)) /\ s \in Seq(Nat) /\ Char(d) \in Nat
      BY <2>2, LongDigits, Zenon
    <3>3. Good(q)
      BY <1>1, <3>1
    <3> HIDE DEF q, d
    <3>4. \A n \in 1..Len(s) + 1 : \E c \in 0..radix - 1 : Append(s, Char(d))[n] = Char(c)
      <4> TAKE n \in 1..Len(s) + 1
      <4>1. CASE n \in 1..Len(s)
        BY <3>2, <3>3, <4>1
      <4>2. CASE n = Len(s) + 1
        BY <3>1, <3>2, <4>2
      <4> QED
        BY <3>2, <4>1, <4>2
    <3>5. DOMAIN Append(s, Char(d)) = 1..Len(s) + 1 /\ Append(s, Char(d)) # <<>>
      BY <3>2
    <3> HIDE DEF s
    <3> QED
      BY <3>2, <3>4, <3>5
  <2> QED
    BY <2>1, <2>2
<1> HIDE DEF good
<1>2. \A value \in Nat : value \in good
  BY <1>1, StrongInduction
<1> QED
  BY <1>2 DEF good

\* Larger numbers are not shorter.
LEMMA LongerDigits ==
  ASSUME NEW radix \in 2..16
  PROVE  \A v \in Nat : \A u \in 0..v :
           Len(Digits(u, radix)) <= Len(Digits(v, radix))
<1> DEFINE good == {v \in Nat : \A u \in 0..v :
                                  Len(Digits(u, radix)) <= Len(Digits(v, radix))}
<1>1. \A v \in Nat : Digits(v, radix) \in Seq(Nat) /\ Len(Digits(v, radix)) \in Nat \ {0}
  <2> TAKE v \in Nat
  <2>1. Digits(v, radix) \in Seq(Nat) /\ Digits(v, radix) # <<>>
    BY DigitsMeaning, DigitsAreText, Zenon
  <2> QED
    BY <2>1, EmptySeq
<1>2. ASSUME NEW v \in Nat, \A k \in 0..v - 1 : k \in good
      PROVE  v \in good
  <2> SUFFICES ASSUME NEW u \in 0..v
               PROVE  Len(Digits(u, radix)) <= Len(Digits(v, radix))
    OBVIOUS
  <2>1. CASE u < radix
    <3>1. Len(Digits(u, radix)) = 1
      BY <2>1, ShortDigits
    <3> QED
      BY <1>1, <3>1
  <2>2. CASE ~ (u < radix)
    <3>1. PICK p \in Nat, d \in 0..radix - 1 : p = u \div radix /\ u = radix * p + d
      BY Smaller
    <3>2. PICK q \in Nat, e \in 0..radix - 1 : q = v \div radix /\ v = radix * q + e
      BY Smaller
    <3>3. p <= q
      <4>1. p >= q + 1 => radix * p >= radix * (q + 1)
        BY <3>1, <3>2
      <4> QED
        BY <3>1, <3>2, <4>1
    <3>4. q \in 0..v - 1
      BY <2>2, <3>2, Smaller
    <3>5. Len(Digits(p, radix)) <= Len(Digits(q, radix))
      BY <1>2, <3>3, <3>4
    <3>6. /\ Len(Digits(u, radix)) = Len(Digits(p, radix)) + 1
          /\ Len(Digits(v, radix)) = Len(Digits(q, radix)) + 1
      <4>1. ~ (v < radix) /\ u \in Nat
        BY <2>2
      <4>2. /\ Digits(u, radix) = Append(Digits(p, radix), Char(u % radix))
            /\ Digits(v, radix) = Append(Digits(q, radix), Char(v % radix))
        BY <2>2, <3>1, <3>2, <4>1, LongDigits
      <4>3. Char(u % radix) \in Nat /\ Char(v % radix) \in Nat
        BY <2>2, <4>1, LongDigits
      <4> QED
        BY <1>1, <4>2, <4>3, AppendProperties
    <3> QED
      BY <1>1, <3>5, <3>6
  <2> QED
    BY <2>1, <2>2
<1> HIDE DEF good
<1>3. \A v \in Nat : v \in good
  BY <1>2, StrongInduction
<1> QED
  BY <1>3 DEF good

LEMMA Limits ==
  /\ Radix \in 2..16 /\ HexRadix \in 2..16
  /\ U8Max \in Nat /\ U16Max \in Nat /\ U32Max \in Nat /\ S32Max \in Nat
  /\ U32Max = 2 * S32Max + 1 /\ U8Max < U16Max /\ U16Max < U32Max
  /\ U32Chars \in Nat /\ S32Chars \in Nat
<1>1. Radix \in 2..16 /\ U32Max \in Nat /\ S32Max \in Nat
  BY StringsAssumption DEF StringsAssumption, S32Max
<1>2. U32Chars \in Nat /\ S32Chars \in Nat
  BY <1>1, DigitsMeaning DEF U32Chars, S32Chars
<1> QED
  BY <1>1, <1>2, StringsAssumption DEF StringsAssumption, S32Max

-----------------------------------------------------------------------------
(* What a row of digits means.                                             *)

\* f is the meaning of every beginning of chars.
Weighs(f, chars) ==
  /\ f \in [0..Len(chars) -> Int] /\ f[0] = 0
  /\ \A n \in 1..Len(chars) : f[n] = f[n - 1] * Radix + (chars[n] - Char(0))

LEMMA MeaningIs ==
  ASSUME NEW chars \in Seq(Nat)
  PROVE  /\ \E f : Weighs(f, chars)
         /\ \A f : Weighs(f, chars) => Meaning(chars) = f[Len(chars)]
<1> DEFINE N == Len(chars)
           rule == [p \in Int \X (1..N) |-> p[1] * Radix + (chars[p[2]] - Char(0))]
<1>1. N \in Nat /\ DOMAIN chars = 1..N /\ Radix \in Int /\ Char(0) \in Int
  BY Limits, CharType
<1>2. rule \in Rules(N, Int)
  <2>1. \A p \in Int \X (1..N) : p[1] * Radix + (chars[p[2]] - Char(0)) \in Int
    <3> TAKE p \in Int \X (1..N)
    <3>1. chars[p[2]] \in Nat /\ p[1] \in Int
      BY <1>1, ElementOfSeq
    <3> QED
      BY <1>1, <3>1
  <2> QED
    BY <2>1 DEF Rules
<1>3. \A a \in Int, n \in 1..N : rule[<<a, n>>] = a * Radix + (chars[n] - Char(0))
  OBVIOUS
<1> HIDE DEF rule
<1>4. PICK f : Follows(f, N, Int, 0, rule)
  BY <1>1, <1>2, RecursiveFunction, SMTT(60)
<1>5. Weighs(f, chars)
  <2>1. \A n \in 1..N : f[n - 1] \in Int
    BY <1>1, <1>4 DEF Follows
  <2> QED
    BY <1>1, <1>3, <1>4, <2>1 DEF Follows, Weighs
<1> DEFINE e == CHOOSE g : g = [n \in 0..N |->
                   IF n = 0 THEN 0 ELSE g[n - 1] * Radix + (chars[n] - Char(0))]
<1>6. Meaning(chars) = e[N]
  BY DEF Meaning
<1>7. f = [n \in 0..N |-> IF n = 0 THEN 0 ELSE f[n - 1] * Radix + (chars[n] - Char(0))]
  BY <1>1, <1>5 DEF Weighs
<1>8. e = [n \in 0..N |-> IF n = 0 THEN 0 ELSE e[n - 1] * Radix + (chars[n] - Char(0))]
  BY <1>7
<1> HIDE DEF e
<1>9. ASSUME NEW g, Weighs(g, chars)
      PROVE  e[N] = g[N]
  <2> DEFINE good == {n \in 0..N : e[n] = g[n]}
  <2>1. 0 \in good
    BY <1>1, <1>8, <1>9 DEF Weighs
  <2>2. \A n \in 0..N - 1 : n \in good => n + 1 \in good
    <3> SUFFICES ASSUME NEW n \in 0..N - 1, e[n] = g[n]
                 PROVE  e[n + 1] = g[n + 1]
      BY <1>1
    <3>1. n + 1 \in 1..N /\ n + 1 \in 0..N /\ n + 1 # 0 /\ (n + 1) - 1 = n
      BY <1>1
    <3>2. e[n + 1] = e[(n + 1) - 1] * Radix + (chars[n + 1] - Char(0))
      BY <1>8, <3>1, Zenon
    <3>3. g[n + 1] = g[(n + 1) - 1] * Radix + (chars[n + 1] - Char(0))
      BY <1>9, <3>1, Zenon DEF Weighs
    <3> QED
      BY <3>1, <3>2, <3>3
  <2> HIDE DEF good
  <2>3. \A n \in 0..N : n \in good
    BY <1>1, <2>1, <2>2, IntervalInduction
  <2> QED
    BY <1>1, <2>3 DEF good
<1> QED
  BY <1>5, <1>6, <1>9

LEMMA DigitChars ==
  /\ Char(0) = 48 /\ Radix \in Nat /\ Radix >= 2
  /\ \A c \in Nat : IsDigit(c) <=> c - Char(0) \in 0..Radix - 1
  /\ \A d \in 0..Radix - 1 : Char(d) = Char(0) + d /\ IsDigit(Char(d))
  /\ ~ IsDigit(Minus) /\ ~ IsDigit(Nul) /\ Minus # Nul
<1>1. Radix \in 2..10
  BY StringsAssumption DEF StringsAssumption
<1>2. \A d \in 0..Radix - 1 : Char(d) = 48 + d
  BY <1>1 DEF Char
<1>3. Char(0) = 48 /\ Char(Radix - 1) = 48 + (Radix - 1)
  BY <1>1, <1>2
<1> QED
  BY <1>1, <1>2, <1>3 DEF IsDigit, Minus, Nul

\* One digit more.
LEMMA MeaningOfAppend ==
  ASSUME NEW chars \in Seq(Nat), NEW c \in Nat
  PROVE  /\ Meaning(chars) \in Int
         /\ Meaning(Append(chars, c)) = Meaning(chars) * Radix + (c - Char(0))
<1> DEFINE N == Len(chars)
           more == Append(chars, c)
<1>1. N \in Nat /\ more \in Seq(Nat) /\ Len(more) = N + 1 /\ more[N + 1] = c
      /\ \A n \in 1..N : more[n] = chars[n]
  BY AppendProperties
<1>2. PICK f : Weighs(f, chars)
  BY MeaningIs
<1>3. PICK g : Weighs(g, more)
  BY <1>1, MeaningIs
<1>4. Meaning(chars) = f[N] /\ Meaning(more) = g[N + 1]
  BY <1>1, <1>2, <1>3, MeaningIs
<1> HIDE DEF more
<1> DEFINE h == [n \in 0..N |-> g[n]]
<1>5. Weighs(h, chars)
  <2>1. h \in [0..N -> Int] /\ h[0] = 0
    BY <1>1, <1>3 DEF Weighs
  <2>2. \A n \in 1..N : h[n] = h[n - 1] * Radix + (chars[n] - Char(0))
    <3> TAKE n \in 1..N
    <3>1. n \in 1..Len(more) /\ h[n] = g[n] /\ h[n - 1] = g[n - 1] /\ more[n] = chars[n]
      BY <1>1
    <3>2. g[n] = g[n - 1] * Radix + (more[n] - Char(0))
      BY <1>3, <3>1, Zenon DEF Weighs
    <3> QED
      BY <3>1, <3>2
  <2> HIDE DEF h
  <2> QED
    BY <2>1, <2>2 DEF Weighs
<1>6. h[N] = g[N] /\ Meaning(chars) = h[N]
  BY <1>1, <1>5, MeaningIs
<1>7. g[N + 1] = g[(N + 1) - 1] * Radix + (more[N + 1] - Char(0))
  <2>1. N + 1 \in 1..Len(more)
    BY <1>1
  <2> QED
    BY <1>3, <2>1, Zenon DEF Weighs
<1>8. (N + 1) - 1 = N
  BY <1>1
<1>9. f[N] \in Int
  BY <1>1, <1>2 DEF Weighs
<1> QED
  BY <1>1, <1>4, <1>6, <1>7, <1>8, <1>9 DEF more

LEMMA MeaningOfOne ==
  ASSUME NEW c \in Nat
  PROVE  Meaning(<<c>>) = c - Char(0)
<1>1. <<>> \in Seq(Nat) /\ <<c>> = Append(<<>>, c) /\ Len(<<>>) = 0
  OBVIOUS
<1>2. Meaning(<<>>) = 0
  <2>1. PICK f : Weighs(f, <<>>)
    BY <1>1, MeaningIs
  <2> QED
    BY <1>1, <2>1, MeaningIs DEF Weighs
<1>3. Meaning(<<c>>) = 0 * Radix + (c - Char(0))
  BY <1>1, <1>2, MeaningOfAppend
<1> QED
  BY <1>3, DigitChars

\* Zeros in front mean nothing.
LEMMA MeaningOfZeros ==
  ASSUME NEW k \in Nat, NEW chars \in Seq(Nat)
  PROVE  /\ Zeros(k) \in Seq(Nat) /\ Len(Zeros(k)) = k
         /\ Meaning(Zeros(k) \o chars) = Meaning(chars)
<1> DEFINE z == Zeros(k)
           N == Len(chars)
           all == z \o chars
<1>1. z \in Seq(Nat) /\ Len(z) = k /\ \A n \in 1..k : z[n] = Char(0)
  BY CharType DEF Zeros
<1> HIDE DEF z
<1>2. /\ all \in Seq(Nat) /\ Len(all) = k + N /\ N \in Nat
      /\ \A n \in 1..k + N : all[n] = IF n <= k THEN Char(0) ELSE chars[n - k]
  <2>1. /\ all \in Seq(Nat) /\ Len(all) = k + N /\ N \in Nat
        /\ \A n \in 1..k + N : all[n] = IF n <= k THEN z[n] ELSE chars[n - k]
    <3>1. /\ z \o chars \in Seq(Nat) /\ Len(z \o chars) = Len(z) + Len(chars)
          /\ \A n \in 1..Len(z) + Len(chars) :
               (z \o chars)[n] = IF n <= Len(z) THEN z[n] ELSE chars[n - Len(z)]
      BY <1>1, ConcatProperties, Zenon
    <3> QED
      BY <1>1, <3>1
  <2> QED
    BY <1>1, <2>1
<1> HIDE DEF all
<1>3. PICK f : Weighs(f, chars)
  BY MeaningIs
<1> DEFINE g == [n \in 0..k + N |-> IF n <= k THEN 0 ELSE f[n - k]]
<1>4. Weighs(g, all)
  <2>1. f \in [0..N -> Int] /\ f[0] = 0
    BY <1>3 DEF Weighs
  <2>2. g \in [0..k + N -> Int] /\ g[0] = 0
    BY <1>2, <2>1
  <2>3. \A n \in 1..k + N : g[n] = g[n - 1] * Radix + (all[n] - Char(0))
    <3> TAKE n \in 1..k + N
    <3>1. CASE n <= k
      <4>1. g[n] = 0 /\ g[n - 1] = 0 /\ all[n] = Char(0)
        BY <1>2, <3>1
      <4> QED
        BY <4>1, DigitChars, SMTT(60)
    <3>2. CASE ~ (n <= k)
      <4>1. n - k \in 1..N /\ g[n] = f[n - k] /\ all[n] = chars[n - k]
        BY <1>2, <3>2
      <4>2. g[n - 1] = f[(n - k) - 1]
        <5>1. CASE n - 1 <= k
          <6>1. n - 1 = k /\ (n - k) - 1 = 0
            BY <3>2, <5>1
          <6> QED
            BY <2>1, <6>1, <1>2
        <5>2. CASE ~ (n - 1 <= k)
          <6>1. n - 1 \in 0..k + N /\ (n - 1) - k = (n - k) - 1
            BY <1>2, <3>2
          <6> QED
            BY <5>2, <6>1
        <5> QED
          BY <5>1, <5>2
      <4>3. f[n - k] = f[(n - k) - 1] * Radix + (chars[n - k] - Char(0))
        BY <1>3, <4>1, Zenon DEF Weighs
      <4> QED
        BY <4>1, <4>2, <4>3
    <3> QED
      BY <3>1, <3>2
  <2> HIDE DEF g
  <2> QED
    BY <1>2, <2>2, <2>3 DEF Weighs
<1>5. g[k + N] = f[N]
  <2>1. k + N <= k => N = 0 /\ f[N] = 0
    BY <1>2, <1>3 DEF Weighs
  <2> QED
    BY <1>2, <2>1
<1>6. Meaning(all) = g[k + N] /\ Meaning(chars) = f[N]
  <2> HIDE DEF g
  <2> QED
    BY <1>2, <1>3, <1>4, MeaningIs
<1> QED
  BY <1>1, <1>5, <1>6 DEF all, z

\* The digits of a number are a numeral that means it.
LEMMA DigitsNumeral ==
  \A v \in Nat : /\ Digits(v, Radix) \in Seq(Nat) /\ IsNumeral(Digits(v, Radix))
                 /\ Meaning(Digits(v, Radix)) = v
<1> DEFINE good == {v \in Nat : Meaning(Digits(v, Radix)) = v}
<1>0. Radix \in 2..16
  BY Limits
<1>1. ASSUME NEW v \in Nat, \A u \in 0..v - 1 : u \in good
      PROVE  v \in good
  <2>1. CASE v < Radix
    <3>1. Digits(v, Radix) = <<Char(v)>> /\ v \in 0..Radix - 1 /\ Char(v) \in Nat
      BY <1>0, <2>1, ShortDigits
    <3>2. Meaning(<<Char(v)>>) = Char(v) - Char(0) /\ Char(v) = Char(0) + v /\ Char(0) = 48
      BY <3>1, MeaningOfOne, DigitChars
    <3> QED
      BY <3>1, <3>2
  <2>2. CASE ~ (v < Radix)
    <3>1. PICK q \in Nat, d \in 0..Radix - 1 : /\ q = v \div Radix /\ d = v % Radix
                                              /\ v = Radix * q + d /\ q < v
      BY <1>0, <2>2, Smaller
    <3>2. /\ Digits(v, Radix) = Append(Digits(q, Radix), Char(d))
          /\ Digits(q, Radix) \in Seq(Nat) /\ Char(d) \in Nat
      BY <1>0, <2>2, <3>1, LongDigits
    <3>3. q \in good
      BY <1>1, <3>1
    <3>4. Meaning(Digits(v, Radix)) = Meaning(Digits(q, Radix)) * Radix + (Char(d) - Char(0))
      BY <3>2, MeaningOfAppend
    <3>5. Meaning(Digits(q, Radix)) = q /\ Char(d) = Char(0) + d /\ Char(0) = 48
      BY <3>1, <3>3, DigitChars
    <3>6. q * Radix = Radix * q
      BY <1>0
    <3> QED
      BY <3>1, <3>4, <3>5, <3>6
  <2> QED
    BY <2>1, <2>2
<1> HIDE DEF good
<1>2. \A v \in Nat : v \in good
  BY <1>1, StrongInduction
<1> TAKE v \in Nat
<1>3. Digits(v, Radix) \in Seq(Nat)
  BY <1>0, DigitsMeaning, Zenon
<1>4. IsNumeral(Digits(v, Radix))
  BY <1>0, DigitsAreText, DigitChars, ZenonT(60) DEF IsNumeral
<1> QED
  BY <1>2, <1>3, <1>4 DEF good

-----------------------------------------------------------------------------
(* What is read of a text.                                                 *)

Start == [value |-> 0, ok |-> FALSE, stopped |-> FALSE]

\* g is the scan of every beginning of chars.
Scans(g, chars) ==
  /\ g \in [0..Len(chars) -> [value : Int, ok : BOOLEAN, stopped : BOOLEAN]]
  /\ g[0] = Start
  /\ \A n \in 1..Len(chars) : g[n] = ScanChar(g[n - 1], chars[n])

LEMMA ScanIs ==
  ASSUME NEW str, NEW length, Visible(str, length) \in Seq(Nat)
  PROVE  \E g : /\ Scans(g, Visible(str, length))
                /\ ScanU32(str, length) = g[Len(Visible(str, length))]
<1> DEFINE chars == Visible(str, length)
           N == Len(chars)
           S == [value : Int, ok : BOOLEAN, stopped : BOOLEAN]
           rule == [p \in S \X (1..N) |-> ScanChar(p[1], chars[p[2]])]
<1>1. N \in Nat /\ \A n \in 1..N : chars[n] \in Nat
  BY ElementOfSeq
<1>2. ASSUME NEW scan \in S, NEW c \in Nat
      PROVE  ScanChar(scan, c) \in S
  <2>1. scan.value * Radix + c - Char(0) \in Int
    BY DigitChars
  <2> QED
    BY <2>1 DEF ScanChar
<1> HIDE DEF chars
<1>3. rule \in Rules(N, S)
  <2>1. \A p \in S \X (1..N) : ScanChar(p[1], chars[p[2]]) \in S
    <3> TAKE p \in S \X (1..N)
    <3>1. p[1] \in S /\ chars[p[2]] \in Nat
      BY <1>1
    <3> HIDE DEF S
    <3> QED
      BY <1>2, <3>1
  <2> HIDE DEF S
  <2> QED
    BY <2>1 DEF Rules
<1>4. \A a \in S, n \in 1..N : rule[<<a, n>>] = ScanChar(a, chars[n])
  <2> HIDE DEF S
  <2> QED
    OBVIOUS
<1>5. Start \in S
  BY DEF Start
<1> HIDE DEF rule, S
<1>6. PICK g : Follows(g, N, S, Start, rule)
  BY <1>1, <1>3, <1>5, RecursiveFunction
<1>7. /\ g \in [0..N -> S] /\ g[0] = Start
      /\ \A n \in 1..N : g[n] = ScanChar(g[n - 1], chars[n])
  <2>1. \A n \in 1..N : g[n - 1] \in S
    BY <1>1, <1>6 DEF Follows
  <2> QED
    BY <1>4, <1>6, <2>1 DEF Follows
<1> DEFINE e == CHOOSE h : h = [n \in 0..N |->
                   IF n = 0 THEN Start ELSE ScanChar(h[n - 1], chars[n])]
<1>8. ScanU32(str, length) = e[N]
  BY DEF ScanU32, Start, chars
<1>9. g = [n \in 0..N |-> IF n = 0 THEN Start ELSE ScanChar(g[n - 1], chars[n])]
  BY <1>1, <1>7
<1>10. e = [n \in 0..N |-> IF n = 0 THEN Start ELSE ScanChar(e[n - 1], chars[n])]
  BY <1>9
<1> HIDE DEF e
<1> DEFINE good == {n \in 0..N : e[n] = g[n]}
<1>11. 0 \in good
  BY <1>1, <1>7, <1>10
<1>12. \A n \in 0..N - 1 : n \in good => n + 1 \in good
  <2> SUFFICES ASSUME NEW n \in 0..N - 1, e[n] = g[n]
               PROVE  e[n + 1] = g[n + 1]
    BY <1>1
  <2>1. n + 1 \in 1..N /\ n + 1 \in 0..N /\ n + 1 # 0 /\ (n + 1) - 1 = n
    BY <1>1
  <2>2. e[n + 1] = ScanChar(e[(n + 1) - 1], chars[n + 1])
    BY <1>10, <2>1, Zenon
  <2>3. g[n + 1] = ScanChar(g[(n + 1) - 1], chars[n + 1])
    BY <1>7, <2>1, Zenon
  <2> QED
    BY <2>1, <2>2, <2>3, Zenon
<1> HIDE DEF good
<1>13. \A n \in 0..N : n \in good
  BY <1>1, <1>11, <1>12, IntervalInduction
<1>14. ScanU32(str, length) = g[N]
  BY <1>1, <1>8, <1>13 DEF good
<1>15. Scans(g, chars)
  BY <1>7 DEF Scans, S
<1> QED
  BY <1>14, <1>15 DEF chars

\* The scan goes on for as long as there are digits and their number fits:
\* a number that no longer fits cannot fit again with more digits.
LEMMA ScanReads ==
  ASSUME NEW str, NEW length, Visible(str, length) \in Seq(Nat)
  PROVE  /\ ScanU32(str, length).ok <=> /\ IsNumeral(Visible(str, length))
                                        /\ Meaning(Visible(str, length)) <= U32Max
         /\ ScanU32(str, length).ok =>
              /\ ScanU32(str, length).value = Meaning(Visible(str, length))
              /\ ScanU32(str, length).value \in Nat
<1> DEFINE chars == Visible(str, length)
           N == Len(chars)
           scan == ScanU32(str, length)
<1>1. N \in Nat /\ DOMAIN chars = 1..N /\ \A n \in 1..N : chars[n] \in Nat
  BY ElementOfSeq
<1>2. PICK g : Scans(g, chars) /\ scan = g[N]
  BY ScanIs
<1>3. PICK f : Weighs(f, chars)
  BY MeaningIs
<1>4. Meaning(chars) = f[N]
  BY <1>3, MeaningIs
<1> HIDE DEF chars, scan
<1> DEFINE Fits(n) == \A k \in 1..n : IsDigit(chars[k]) /\ f[k] <= U32Max
           Good(n) == /\ g[n] \in [value : Int, ok : BOOLEAN, stopped : BOOLEAN]
                      /\ ~ g[n].stopped <=> Fits(n)
                      /\ g[n].stopped => ~ g[n].ok
                      /\ ~ g[n].stopped => g[n].value = f[n] /\ (g[n].ok <=> n > 0)
           good == {n \in 0..N : Good(n)}
<1>5. 0 \in good
  BY <1>1, <1>2, <1>3 DEF Scans, Weighs, Start
<1>6. ASSUME NEW n \in 0..N - 1, Good(n)
      PROVE  Good(n + 1)
  <2>1. n + 1 \in 1..N /\ n + 1 \in 0..N /\ (n + 1) - 1 = n /\ n \in 0..N
    BY <1>1
  <2>2. g[n + 1] = ScanChar(g[n], chars[n + 1])
    BY <1>2, <2>1 DEF Scans
  <2>3. f[n + 1] = f[n] * Radix + (chars[n + 1] - Char(0)) /\ f[n] \in Int /\ f[n + 1] \in Int
    BY <1>3, <2>1 DEF Weighs
  <2>4. Fits(n + 1) <=> Fits(n) /\ IsDigit(chars[n + 1]) /\ f[n + 1] <= U32Max
    <3>1. \A k \in 1..n + 1 : k \in 1..n \/ k = n + 1
      BY <2>1
    <3>2. n + 1 \in 1..n + 1 /\ \A k \in 1..n : k \in 1..n + 1
      BY <2>1
    <3> QED
      BY <3>1, <3>2
  <2>5. chars[n + 1] \in Nat /\ Radix \in Nat /\ Char(0) = 48
    BY <1>1, <2>1, DigitChars
  <2>6. g[n + 1] \in [value : Int, ok : BOOLEAN, stopped : BOOLEAN]
    BY <1>2, <2>1 DEF Scans
  <2> HIDE DEF Fits
  <2>7. CASE g[n].stopped
    <3>1. g[n + 1] = g[n]
      BY <2>2, <2>7 DEF ScanChar
    <3>2. ~ Fits(n) /\ ~ g[n].ok
      BY <1>6, <2>7
    <3> QED
      BY <2>4, <2>6, <2>7, <3>1, <3>2
  <2>8. CASE ~ g[n].stopped
    <3>1. Fits(n) /\ g[n].value = f[n]
      BY <1>6, <2>8
    <3>2. g[n].value * Radix + chars[n + 1] - Char(0) = f[n + 1]
      BY <2>3, <2>5, <3>1
    <3>3. CASE IsDigit(chars[n + 1]) /\ f[n + 1] <= U32Max
      <4>1. g[n + 1] = [value |-> f[n + 1], ok |-> TRUE, stopped |-> FALSE]
        BY <2>2, <2>8, <3>2, <3>3 DEF ScanChar
      <4>2. n + 1 > 0
        BY <2>1
      <4> QED
        BY <2>4, <2>6, <3>1, <3>3, <4>1, <4>2
    <3>4. CASE ~ (IsDigit(chars[n + 1]) /\ f[n + 1] <= U32Max)
      <4>1. g[n + 1] = [g[n] EXCEPT !.ok = FALSE, !.stopped = TRUE]
        BY <2>2, <2>8, <3>2, <3>4 DEF ScanChar
      <4>2. ~ g[n + 1].ok /\ g[n + 1].stopped
        BY <1>6, <4>1
      <4> QED
        BY <2>4, <2>6, <3>4, <4>2
    <3> QED
      BY <3>3, <3>4
  <2> QED
    BY <2>7, <2>8
<1>7. \A n \in 0..N - 1 : n \in good => n + 1 \in good
  <2> TAKE n \in 0..N - 1
  <2>1. n + 1 \in 0..N
    BY <1>1
  <2> HIDE DEF Good
  <2> QED
    BY <1>6, <2>1
<1> HIDE DEF good
<1>8. N \in good
  <2>1. \A n \in 0..N : n \in good
    BY <1>1, <1>5, <1>7, IntervalInduction
  <2> QED
    BY <1>1, <2>1
<1>9. Good(N)
  <2> HIDE DEF Good
  <2> QED
    BY <1>8 DEF good
<1>10. IsNumeral(chars) <=> N > 0 /\ \A n \in 1..N : IsDigit(chars[n])
  <2>1. chars \in Seq(Nat)
    BY DEF chars
  <2>2. chars # <<>> <=> N > 0
    BY <1>1, <2>1, EmptySeq
  <2> QED
    BY <1>1, <2>2 DEF IsNumeral
\* With digits only, the meaning of a beginning is at most that of the whole.
<1>11. ASSUME \A n \in 1..N : IsDigit(chars[n])
       PROVE  \A n \in 0..N : f[n] \in Nat /\ \A k \in 0..n : f[k] <= f[n]
  <2> DEFINE up == {n \in 0..N : f[n] \in Nat /\ \A k \in 0..n : f[k] <= f[n]}
  <2>1. 0 \in up
    BY <1>1, <1>3 DEF Weighs
  <2>2. \A n \in 0..N - 1 : n \in up => n + 1 \in up
    <3> SUFFICES ASSUME NEW n \in 0..N - 1, n \in up
                 PROVE  n + 1 \in up
      OBVIOUS
    <3>1. n + 1 \in 1..N /\ n + 1 \in 0..N /\ (n + 1) - 1 = n
      BY <1>1
    <3>2. f[n + 1] = f[n] * Radix + (chars[n + 1] - Char(0)) /\ f[n] \in Nat
      BY <1>3, <3>1 DEF Weighs
    <3>3. chars[n + 1] - Char(0) >= 0 /\ Radix \in Nat /\ Radix >= 1 /\ chars[n + 1] - Char(0) \in Int
      BY <1>1, <1>11, <3>1, DigitChars
    <3>4. f[n] * Radix >= f[n] /\ f[n] * Radix \in Int
      <4>1. \A a \in Nat, b \in Nat : a * b \in Nat /\ a * (b + 1) = a * b + a
        OBVIOUS
      <4>2. Radix - 1 \in Nat /\ (Radix - 1) + 1 = Radix
        BY <3>3
      <4>3. f[n] * (Radix - 1) \in Nat /\ f[n] * Radix = f[n] * (Radix - 1) + f[n]
        BY <3>2, <4>1, <4>2
      <4> QED
        BY <3>2, <4>3
    <3>5. f[n + 1] \in Nat /\ f[n] <= f[n + 1]
      BY <3>2, <3>3, <3>4
    <3>6. \A k \in 0..n + 1 : f[k] <= f[n + 1]
      <4> TAKE k \in 0..n + 1
      <4>1. CASE k = n + 1
        BY <3>5, <4>1
      <4>2. CASE k # n + 1
        <5>1. k \in 0..n /\ k \in 0..N
          BY <1>1, <4>2
        <5>2. f[k] <= f[n] /\ f[k] \in Int
          BY <1>3, <5>1 DEF Weighs
        <5> QED
          BY <3>2, <3>5, <5>2
      <4> QED
        BY <4>1, <4>2
    <3> QED
      BY <3>1, <3>5, <3>6
  <2> HIDE DEF up
  <2>3. \A n \in 0..N : n \in up
    BY <1>1, <2>1, <2>2, IntervalInduction
  <2> QED
    BY <2>3 DEF up
<1>12. scan.ok <=> N > 0 /\ Fits(N)
  <2> HIDE DEF Fits
  <2>1. scan = g[N] /\ g[N].ok \in BOOLEAN
    BY <1>2, <1>9
  <2> QED
    BY <1>9, <2>1
<1>13. U32Max \in Nat
  BY Limits
<1>14. Fits(N) /\ N > 0 <=> IsNumeral(chars) /\ f[N] <= U32Max
  <2>1. ASSUME IsNumeral(chars), f[N] <= U32Max
        PROVE  Fits(N)
    <3> SUFFICES ASSUME NEW k \in 1..N PROVE IsDigit(chars[k]) /\ f[k] <= U32Max
      OBVIOUS
    <3>1. f[k] <= f[N] /\ f[N] \in Nat /\ f[k] \in Nat
      BY <1>1, <1>10, <1>11, <2>1
    <3> QED
      BY <1>10, <1>13, <2>1, <3>1
  <2>2. ASSUME Fits(N), N > 0
        PROVE  IsNumeral(chars) /\ f[N] <= U32Max
    BY <1>1, <1>10, <2>2
  <2> HIDE DEF Fits
  <2> QED
    BY <1>10, <2>1, <2>2
<1>15. scan.ok => scan.value = f[N] /\ f[N] \in Nat
  <2>1. IsNumeral(chars) => f[N] \in Nat
    BY <1>1, <1>10, <1>11
  <2> HIDE DEF Fits
  <2> QED
    BY <1>2, <1>9, <1>12, <1>14, <2>1
<1> HIDE DEF Fits
<1> QED
  BY <1>4, <1>12, <1>14, <1>15 DEF chars, scan

-----------------------------------------------------------------------------
(* What is seen of a text: all that is in front of its first Nul.          *)

Ends(str, n) ==
  /\ n \in 0..Len(str)
  /\ \A i \in 1..n : str[i] # Nul
  /\ n < Len(str) => str[n + 1] = Nul

LEMMA EndsOnce ==
  ASSUME NEW str \in Seq(Nat), NEW a, NEW b, Ends(str, a), Ends(str, b)
  PROVE  a = b
<1>1. Len(str) \in Nat /\ a \in 0..Len(str) /\ b \in 0..Len(str)
  BY DEF Ends
<1>2. a < b => a + 1 \in 1..b /\ a < Len(str)
  BY <1>1
<1>3. b < a => b + 1 \in 1..a /\ b < Len(str)
  BY <1>1
<1>4. ~ (a < b) /\ ~ (b < a)
  BY <1>2, <1>3 DEF Ends
<1> QED
  BY <1>1, <1>4

LEMMA VisibleIs ==
  ASSUME NEW str \in Seq(Nat)
  PROVE  /\ \E n : Ends(str, n)
         /\ \A n : Ends(str, n) => Visible(str, Len(str)) = SubSeq(str, 1, n)
<1> DEFINE L == Len(str)
           ends == {n \in 1..L : str[n] = Nul}
           last == IF ends = {} THEN L ELSE Min(ends) - 1
<1>1. L \in Nat /\ Visible(str, L) = SubSeq(str, 1, last)
  BY DEF Visible
<1>2. CASE ends = {}
  <2>1. \A i \in 1..L : str[i] # Nul
    BY <1>2
  <2>2. \A n : Ends(str, n) => n = last
    BY <1>1, <1>2, <2>1 DEF Ends
  <2>3. Ends(str, L)
    BY <1>1, <2>1 DEF Ends
  <2> QED
    BY <1>1, <2>2, <2>3, Zenon
<1>3. CASE ends # {}
  <2>1. ends \in SUBSET Nat
    BY <1>1
  <2>2. \E least \in ends : \A n \in ends : least <= n
    <3> HIDE DEF ends
    <3> QED
      BY <1>3, <2>1, LeastElement
  <2>3. Min(ends) \in ends /\ \A n \in ends : Min(ends) <= n
    <3> HIDE DEF ends
    <3> QED
      BY <2>2 DEF Min
  <2>4. PICK m : m = Min(ends)
    OBVIOUS
  <2>5. /\ m \in 1..L /\ str[m] = Nul /\ last = m - 1
        /\ \A n \in 1..L : str[n] = Nul => m <= n
    BY <1>3, <2>3, <2>4
  <2>6. Ends(str, m - 1)
    BY <1>1, <2>5 DEF Ends
  <2>7. \A n : Ends(str, n) => n = m - 1
    BY <1>1, <2>5 DEF Ends
  <2> QED
    BY <1>1, <2>5, <2>6, <2>7, Zenon
<1> QED
  BY <1>2, <1>3

LEMMA VisibleType ==
  ASSUME NEW str \in Seq(Nat)
  PROVE  \E n \in 0..Len(str) :
           /\ Ends(str, n) /\ Visible(str, Len(str)) \in Seq(Nat)
           /\ Len(Visible(str, Len(str))) = n
           /\ \A i \in 1..n : Visible(str, Len(str))[i] = str[i]
<1>1. PICK n : Ends(str, n)
  BY VisibleIs
<1>2. n \in 0..Len(str) /\ \A i \in 1..n : str[i] \in Nat
  BY <1>1, ElementOfSeq DEF Ends
<1>3. Visible(str, Len(str)) = SubSeq(str, 1, n)
  BY <1>1, VisibleIs
<1>4. /\ SubSeq(str, 1, n) \in Seq(Nat)
      /\ Len(SubSeq(str, 1, n)) = (IF 1 <= n THEN n - 1 + 1 ELSE 0)
      /\ \A i \in 1..n - 1 + 1 : SubSeq(str, 1, n)[i] = str[1 + i - 1]
  BY <1>2, SubSeqProperties
<1> QED
  BY <1>1, <1>2, <1>3, <1>4

\* A text without a Nul is all there is to see in front of one.
LEMMA VisibleText ==
  ASSUME NEW text \in Seq(Nat), \A i \in 1..Len(text) : text[i] # Nul
  PROVE  /\ Append(text, Nul) \in Seq(Nat)
         /\ Visible(Append(text, Nul), Len(Append(text, Nul))) = text
<1> DEFINE str == Append(text, Nul)
<1>1. /\ Len(text) \in Nat /\ str \in Seq(Nat) /\ Len(str) = Len(text) + 1
      /\ str[Len(text) + 1] = Nul /\ \A i \in 1..Len(text) : str[i] = text[i]
  BY AppendProperties DEF Nul
<1> HIDE DEF str
<1>2. Ends(str, Len(text))
  BY <1>1 DEF Ends
<1>3. PICK n \in 0..Len(str) :
        /\ Ends(str, n) /\ Visible(str, Len(str)) \in Seq(Nat)
        /\ Len(Visible(str, Len(str))) = n
        /\ \A i \in 1..n : Visible(str, Len(str))[i] = str[i]
  BY <1>1, VisibleType
<1>4. n = Len(text)
  BY <1>1, <1>2, <1>3, EndsOnce
<1>5. Visible(str, Len(str)) = text
  BY <1>1, <1>3, <1>4, SeqEqual
<1> QED
  BY <1>1, <1>5 DEF str

\* Behind the sign there is as much to see as without it.
LEMMA VisibleTail ==
  ASSUME NEW str \in Seq(Nat), str # <<>>, str[1] = Minus
  PROVE  /\ Visible(str, Len(str)) \in Seq(Nat) /\ Visible(str, Len(str)) # <<>>
         /\ Visible(str, Len(str))[1] = Minus
         /\ Visible(Tail(str), Len(str) - 1) = Tail(Visible(str, Len(str)))
         /\ Tail(Visible(str, Len(str))) \in Seq(Nat)
<1> DEFINE all  == Visible(str, Len(str))
           rest == Visible(Tail(str), Len(str) - 1)
<1>1. /\ Len(str) \in Nat /\ Len(str) > 0
      /\ Tail(str) \in Seq(Nat) /\ Len(Tail(str)) = Len(str) - 1
      /\ \A i \in 1..Len(str) - 1 : Tail(str)[i] = str[i + 1]
  BY EmptySeq, HeadTailProperties
<1>2. PICK n \in 0..Len(str) : /\ Ends(str, n) /\ all \in Seq(Nat) /\ Len(all) = n
                               /\ \A i \in 1..n : all[i] = str[i]
  BY VisibleType
<1>3. n > 0
  BY <1>1, <1>2, DigitChars DEF Ends
<1>4. all # <<>> /\ all[1] = Minus
  BY <1>2, <1>3
<1>5. /\ Tail(all) \in Seq(Nat) /\ Len(Tail(all)) = n - 1
      /\ \A i \in 1..n - 1 : Tail(all)[i] = all[i + 1]
  <2> HIDE DEF all
  <2> QED
    BY <1>2, <1>4, HeadTailProperties
<1>6. Ends(Tail(str), n - 1)
  <2>1. n - 1 \in 0..Len(Tail(str))
    BY <1>1, <1>2, <1>3
  <2>2. \A i \in 1..n - 1 : Tail(str)[i] # Nul
    <3> TAKE i \in 1..n - 1
    <3>1. i \in 1..Len(str) - 1 /\ i + 1 \in 1..n
      BY <1>1, <1>2
    <3> QED
      BY <1>1, <1>2, <3>1 DEF Ends
  <2>3. n - 1 < Len(Tail(str)) => Tail(str)[(n - 1) + 1] = Nul
    <3> SUFFICES ASSUME n - 1 < Len(Tail(str)) PROVE Tail(str)[(n - 1) + 1] = Nul
      OBVIOUS
    <3>1. (n - 1) + 1 = n /\ n \in 1..Len(str) - 1 /\ n < Len(str)
      BY <1>1, <1>2, <1>3
    <3> QED
      BY <1>1, <1>2, <3>1 DEF Ends
  <2> QED
    BY <2>1, <2>2, <2>3 DEF Ends
<1>7. PICK k \in 0..Len(Tail(str)) :
        /\ Ends(Tail(str), k) /\ rest \in Seq(Nat) /\ Len(rest) = k
        /\ \A i \in 1..k : rest[i] = Tail(str)[i]
  <2>1. rest = Visible(Tail(str), Len(Tail(str)))
    BY <1>1
  <2> HIDE DEF rest
  <2> QED
    BY <1>1, <2>1, VisibleType
<1>8. k = n - 1
  BY <1>1, <1>6, <1>7, EndsOnce
<1> HIDE DEF all, rest
<1>9. \A i \in 1..n - 1 : rest[i] = Tail(all)[i]
  <2> TAKE i \in 1..n - 1
  <2>1. i \in 1..k /\ i \in 1..Len(str) - 1 /\ i + 1 \in 1..n
    BY <1>1, <1>2, <1>8
  <2> QED
    BY <1>1, <1>2, <1>5, <1>7, <2>1
<1>10. rest = Tail(all)
  BY <1>5, <1>7, <1>8, <1>9, SeqEqual
<1> QED
  BY <1>2, <1>4, <1>5, <1>10 DEF all, rest

-----------------------------------------------------------------------------
(* Reading and writing a number.                                           *)

LEMMA NumberLimits ==
  /\ U8Max \in Nat /\ U16Max \in Nat /\ U32Max \in Nat /\ S32Max \in Nat
  /\ U8Max < U32Max /\ U16Max < U32Max /\ U32Max = 2 * S32Max + 1
  /\ U32Chars \in Nat /\ S32Chars \in Nat
<1>1. /\ U8Max \in Nat /\ U16Max \in Nat /\ U32Max \in Nat /\ S32Max \in Nat
      /\ U8Max < U16Max /\ U16Max < U32Max /\ U32Max = 2 * S32Max + 1
      /\ U32Chars \in Nat /\ S32Chars \in Nat
  BY Limits
<1> QED
  BY <1>1

\* Whatever the text, a reader takes exactly what it means for its type.
LEMMA ReadingIsNaming ==
  ASSUME NEW type \in Types, NEW str \in Seq(Nat), NEW old
  PROVE  LET result == Matoi(type, str, Len(str), old)
             named  == Named(type, Visible(str, Len(str)))
         IN  /\ result.ok \in BOOLEAN /\ (result.ok <=> named # {})
             /\ result.ok => result.value \in named
<1> DEFINE result == Matoi(type, str, Len(str), old)
           chars  == Visible(str, Len(str))
           named  == Named(type, chars)
           scan   == ScanU32(str, Len(str))
<1> SUFFICES /\ result.ok \in BOOLEAN /\ (result.ok <=> named # {})
             /\ result.ok => result.value \in named
  OBVIOUS
<1>1. PICK n \in 0..Len(str) : /\ Ends(str, n) /\ chars \in Seq(Nat) /\ Len(chars) = n
                               /\ \A i \in 1..n : chars[i] = str[i]
  BY VisibleType
<1>2. /\ scan.ok <=> IsNumeral(chars) /\ Meaning(chars) <= U32Max
      /\ scan.ok => scan.value = Meaning(chars) /\ Meaning(chars) \in Nat
      /\ scan.ok \in BOOLEAN
  <2>1. PICK g : Scans(g, chars) /\ scan = g[Len(chars)]
    BY <1>1, ScanIs
  <2>2. Len(chars) \in 0..Len(chars)
    BY <1>1
  <2>3. scan.ok \in BOOLEAN
    BY <2>1, <2>2 DEF Scans
  <2>4. scan.ok => scan.value \in Nat
    BY <1>1, ScanReads
  <2>5. /\ scan.ok <=> IsNumeral(chars) /\ Meaning(chars) <= U32Max
        /\ scan.ok => scan.value = Meaning(chars)
    BY <1>1, ScanReads
  <2> QED
    BY <2>3, <2>4, <2>5
<1>3. IsNumeral(chars) => Meaning(chars) \in Int
  BY <1>1, MeaningOfAppend
<1> HIDE DEF chars, scan
\* A type without a sign, whose largest value is max.
<1>4. ASSUME NEW max \in Nat, max <= U32Max, type # "s32", Values(type) = 0..max,
             result.ok <=> scan.ok /\ scan.value <= max,
             result.ok => result.value = scan.value,
             result.ok \in BOOLEAN
      PROVE  /\ result.ok \in BOOLEAN /\ (result.ok <=> named # {})
             /\ result.ok => result.value \in named
  <2> HIDE DEF result
  <2>1. named = IF IsNumeral(chars) THEN {Meaning(chars)} \intersect (0..max) ELSE {}
    BY <1>4 DEF Named
  <2>2. ASSUME IsNumeral(chars), Meaning(chars) \in 0..max
        PROVE  result.ok
    BY <1>2, <1>4, <2>2, NumberLimits
  <2>3. ASSUME result.ok
        PROVE  IsNumeral(chars) /\ Meaning(chars) \in 0..max /\ result.value = Meaning(chars)
    BY <1>2, <1>4, <2>3
  <2> HIDE DEF named
  <2>4. CASE result.ok
    BY <1>4, <2>1, <2>3, <2>4
  <2>5. CASE ~ result.ok
    <3>1. named = {}
      BY <2>1, <2>2, <2>5
    <3> QED
      BY <1>4, <2>5, <3>1
  <2> QED
    BY <1>4, <2>4, <2>5
<1>5. CASE type = "u8"
  <2>1. result = [ok |-> scan.ok /\ scan.value <= U8Max,
                  value |-> IF scan.ok /\ scan.value <= U8Max THEN scan.value ELSE 0]
    BY <1>5 DEF Matoi, MatoiUpTo, scan
  <2>2. Values(type) = 0..U8Max /\ type # "s32" /\ U8Max \in Nat /\ U8Max <= U32Max
    BY <1>5, NumberLimits DEF Values
  <2> HIDE DEF result, named
  <2>3. /\ result.ok <=> scan.ok /\ scan.value <= U8Max
        /\ result.ok => result.value = scan.value
        /\ result.ok \in BOOLEAN
    BY <2>1
  <2> QED
    BY <1>4, <2>2, <2>3
<1>6. CASE type = "u16"
  <2>1. result = [ok |-> scan.ok /\ scan.value <= U16Max,
                  value |-> IF scan.ok /\ scan.value <= U16Max THEN scan.value ELSE 0]
    BY <1>6 DEF Matoi, MatoiUpTo, scan
  <2>2. Values(type) = 0..U16Max /\ type # "s32" /\ U16Max \in Nat /\ U16Max <= U32Max
    BY <1>6, NumberLimits DEF Values
  <2> HIDE DEF result, named
  <2>3. /\ result.ok <=> scan.ok /\ scan.value <= U16Max
        /\ result.ok => result.value = scan.value
        /\ result.ok \in BOOLEAN
    BY <2>1
  <2> QED
    BY <1>4, <2>2, <2>3
<1>7. CASE type = "u32"
  <2>1. result = [ok |-> scan.ok, value |-> scan.value]
    BY <1>7 DEF Matoi, Matoi_U32, scan
  <2>2. Values(type) = 0..U32Max /\ type # "s32" /\ U32Max \in Nat /\ U32Max <= U32Max
    BY <1>7, NumberLimits DEF Values
  <2>3. scan.ok => scan.value <= U32Max
    BY <1>2
  <2> HIDE DEF result, named
  <2>4. /\ result.ok <=> scan.ok /\ scan.value <= U32Max
        /\ result.ok => result.value = scan.value
        /\ result.ok \in BOOLEAN
    BY <1>2, <2>1, <2>3
  <2> QED
    BY <1>4, <2>2, <2>4
<1>8. CASE type = "s32"
  <2> DEFINE negative == Len(str) > 0 /\ str[1] = Minus
  <2>1. Values(type) = -S32Max - 1..S32Max /\ S32Max \in Nat /\ U32Max = 2 * S32Max + 1
    BY <1>8, NumberLimits DEF Values
  <2>2. CASE negative
    <3> DEFINE rest == Tail(chars)
               tail == ScanU32(Tail(str), Len(str) - 1)
               ok == tail.ok /\ tail.value <= S32Max + 1
    <3>1. /\ chars # <<>> /\ chars[1] = Minus /\ rest \in Seq(Nat)
          /\ Visible(Tail(str), Len(str) - 1) = rest
      BY <2>2, VisibleTail, EmptySeq DEF chars
    <3>2. /\ tail.ok <=> IsNumeral(rest) /\ Meaning(rest) <= U32Max
          /\ tail.ok => tail.value = Meaning(rest) /\ tail.value \in Nat
      BY <3>1, ScanReads
    <3>3. result = [ok |-> ok, value |-> IF ~ok THEN old ELSE -tail.value]
      BY <1>8, <2>2 DEF Matoi, Matoi_S32
    <3>4. named = IF IsNumeral(rest)
                  THEN {-Meaning(rest)} \intersect (-S32Max - 1..S32Max) ELSE {}
      BY <1>8, <2>1, <3>1 DEF Named
    <3> HIDE DEF result, named, rest, tail
    <3>5. ASSUME IsNumeral(rest), -Meaning(rest) \in -S32Max - 1..S32Max
          PROVE  ok
      <4>1. Meaning(rest) \in Int
        BY <3>1, MeaningOfAppend
      <4>2. Meaning(rest) <= S32Max + 1 /\ S32Max + 1 <= U32Max
        BY <2>1, <3>5, <4>1
      <4> QED
        BY <2>1, <3>2, <3>5, <4>1, <4>2
    <3>6. ASSUME ok
          PROVE  IsNumeral(rest) /\ -Meaning(rest) \in -S32Max - 1..S32Max
      BY <2>1, <3>2, <3>6
    <3>7. CASE ok
      <4>1. named = {-Meaning(rest)} /\ result.ok /\ result.value = -Meaning(rest)
        BY <3>2, <3>3, <3>4, <3>6, <3>7
      <4> QED
        BY <3>3, <3>7, <4>1
    <3>8. CASE ~ ok
      <4>1. named = {} /\ result.ok = FALSE
        BY <3>3, <3>4, <3>5, <3>8
      <4> QED
        BY <4>1
    <3> QED
      BY <3>7, <3>8
  <2>3. CASE ~ negative
    <3> DEFINE ok == scan.ok /\ scan.value <= S32Max
    <3>1. ~ (chars # <<>> /\ chars[1] = Minus)
      <4> SUFFICES ASSUME chars # <<>>, chars[1] = Minus PROVE FALSE
        OBVIOUS
      <4>1. n > 0
        BY <1>1, EmptySeq
      <4>2. str[1] = Minus /\ Len(str) > 0
        BY <1>1, <4>1
      <4> QED
        BY <2>3, <4>2
    <3>2. result = [ok |-> ok, value |-> IF ~ok THEN old ELSE scan.value]
      BY <1>8, <2>3 DEF Matoi, Matoi_S32, scan
    <3>3. named = IF IsNumeral(chars)
                  THEN {Meaning(chars)} \intersect (-S32Max - 1..S32Max) ELSE {}
      BY <1>8, <2>1, <3>1 DEF Named
    <3> HIDE DEF result, named
    <3>4. ASSUME IsNumeral(chars), Meaning(chars) \in -S32Max - 1..S32Max
          PROVE  ok
      <4>1. Meaning(chars) <= S32Max /\ S32Max <= U32Max /\ Meaning(chars) <= U32Max
        BY <1>3, <2>1, <3>4
      <4> QED
        BY <1>2, <3>4, <4>1
    <3>5. ASSUME ok
          PROVE  IsNumeral(chars) /\ Meaning(chars) \in -S32Max - 1..S32Max
      BY <1>2, <2>1, <3>5
    <3>6. CASE ok
      <4>1. named = {Meaning(chars)} /\ result.ok /\ result.value = Meaning(chars)
        BY <1>2, <3>2, <3>3, <3>5, <3>6
      <4> QED
        BY <3>2, <3>6, <4>1
    <3>7. CASE ~ ok
      <4>1. named = {} /\ result.ok = FALSE
        BY <3>2, <3>3, <3>4, <3>7
      <4> QED
        BY <4>1
    <3> QED
      BY <3>6, <3>7
  <2> QED
    BY <2>2, <2>3
<1> HIDE DEF result, named
<1> QED
  BY <1>5, <1>6, <1>7, <1>8 DEF Types

-----------------------------------------------------------------------------
(* What the printers write.                                                *)

\* Padding puts zeros between the sign and the digits, and it has the room.
LEMMA PaddedIs ==
  ASSUME NEW sign \in Seq(Nat), NEW digits \in Seq(Nat), NEW width \in Nat,
         NEW size \in Nat, width < size
  PROVE  \E k \in Nat : Padded(sign, digits, width, size) = sign \o (Zeros(k) \o digits)
<1> DEFINE zeros == width - Len(sign) - Len(digits)
<1>1. zeros \in Int /\ Len(sign) \in Nat /\ Len(digits) \in Nat
  OBVIOUS
<1>2. CASE zeros <= 0
  <2>1. Zeros(0) = <<>> /\ Zeros(0) \o digits = digits
    BY DEF Zeros
  <2>2. Padded(sign, digits, width, size) = sign \o digits
    BY <1>2 DEF Padded
  <2> QED
    BY <2>1, <2>2
<1>3. CASE ~ (zeros <= 0)
  <2>1. zeros \in Nat
    BY <1>1, <1>3
  <2>2. Zeros(zeros) \in Seq(Nat) /\ Len(Zeros(zeros)) = zeros
    BY <2>1, MeaningOfZeros, EmptySeq
  <2> DEFINE text == sign \o Zeros(zeros) \o digits
  <2>3. Padded(sign, digits, width, size) = IF Len(text) < size THEN text ELSE <<>>
    BY <1>3 DEF Padded
  <2> HIDE DEF zeros
  <2>4. text = sign \o (Zeros(zeros) \o digits)
    BY <2>2, ConcatAssociative, SMTT(60)
  <2>5. Len(text) = Len(sign) + zeros + Len(digits)
    <3>1. sign \o Zeros(zeros) \in Seq(Nat) /\ Len(sign \o Zeros(zeros)) = Len(sign) + zeros
      BY <2>2, ConcatProperties
    <3> QED
      BY <2>2, <3>1, ConcatProperties
  <2>6. Len(text) < size
    BY <1>1, <2>5 DEF zeros
  <2> QED
    BY <2>1, <2>3, <2>4, <2>6
<1> QED
  BY <1>2, <1>3

LEMMA PaddedNumeral ==
  ASSUME NEW k \in Nat, NEW v \in Nat
  PROVE  LET numeral == Zeros(k) \o Digits(v, Radix)
         IN  /\ numeral \in Seq(Nat) /\ IsNumeral(numeral) /\ Meaning(numeral) = v
             /\ \A i \in 1..Len(numeral) : numeral[i] # Nul
             /\ numeral # <<>> /\ numeral[1] # Minus
<1> DEFINE z == Zeros(k)
           d == Digits(v, Radix)
           numeral == z \o d
<1>1. z \in Seq(Nat) /\ Len(z) = k /\ \A i \in 1..k : z[i] = Char(0)
  BY CharType DEF Zeros
<1>2. d \in Seq(Nat) /\ IsNumeral(d) /\ Meaning(d) = v
  BY DigitsNumeral
<1>3. Meaning(numeral) = v
  BY <1>2, MeaningOfZeros
<1> HIDE DEF z, d
<1>4. /\ numeral \in Seq(Nat) /\ Len(numeral) = k + Len(d)
      /\ \A i \in 1..k + Len(d) : numeral[i] = IF i <= k THEN z[i] ELSE d[i - k]
  <2>1. /\ z \o d \in Seq(Nat) /\ Len(z \o d) = Len(z) + Len(d)
        /\ \A i \in 1..Len(z) + Len(d) :
             (z \o d)[i] = IF i <= Len(z) THEN z[i] ELSE d[i - Len(z)]
    BY <1>1, <1>2, ConcatProperties, Zenon
  <2> QED
    BY <1>1, <2>1
<1> HIDE DEF numeral
<1>5. Len(d) \in Nat /\ Len(d) > 0 /\ \A i \in 1..Len(d) : IsDigit(d[i])
  BY <1>2, EmptySeq DEF IsNumeral
<1>6. \A i \in 1..Len(numeral) : IsDigit(numeral[i])
  <2> TAKE i \in 1..Len(numeral)
  <2>1. CASE i <= k
    <3>1. numeral[i] = Char(0) /\ 0 \in 0..Radix - 1
      BY <1>1, <1>4, <2>1, DigitChars
    <3> QED
      BY <3>1, DigitChars
  <2>2. CASE ~ (i <= k)
    <3>1. i - k \in 1..Len(d) /\ numeral[i] = d[i - k]
      BY <1>4, <1>5, <2>2
    <3> QED
      BY <1>5, <3>1
  <2> QED
    BY <2>1, <2>2
<1>7. numeral # <<>> /\ 1 \in 1..Len(numeral) /\ DOMAIN numeral = 1..Len(numeral)
  BY <1>4, <1>5, EmptySeq
<1>8. \A i \in 1..Len(numeral) : numeral[i] # Nul /\ numeral[i] # Minus
  BY <1>6, DigitChars
<1>9. IsNumeral(numeral)
  BY <1>6, <1>7 DEF IsNumeral
<1> QED
  BY <1>3, <1>4, <1>7, <1>8, <1>9 DEF numeral, z, d

\* A numeral, and one with the sign in front of it, to a reader.
LEMMA NamedNumeral ==
  ASSUME NEW type \in Types, NEW chars \in Seq(Nat), IsNumeral(chars), chars[1] # Minus,
         NEW value, Meaning(chars) = value, value \in Values(type)
  PROVE  Named(type, chars) = {value}
BY DEF Named

LEMMA NamedNegative ==
  ASSUME NEW digits \in Seq(Nat), IsNumeral(digits),
         NEW value, -Meaning(digits) = value, value \in Values("s32")
  PROVE  Named("s32", <<Minus>> \o digits) = {value}
<1> DEFINE chars == <<Minus>> \o digits
<1>1. <<Minus>> \in Seq(Nat) /\ Len(<<Minus>>) = 1 /\ <<Minus>>[1] = Minus
  BY DEF Minus
<1>2. /\ chars \in Seq(Nat) /\ Len(chars) = 1 + Len(digits) /\ Len(digits) \in Nat
      /\ chars[1] = Minus /\ \A i \in 1..Len(digits) : chars[i + 1] = digits[i]
  <2>1. /\ chars \in Seq(Nat) /\ Len(chars) = Len(<<Minus>>) + Len(digits)
        /\ \A i \in 1..Len(<<Minus>>) + Len(digits) :
             chars[i] = IF i <= Len(<<Minus>>) THEN <<Minus>>[i] ELSE digits[i - Len(<<Minus>>)]
    BY <1>1, ConcatProperties, Zenon
  <2> HIDE DEF chars
  <2>2. \A i \in 1..1 + Len(digits) : chars[i] = IF i <= 1 THEN Minus ELSE digits[i - 1]
    BY <1>1, <2>1
  <2>3. Len(digits) \in Nat /\ chars[1] = Minus
    BY <2>2
  <2>4. \A i \in 1..Len(digits) : chars[i + 1] = digits[i]
    <3> TAKE i \in 1..Len(digits)
    <3>1. i + 1 \in 1..1 + Len(digits) /\ ~ (i + 1 <= 1) /\ (i + 1) - 1 = i
      BY <2>3
    <3> QED
      BY <2>2, <3>1
  <2> QED
    BY <1>1, <2>1, <2>3, <2>4
<1> HIDE DEF chars
<1>3. chars # <<>>
  BY <1>2, EmptySeq
<1>4. Tail(chars) = digits
  <2>1. /\ Tail(chars) \in Seq(Nat) /\ Len(Tail(chars)) = Len(digits)
        /\ \A i \in 1..Len(digits) : Tail(chars)[i] = digits[i]
    BY <1>2, <1>3, HeadTailProperties
  <2> QED
    BY <2>1, SeqEqual
<1>5. Named("s32", chars) = {value}
  BY <1>2, <1>3, <1>4 DEF Named
<1> QED
  BY <1>5 DEF chars

\* A printer writes a numeral for the number, behind a sign if it is negative.
LEMMA WrittenIs ==
  ASSUME NEW type \in Types, NEW value \in Values(type), NEW width \in Widths
  PROVE  \E k \in Nat : NumberWritten(type, value, width) =
           IF value < 0 THEN <<Minus>> \o (Zeros(k) \o Digits(-value, Radix))
                        ELSE Zeros(k) \o Digits(value, Radix)
<1>1. /\ width \in Nat /\ width < U32Chars /\ width < S32Chars
      /\ U32Chars \in Nat /\ S32Chars \in Nat
  BY NumbersAssumption, NumberLimits DEF NumbersAssumption
<1>2. value \in Int /\ (value < 0 => type = "s32")
  BY NumberLimits DEF Types, Values
<1>3. \A v \in Nat : /\ Digits(v, Radix) \in Seq(Nat) /\ Digits(v, Radix) # <<>>
                     /\ <<>> \o Digits(v, Radix) = Digits(v, Radix)
  <2> TAKE v \in Nat
  <2>1. Digits(v, Radix) \in Seq(Nat) /\ Digits(v, Radix) # <<>>
    BY DigitsNumeral DEF IsNumeral
  <2> QED
    BY <2>1, ConcatEmptySeq
<1>4. \A chars \in Seq(Nat) : Zeros(0) \o chars = chars /\ <<>> \o chars = chars
  BY ConcatEmptySeq DEF Zeros
<1>5. <<>> \in Seq(Nat) /\ <<Minus>> \in Seq(Nat)
  BY DEF Minus
<1>6. CASE type # "s32"
  <2>1. value \in Nat
    BY <1>2, <1>6
  <2> DEFINE d == Digits(value, Radix)
  <2>2. d \in Seq(Nat) /\ d # <<>> /\ Utoa(value, U32Chars) = d
    BY <1>1, <1>3, <2>1 DEF Utoa
  <2> HIDE DEF d
  <2>3. CASE width = 0
    <3>1. NumberWritten(type, value, width) = Zeros(0) \o d
      BY <1>4, <1>6, <2>2, <2>3 DEF NumberWritten
    <3> QED
      <4>1. NumberWritten(type, value, width) =
              IF value < 0 THEN <<Minus>> \o (Zeros(0) \o Digits(-value, Radix))
                           ELSE Zeros(0) \o Digits(value, Radix)
        BY <2>1, <3>1 DEF d
      <4> QED
        BY <4>1, 0 \in Nat, Zenon
  <2>4. CASE width # 0
    <3>1. NumberWritten(type, value, width) = Padded(<<>>, d, width, U32Chars)
      BY <1>6, <2>2, <2>4 DEF NumberWritten, UtoaPad
    <3>2. PICK k \in Nat : Padded(<<>>, d, width, U32Chars) = <<>> \o (Zeros(k) \o d)
      <4>1. <<>> \in Seq(Nat) /\ width \in Nat /\ U32Chars \in Nat /\ width < U32Chars
        BY <1>1, <1>5
      <4>2. d \in Seq(Nat)
        BY <2>2
      <4> QED
        BY <4>1, <4>2, PaddedIs, Zenon
    <3>3. Zeros(k) \o d \in Seq(Nat)
      BY <2>1, PaddedNumeral DEF d
    <3>4. NumberWritten(type, value, width) = Zeros(k) \o d
      BY <1>4, <3>1, <3>2, <3>3
    <3> QED
      <4>1. NumberWritten(type, value, width) =
              IF value < 0 THEN <<Minus>> \o (Zeros(k) \o Digits(-value, Radix))
                           ELSE Zeros(k) \o Digits(value, Radix)
        BY <2>1, <3>4 DEF d
      <4> QED
        BY <4>1, 0 \in Nat, Zenon
  <2> QED
    BY <2>3, <2>4
<1>7. CASE type = "s32" /\ ~ (value < 0)
  <2>1. value \in Nat
    BY <1>2, <1>7
  <2> DEFINE d == Digits(value, Radix)
  <2>2. d \in Seq(Nat) /\ d # <<>> /\ Itoa(value, S32Chars) = d
    BY <1>1, <1>3, <1>7, <2>1 DEF Itoa
  <2> HIDE DEF d
  <2>3. CASE width = 0
    <3>1. NumberWritten(type, value, width) = Zeros(0) \o d
      BY <1>4, <1>7, <2>2, <2>3 DEF NumberWritten
    <3> QED
      <4>1. NumberWritten(type, value, width) =
              IF value < 0 THEN <<Minus>> \o (Zeros(0) \o Digits(-value, Radix))
                           ELSE Zeros(0) \o Digits(value, Radix)
        BY <2>1, <3>1 DEF d
      <4> QED
        BY <4>1, 0 \in Nat, Zenon
  <2>4. CASE width # 0
    <3>1. NumberWritten(type, value, width)
            = Padded(<<>>, SubSeq(d, 0 + 1, Len(d)), width, S32Chars)
      BY <1>7, <2>2, <2>4 DEF NumberWritten, ItoaPad
    <3>2. SubSeq(d, 0 + 1, Len(d)) = d
      BY <2>2, SubSeqFull
    <3>3. PICK k \in Nat : Padded(<<>>, d, width, S32Chars) = <<>> \o (Zeros(k) \o d)
      <4>1. <<>> \in Seq(Nat) /\ width \in Nat /\ S32Chars \in Nat /\ width < S32Chars
        BY <1>1, <1>5
      <4>2. d \in Seq(Nat)
        BY <2>2
      <4> QED
        BY <4>1, <4>2, PaddedIs, Zenon
    <3>4. Zeros(k) \o d \in Seq(Nat)
      BY <2>1, PaddedNumeral DEF d
    <3>5. NumberWritten(type, value, width) = Zeros(k) \o d
      BY <1>4, <3>1, <3>2, <3>3, <3>4
    <3> QED
      <4>1. NumberWritten(type, value, width) =
              IF value < 0 THEN <<Minus>> \o (Zeros(k) \o Digits(-value, Radix))
                           ELSE Zeros(k) \o Digits(value, Radix)
        BY <2>1, <3>5 DEF d
      <4> QED
        BY <4>1, 0 \in Nat, Zenon
  <2> QED
    BY <2>3, <2>4
<1>8. CASE type = "s32" /\ value < 0
  <2>1. -value \in Nat
    BY <1>2, <1>8
  <2> DEFINE d == Digits(-value, Radix)
             text == <<Minus>> \o d
  <2>2. d \in Seq(Nat) /\ Itoa(value, S32Chars) = text
    <3>1. d \in Seq(Nat)
      BY <2>1, DigitsNumeral
    <3>2. ~ (S32Chars < S32Chars)
      BY <1>1
    <3> QED
      BY <1>8, <3>1, <3>2, Zenon DEF Itoa
  <2>3. Zeros(0) \o d = d
    BY <1>4, <2>2
  <2> HIDE DEF d
  <2>4. CASE width = 0
    <3>1. NumberWritten(type, value, width) = <<Minus>> \o (Zeros(0) \o d)
      BY <1>8, <2>2, <2>3, <2>4 DEF NumberWritten
    <3> QED
      BY <1>8, <3>1 DEF d
  <2>5. CASE width # 0
    <3>1. /\ text \in Seq(Nat) /\ Len(text) = 1 + Len(d) /\ Len(d) \in Nat
          /\ \A i \in 2..Len(text) : text[i] = d[i - 1]
      <4>1. /\ text \in Seq(Nat) /\ Len(text) = Len(<<Minus>>) + Len(d)
            /\ \A i \in 1..Len(<<Minus>>) + Len(d) :
                 text[i] = IF i <= Len(<<Minus>>) THEN <<Minus>>[i] ELSE d[i - Len(<<Minus>>)]
        BY <1>5, <2>2, ConcatProperties, Zenon
      <4>2. Len(<<Minus>>) = 1 /\ Len(d) \in Nat
        BY <2>2
      <4> HIDE DEF text
      <4> QED
        BY <4>1, <4>2
    <3> HIDE DEF text
    <3>2. text # <<>>
      BY <3>1, EmptySeq
    <3>3. /\ SubSeq(text, 2, Len(text)) \in Seq(Nat)
          /\ Len(SubSeq(text, 2, Len(text))) = Len(d)
          /\ \A i \in 1..Len(d) : SubSeq(text, 2, Len(text))[i] = d[i]
      <4>1. \A i \in 2..Len(text) : text[i] \in Nat
        BY <3>1, ElementOfSeq
      <4>2. /\ SubSeq(text, 2, Len(text)) \in Seq(Nat)
            /\ Len(SubSeq(text, 2, Len(text)))
                 = (IF 2 <= Len(text) THEN Len(text) - 2 + 1 ELSE 0)
            /\ \A i \in 1..Len(text) - 2 + 1 : SubSeq(text, 2, Len(text))[i] = text[2 + i - 1]
        BY <3>1, <4>1, SubSeqProperties
      <4>3. \A i \in 1..Len(d) : SubSeq(text, 2, Len(text))[i] = d[i]
        <5> TAKE i \in 1..Len(d)
        <5>1. i \in 1..Len(text) - 2 + 1 /\ i + 1 \in 2..Len(text) /\ 2 + i - 1 = i + 1
              /\ (i + 1) - 1 = i
          BY <3>1
        <5> QED
          BY <3>1, <4>2, <5>1
      <4> QED
        BY <3>1, <4>2, <4>3
    <3>4. SubSeq(text, 2, Len(text)) = d
      BY <2>2, <3>3, SeqEqual
    <3>5. NumberWritten(type, value, width)
            = Padded(<<Minus>>, SubSeq(text, Len(<<Minus>>) + 1, Len(text)), width, S32Chars)
      BY <1>8, <2>2, <2>5, <3>2 DEF NumberWritten, ItoaPad
    <3>6. Len(<<Minus>>) + 1 = 2
      OBVIOUS
    <3>7. PICK k \in Nat : Padded(<<Minus>>, d, width, S32Chars) = <<Minus>> \o (Zeros(k) \o d)
      BY <1>1, <1>5, <2>2, PaddedIs, ZenonT(60)
    <3>8. NumberWritten(type, value, width) = <<Minus>> \o (Zeros(k) \o d)
      BY <3>4, <3>5, <3>6, <3>7
    <3> QED
      BY <1>8, <3>8 DEF d
  <2> QED
    BY <2>4, <2>5
<1> QED
  BY <1>6, <1>7, <1>8

LEMMA WritingIsNaming ==
  ASSUME NEW type \in Types, NEW value \in Values(type), NEW width \in Widths
  PROVE  LET text == NumberWritten(type, value, width)
         IN  /\ text \in Seq(Nat) /\ \A i \in 1..Len(text) : text[i] # Nul
             /\ Named(type, text) = {value}
<1> DEFINE text == NumberWritten(type, value, width)
<1>1. value \in Int /\ (value < 0 => type = "s32")
  BY NumberLimits DEF Types, Values
<1>2. PICK k \in Nat : text = IF value < 0 THEN <<Minus>> \o (Zeros(k) \o Digits(-value, Radix))
                                           ELSE Zeros(k) \o Digits(value, Radix)
  BY WrittenIs
<1> HIDE DEF text
<1>3. CASE value < 0
  <2> DEFINE v == -value
             numeral == Zeros(k) \o Digits(v, Radix)
  <2>1. v \in Nat /\ -v = value
    BY <1>1, <1>3
  <2> HIDE DEF v
  <2>2. /\ numeral \in Seq(Nat) /\ IsNumeral(numeral) /\ Meaning(numeral) = v
        /\ \A i \in 1..Len(numeral) : numeral[i] # Nul
    BY <2>1, PaddedNumeral
  <2>3. text = <<Minus>> \o numeral
    BY <1>2, <1>3 DEF v
  <2> HIDE DEF numeral
  <2>4. Named("s32", <<Minus>> \o numeral) = {value}
    <3>1. -Meaning(numeral) = value /\ value \in Values("s32")
      BY <1>1, <1>3, <2>1, <2>2
    <3> QED
      BY <2>2, <3>1, NamedNegative
  <2>5. <<Minus>> \in Seq(Nat) /\ Len(<<Minus>>) = 1 /\ <<Minus>>[1] # Nul
    BY DigitChars DEF Minus
  <2>6. /\ <<Minus>> \o numeral \in Seq(Nat)
        /\ Len(<<Minus>> \o numeral) = Len(<<Minus>>) + Len(numeral)
        /\ \A i \in 1..Len(<<Minus>>) + Len(numeral) : (<<Minus>> \o numeral)[i] =
             IF i <= Len(<<Minus>>) THEN <<Minus>>[i] ELSE numeral[i - Len(<<Minus>>)]
    BY <2>2, <2>5, ConcatProperties, Zenon
  <2>7. \A i \in 1..Len(text) : text[i] # Nul
    <3> TAKE i \in 1..Len(text)
    <3>1. i \in 1..1 + Len(numeral) /\ Len(numeral) \in Nat
      BY <2>2, <2>3, <2>5, <2>6
    <3>2. text[i] = IF i <= 1 THEN <<Minus>>[i] ELSE numeral[i - 1]
      BY <2>3, <2>5, <2>6, <3>1
    <3>3. CASE i <= 1
      BY <2>5, <3>1, <3>2, <3>3
    <3>4. CASE ~ (i <= 1)
      <4>1. i - 1 \in 1..Len(numeral)
        BY <3>1, <3>4
      <4> QED
        BY <2>2, <3>2, <3>4, <4>1
    <3> QED
      BY <3>3, <3>4
  <2> QED
    BY <1>1, <1>3, <2>3, <2>4, <2>6, <2>7 DEF text
<1>4. CASE ~ (value < 0)
  <2> DEFINE numeral == Zeros(k) \o Digits(value, Radix)
  <2>1. value \in Nat
    BY <1>1, <1>4
  <2>2. /\ numeral \in Seq(Nat) /\ IsNumeral(numeral) /\ Meaning(numeral) = value
        /\ \A i \in 1..Len(numeral) : numeral[i] # Nul
        /\ numeral[1] # Minus
    BY <2>1, PaddedNumeral
  <2>3. text = numeral
    BY <1>2, <1>4
  <2> HIDE DEF numeral
  <2>4. Named(type, numeral) = {value}
    BY <2>2, NamedNumeral
  <2> QED
    BY <2>2, <2>3, <2>4 DEF text
<1> QED
  BY <1>3, <1>4

-----------------------------------------------------------------------------
(* The caller.                                                             *)

\* The text of a number that was written, until it is read.
WrittenInv ==
  numberStep = "text" /\ ~ reading.given =>
    \E width \in Widths :
      /\ reading.value \in Values(reading.type)
      /\ numberText = Append(NumberWritten(reading.type, reading.value, width), Nul)

NumbersInv ==
  /\ numberText \in Seq(Nat)
  /\ reading.type \in Types /\ reading.given \in BOOLEAN
  /\ WrittenInv
  /\ NumbersSurvive

LEMMA NumbersInitInv == NumbersInit => NumbersInv
BY DEF NumbersInit, NumbersInv, WrittenInv, NumbersSurvive, Types

LEMMA NumbersNextInv ==
  ASSUME NumbersInv, [NumbersNext]_numberVars
  PROVE  NumbersInv'
<1>1. ASSUME NEW type \in Types, NEW width \in Widths, NEW value \in Values(type),
             WriteNumber(type, value, width)
      PROVE  NumbersInv'
  <2> DEFINE text == NumberWritten(type, value, width)
  <2>1. text \in Seq(Nat) /\ Nul \in Nat
    BY WritingIsNaming DEF Nul
  <2>2. /\ numberStep' = "text" /\ numberText' = Append(text, Nul)
        /\ reading' = [type |-> type, given |-> FALSE, value |-> value]
    BY <1>1 DEF WriteNumber
  <2>3. WrittenInv' /\ NumbersSurvive'
    BY <2>2 DEF WrittenInv, NumbersSurvive
  <2> HIDE DEF text
  <2>4. numberText' \in Seq(Nat)
    BY <2>1, <2>2, AppendProperties
  <2> QED
    BY <2>2, <2>3, <2>4 DEF NumbersInv
<1>2. ASSUME NEW type \in Types, NEW chars \in NumberTexts, GiveText(type, chars)
      PROVE  NumbersInv'
  BY <1>2, NumbersAssumption
     DEF GiveText, NumbersAssumption, NumbersInv, WrittenInv, NumbersSurvive
<1>3. ASSUME ReadNumber PROVE NumbersInv'
  <2> DEFINE named == Named(reading.type, Visible(numberText, Len(numberText)))
  <2>1. /\ numberStep = "text" /\ numberStep' = "read" /\ reading' = reading
        /\ numberText' = numberText
        /\ number' = Matoi(reading.type, numberText, Len(numberText), number.value)
    BY <1>3 DEF ReadNumber
  <2>2. numberText \in Seq(Nat) /\ reading.type \in Types /\ reading.given \in BOOLEAN
    BY DEF NumbersInv
  <2>3. /\ number'.ok \in BOOLEAN /\ (number'.ok <=> named # {})
        /\ number'.ok => number'.value \in named
    BY <2>1, <2>2, ReadingIsNaming
  <2>4. ~ reading.given => number'.ok /\ number'.value = reading.value
    <3> SUFFICES ASSUME ~ reading.given PROVE number'.ok /\ number'.value = reading.value
      OBVIOUS
    <3>1. PICK width \in Widths :
            /\ reading.value \in Values(reading.type)
            /\ numberText = Append(NumberWritten(reading.type, reading.value, width), Nul)
      BY <2>1 DEF NumbersInv, WrittenInv
    <3> DEFINE text == NumberWritten(reading.type, reading.value, width)
    <3>2. /\ text \in Seq(Nat) /\ \A i \in 1..Len(text) : text[i] # Nul
          /\ Named(reading.type, text) = {reading.value}
      BY <2>2, <3>1, WritingIsNaming
    <3> HIDE DEF text
    <3>3. Visible(Append(text, Nul), Len(Append(text, Nul))) = text
      BY <3>2, VisibleText
    <3>4. named = {reading.value}
      BY <3>1, <3>2, <3>3 DEF text
    <3> HIDE DEF named
    <3> QED
      BY <2>3, <3>4
  <2>5. NumbersSurvive'
    BY <2>1, <2>3, <2>4 DEF NumbersSurvive
  <2>6. WrittenInv'
    BY <2>1 DEF WrittenInv
  <2> QED
    BY <2>1, <2>2, <2>5, <2>6 DEF NumbersInv
<1>4. CASE UNCHANGED numberVars
  BY <1>4 DEF numberVars, NumbersInv, WrittenInv, NumbersSurvive
<1> QED
  BY <1>1, <1>2, <1>3, <1>4 DEF NumbersNext

\* Whatever the limits, the texts that are given and the widths: a reader
\* takes exactly the numbers of its type, and each number that was written,
\* with its sign and its zeros, is read back (mString.c, mStrToNum.c).
THEOREM NumbersAreExact == NumbersSpec => []NumbersSurvive
<1>1. NumbersInv => NumbersSurvive
  BY DEF NumbersInv
<1> QED
  BY <1>1, NumbersInitInv, NumbersNextInv, PTL DEF NumbersSpec

-----------------------------------------------------------------------------
(* Storing characters behind a text.                                       *)

LEMMA StoredBehind ==
  ASSUME NEW mem \in Seq(Nat), NEW n \in Nat, NEW chars \in Seq(Nat),
         n + Len(chars) <= Len(mem)
  PROVE  /\ Stored(mem, n, chars) \in Seq(Nat)
         /\ Len(Stored(mem, n, chars)) = Len(mem)
         /\ SubSeq(Stored(mem, n, chars), 1, n + Len(chars)) = SubSeq(mem, 1, n) \o chars
         /\ \A i \in 1..Len(mem) :
              Stored(mem, n, chars)[i] = IF i - n \in 1..Len(chars) THEN chars[i - n] ELSE mem[i]
<1> DEFINE new == Stored(mem, n, chars)
           L == Len(mem)
           M == Len(chars)
<1>1. L \in Nat /\ M \in Nat /\ DOMAIN mem = 1..L /\ DOMAIN chars = 1..M /\ n + M <= L
  OBVIOUS
<1>2. /\ DOMAIN new = 1..L /\ new = [i \in 1..L |-> new[i]]
      /\ \A i \in 1..L : new[i] = IF i - n \in 1..M THEN chars[i - n] ELSE mem[i]
  BY <1>1 DEF Stored
<1>3. \A i \in 1..L : new[i] \in Nat
  BY <1>1, <1>2, ElementOfSeq
<1> HIDE DEF new
<1>4. new \in [1..L -> Nat]
  BY <1>2, <1>3
<1>5. new \in Seq(Nat) /\ Len(new) = L
  <2> HIDE DEF L
  <2> QED
    BY <1>1, <1>4, SeqDef
<1>6. SubSeq(new, 1, n + M) = SubSeq(mem, 1, n) \o chars
  <2> DEFINE a == SubSeq(new, 1, n + M)
             b == SubSeq(mem, 1, n)
  <2>1. /\ a \in Seq(Nat) /\ Len(a) = n + M
        /\ \A i \in 1..n + M : a[i] = new[i]
    <3>1. \A i \in 1..n + M : new[i] \in Nat
      BY <1>1, <1>3
    <3>2. /\ a \in Seq(Nat) /\ Len(a) = (IF 1 <= n + M THEN (n + M) - 1 + 1 ELSE 0)
          /\ \A i \in 1..(n + M) - 1 + 1 : a[i] = new[1 + i - 1]
      <4> HIDE DEF M
      <4> QED
        BY <1>1, <3>1, SubSeqProperties
    <3> HIDE DEF a, M
    <3> QED
      BY <1>1, <3>2
  <2>2. /\ b \in Seq(Nat) /\ Len(b) = n
        /\ \A i \in 1..n : b[i] = mem[i]
    <3>1. \A i \in 1..n : mem[i] \in Nat
      BY <1>1
    <3>2. /\ b \in Seq(Nat) /\ Len(b) = (IF 1 <= n THEN n - 1 + 1 ELSE 0)
          /\ \A i \in 1..n - 1 + 1 : b[i] = mem[1 + i - 1]
      BY <3>1, SubSeqProperties
    <3> HIDE DEF b
    <3> QED
      BY <3>2
  <2>3. /\ b \o chars \in Seq(Nat) /\ Len(b \o chars) = n + M
        /\ \A i \in 1..n + M : (b \o chars)[i] = IF i <= n THEN b[i] ELSE chars[i - n]
    <3> HIDE DEF b
    <3> QED
      BY <2>2, ConcatProperties
  <2> HIDE DEF a, b, L, M
  <2>4. \A i \in 1..n + M : a[i] = (b \o chars)[i]
    <3> TAKE i \in 1..n + M
    <3>1. i \in 1..L /\ (i <= n <=> i - n \notin 1..M)
      BY <1>1
    <3>2. CASE i <= n
      <4>1. i \in 1..n
        BY <3>2
      <4> QED
        BY <1>2, <2>1, <2>2, <2>3, <3>1, <3>2, <4>1
    <3>3. CASE ~ (i <= n)
      BY <1>2, <2>1, <2>3, <3>1, <3>3
    <3> QED
      BY <3>2, <3>3
  <2>5. a = b \o chars
    BY <2>1, <2>3, <2>4, SeqEqual
  <2> QED
    BY <2>5 DEF a, b
<1> QED
  BY <1>1, <1>2, <1>5, <1>6 DEF new

-----------------------------------------------------------------------------
(* The line that an assertion reports.                                     *)

BeforeComma(site)    == Bug \o AppendMsg(site.file, MaxFilename)
BeforeFunction(site) == BeforeComma(site) \o Comma
BeforeParens(site)   == BeforeFunction(site) \o AppendMsg(site.function, MaxFunction)
BeforeLine(site)     == BeforeParens(site) \o Parens
BeforeNewline(site)  == BeforeLine(site) \o Digits(site.line, Radix)
BeforeNul(site)      == BeforeNewline(site) \o Newline
WholeLine(site)      == BeforeNul(site) \o <<Nul>>

\* What the buffer holds before each step of the context that writes it.
SoFar(step, site) ==
  CASE step = "file" -> Bug
    [] step = "comma" -> BeforeComma(site)
    [] step = "function" -> BeforeFunction(site)
    [] step = "parens" -> BeforeParens(site)
    [] step = "line" -> BeforeLine(site)
    [] step = "newline" -> BeforeNewline(site)
    [] step = "nul" -> BeforeNul(site)
    [] OTHER -> WholeLine(site)

Adding  == {"file", "comma", "function", "parens", "line", "newline", "nul", "length"}
Told    == {"publish", "leave"}
Writing == Adding \union Told
Waiting == {"check", "enter"}

\* The pieces, and that the line is not longer than the buffer.
LEMMA AppendMsgIs ==
  ASSUME NEW src \in Seq(Nat), NEW len \in Nat
  PROVE  /\ AppendMsg(src, len) \in Seq(Nat)
         /\ Len(AppendMsg(src, len)) <= len
         /\ Len(src) <= len => AppendMsg(src, len) = src
<1> DEFINE n == IF Len(src) < len THEN Len(src) ELSE len
<1>1. n \in Nat /\ n <= Len(src) /\ n <= len /\ \A i \in 1..n : src[i] \in Nat
  BY ElementOfSeq
<1>2. AppendMsg(src, len) = SubSeq(src, 1, n)
  BY DEF AppendMsg
<1>3. SubSeq(src, 1, n) \in Seq(Nat) /\ Len(SubSeq(src, 1, n)) = IF 1 <= n THEN n - 1 + 1 ELSE 0
  <2> HIDE DEF n
  <2> QED
    BY <1>1, SubSeqProperties
<1>4. Len(src) <= len => n = Len(src)
  OBVIOUS
<1> HIDE DEF n
<1>5. Len(src) <= len => AppendMsg(src, len) = src
  BY <1>2, <1>4, SubSeqFull
<1> QED
  BY <1>1, <1>2, <1>3, <1>5

LEMMA LineFits ==
  ASSUME NEW site \in Sites
  PROVE  /\ Itoa(site.line, MaxLinenum) = Digits(site.line, Radix)
         /\ AppendMsg(Digits(site.line, Radix), MaxLinenum) = Digits(site.line, Radix)
         /\ Digits(site.line, Radix) \in Seq(Nat)
         /\ Len(Digits(site.line, Radix)) <= MaxLinenum
<1>1. /\ site.line \in 0..S32Max /\ site.line \in Nat /\ MaxLinenum \in Nat
      /\ MaxLinenum > S32Chars /\ S32Chars \in Nat /\ Radix \in 2..16 /\ S32Max \in Nat
  BY TinyAssumption, Limits DEF TinyAssumption
<1>2. Itoa(site.line, MaxLinenum) = Digits(site.line, Radix)
  BY <1>1 DEF Itoa
<1>3. Digits(site.line, Radix) \in Seq(Nat) /\ Digits(S32Max + 1, Radix) \in Seq(Nat)
  <2>1. S32Max + 1 \in Nat
    BY <1>1
  <2> QED
    BY <1>1, <2>1, DigitsMeaning, Zenon
<1>4. Len(Digits(site.line, Radix)) <= Len(Digits(S32Max + 1, Radix))
  <2>1. S32Max + 1 \in Nat /\ site.line \in 0..S32Max + 1
    BY <1>1
  <2> QED
    BY <1>1, <2>1, LongerDigits, Zenon
<1>5. Len(Digits(site.line, Radix)) <= MaxLinenum
  <2>1. S32Chars = Len(Digits(S32Max + 1, Radix)) + 2
    BY DEF S32Chars
  <2> QED
    BY <1>1, <1>3, <1>4, <2>1
<1> QED
  BY <1>1, <1>2, <1>3, <1>5, AppendMsgIs

LEMMA JoinedLength ==
  ASSUME NEW a \in Seq(Nat), NEW b \in Seq(Nat), NEW c, c = a \o b
  PROVE  c \in Seq(Nat) /\ Len(c) = Len(a) + Len(b)
  BY ConcatProperties

LEMMA LineLengths ==
  ASSUME NEW site \in Sites
  PROVE  /\ \A step \in Writing : /\ SoFar(step, site) \in Seq(Nat)
                                  /\ Len(SoFar(step, site)) <= BufferLength
                                  /\ 4 <= Len(SoFar(step, site))
         /\ AppendMsg(site.file, MaxFilename) \in Seq(Nat)
         /\ AppendMsg(site.function, MaxFunction) \in Seq(Nat)
         /\ BufferLength \in Nat /\ 4 <= BufferLength
<1> DEFINE file == AppendMsg(site.file, MaxFilename)
           function == AppendMsg(site.function, MaxFunction)
           line == Digits(site.line, Radix)
<1>1. /\ MaxFilename \in Nat /\ MaxFunction \in Nat /\ MaxLinenum \in Nat
      /\ site.file \in Seq(Nat) /\ site.function \in Seq(Nat)
  BY TinyAssumption DEF TinyAssumption
<1>2. /\ file \in Seq(Nat) /\ Len(file) <= MaxFilename
      /\ function \in Seq(Nat) /\ Len(function) <= MaxFunction
      /\ line \in Seq(Nat) /\ Len(line) <= MaxLinenum
  BY <1>1, AppendMsgIs, LineFits
<1>3. /\ Bug \in Seq(Nat) /\ Len(Bug) = 4 /\ Comma \in Seq(Nat) /\ Len(Comma) = 1
      /\ Parens \in Seq(Nat) /\ Len(Parens) = 3 /\ Newline \in Seq(Nat) /\ Len(Newline) = 1
      /\ <<Nul>> \in Seq(Nat) /\ Len(<<Nul>>) = 1
  BY DEF Bug, Comma, Parens, Newline, Nul
<1>4. BufferLength = 4 + MaxFilename + MaxFunction + MaxLinenum + 6
  BY <1>3 DEF BufferLength
<1> HIDE DEF file, function, line
<1>12. /\ Len(file) \in Nat /\ Len(function) \in Nat /\ Len(line) \in Nat
       /\ Len(Bug) \in Nat /\ Len(Comma) \in Nat /\ Len(Parens) \in Nat
  BY <1>2, <1>3
<1>5. BeforeComma(site) \in Seq(Nat) /\ Len(BeforeComma(site)) = 4 + Len(file)
  <2>1. BeforeComma(site) = Bug \o file
    BY DEF BeforeComma, file
  <2>2. BeforeComma(site) \in Seq(Nat) /\ Len(BeforeComma(site)) = Len(Bug) + Len(file)
    <3>1. file \in Seq(Nat)
      BY <1>2
    <3>2. Bug \in Seq(Nat)
      BY <1>3
    <3> QED
      BY <2>1, <3>1, <3>2, JoinedLength, Zenon
  <2> QED
    BY <1>3, <1>12, <2>2
<1>6. BeforeFunction(site) \in Seq(Nat) /\ Len(BeforeFunction(site)) = 5 + Len(file)
  <2>1. BeforeFunction(site) = BeforeComma(site) \o Comma
    BY DEF BeforeFunction
  <2>2. BeforeFunction(site) \in Seq(Nat) /\ Len(BeforeFunction(site)) = Len(BeforeComma(site)) + Len(Comma)
    BY <1>2, <1>3, <1>5, <2>1, JoinedLength, Zenon
  <2> QED
    BY <1>3, <1>12, <1>5, <2>2
<1>7. BeforeParens(site) \in Seq(Nat) /\ Len(BeforeParens(site)) = 5 + Len(file) + Len(function)
  <2>1. BeforeParens(site) = BeforeFunction(site) \o function
    BY DEF BeforeParens, function
  <2>2. BeforeParens(site) \in Seq(Nat) /\ Len(BeforeParens(site)) = Len(BeforeFunction(site)) + Len(function)
    BY <1>2, <1>3, <1>6, <2>1, JoinedLength, Zenon
  <2> QED
    BY <1>3, <1>12, <1>6, <2>2
<1>8. BeforeLine(site) \in Seq(Nat) /\ Len(BeforeLine(site)) = 8 + Len(file) + Len(function)
  <2>1. BeforeLine(site) = BeforeParens(site) \o Parens
    BY DEF BeforeLine
  <2>2. BeforeLine(site) \in Seq(Nat) /\ Len(BeforeLine(site)) = Len(BeforeParens(site)) + Len(Parens)
    BY <1>2, <1>3, <1>7, <2>1, JoinedLength, Zenon
  <2> QED
    BY <1>3, <1>12, <1>7, <2>2
<1>9. BeforeNewline(site) \in Seq(Nat) /\ Len(BeforeNewline(site)) = 8 + Len(file) + Len(function) + Len(line)
  <2>1. BeforeNewline(site) = BeforeLine(site) \o line
    BY DEF BeforeNewline, line
  <2>2. BeforeNewline(site) \in Seq(Nat) /\ Len(BeforeNewline(site)) = Len(BeforeLine(site)) + Len(line)
    BY <1>2, <1>3, <1>8, <2>1, JoinedLength, Zenon
  <2> QED
    BY <1>3, <1>12, <1>8, <2>2
<1>10. BeforeNul(site) \in Seq(Nat) /\ Len(BeforeNul(site)) = 9 + Len(file) + Len(function) + Len(line)
  <2>1. BeforeNul(site) = BeforeNewline(site) \o Newline
    BY DEF BeforeNul
  <2>2. BeforeNul(site) \in Seq(Nat) /\ Len(BeforeNul(site)) = Len(BeforeNewline(site)) + Len(Newline)
    BY <1>2, <1>3, <1>9, <2>1, JoinedLength, Zenon
  <2> QED
    BY <1>3, <1>12, <1>9, <2>2
<1>11. WholeLine(site) \in Seq(Nat) /\ Len(WholeLine(site)) = 10 + Len(file) + Len(function) + Len(line)
  <2>1. WholeLine(site) = BeforeNul(site) \o <<Nul>>
    BY DEF WholeLine
  <2>2. WholeLine(site) \in Seq(Nat) /\ Len(WholeLine(site)) = Len(BeforeNul(site)) + Len(<<Nul>>)
    BY <1>2, <1>3, <1>10, <2>1, JoinedLength, Zenon
  <2> QED
    BY <1>3, <1>12, <1>10, <2>2
<1>13. \A step \in Writing : SoFar(step, site) \in
         {Bug, BeforeComma(site), BeforeFunction(site), BeforeParens(site), BeforeLine(site),
          BeforeNewline(site), BeforeNul(site), WholeLine(site)}
  BY DEF SoFar
<1>14. \A text \in {Bug, BeforeComma(site), BeforeFunction(site), BeforeParens(site),
                    BeforeLine(site), BeforeNewline(site), BeforeNul(site), WholeLine(site)} :
         text \in Seq(Nat) /\ Len(text) <= BufferLength /\ 4 <= Len(text)
  <2>1. /\ 10 + Len(file) + Len(function) + Len(line) <= BufferLength
        /\ BufferLength \in Nat
    BY <1>1, <1>2, <1>4, <1>12
  <2>2. BeforeComma(site) \in Seq(Nat) /\ Len(BeforeComma(site)) <= BufferLength
        /\ 4 <= Len(BeforeComma(site))
    BY <1>5, <1>12, <2>1
  <2>3. BeforeFunction(site) \in Seq(Nat) /\ Len(BeforeFunction(site)) <= BufferLength
        /\ 4 <= Len(BeforeFunction(site))
    BY <1>6, <1>12, <2>1
  <2>4. BeforeParens(site) \in Seq(Nat) /\ Len(BeforeParens(site)) <= BufferLength
        /\ 4 <= Len(BeforeParens(site))
    BY <1>7, <1>12, <2>1
  <2>5. BeforeLine(site) \in Seq(Nat) /\ Len(BeforeLine(site)) <= BufferLength
        /\ 4 <= Len(BeforeLine(site))
    BY <1>8, <1>12, <2>1
  <2>6. BeforeNewline(site) \in Seq(Nat) /\ Len(BeforeNewline(site)) <= BufferLength
        /\ 4 <= Len(BeforeNewline(site))
    BY <1>9, <1>12, <2>1
  <2>7. BeforeNul(site) \in Seq(Nat) /\ Len(BeforeNul(site)) <= BufferLength
        /\ 4 <= Len(BeforeNul(site))
    BY <1>10, <1>12, <2>1
  <2>8. WholeLine(site) \in Seq(Nat) /\ Len(WholeLine(site)) <= BufferLength
        /\ 4 <= Len(WholeLine(site))
    BY <1>11, <1>12, <2>1
  <2>9. Bug \in Seq(Nat) /\ Len(Bug) <= BufferLength
        /\ 4 <= Len(Bug)
    BY <1>3, <1>12, <2>1
  <2> QED
    BY <2>2, <2>3, <2>4, <2>5, <2>6, <2>7, <2>8, <2>9
<1>15. BufferLength \in Nat /\ 4 <= BufferLength
  BY <1>1, <1>3, <1>4
<1> QED
  BY <1>2, <1>13, <1>14, <1>15 DEF file, function

-----------------------------------------------------------------------------
(* The contexts in the handler.                                            *)

Contexts == [step : Waiting \union Writing, site : Sites, ix : Nat]

\* Of the contexts in the handler, one at most writes; those above it have yet
\* to find have_entered_already set, those below it were kept from going on.
StackInv ==
  /\ handling \in Seq(Contexts) /\ have_entered_already \in BOOLEAN
  /\ \A j \in DOMAIN handling :
       handling[j].step \in Writing =>
         /\ have_entered_already = TRUE
         /\ \A k \in 1..j - 1 : handling[k].step = "check"
         /\ \A k \in DOMAIN handling : k > j => handling[k].step \in Waiting

\* What a writing context has put into the message is still there.
Wrote(context, msg, len) ==
  context.step \in Writing =>
    /\ context.ix = Len(SoFar(context.step, context.site))
    /\ SubSeq(msg, 1, context.ix) = SoFar(context.step, context.site)
    /\ context.step \in Told => len = context.ix

MessageInv ==
  /\ f_assert_msg \in Seq(Nat) /\ Len(f_assert_msg) = BufferLength
  /\ \A i \in 1..4 : f_assert_msg[i] = Bug[i]
  /\ \A j \in DOMAIN handling : Wrote(handling[j], f_assert_msg, f_msg_len)

ReportInv ==
  report # NoReport =>
    /\ report.length <= BufferLength
    /\ SubSeq(report.text, 1, report.length) = WholeLine(report.site)

TinyInv == StackInv /\ MessageInv /\ ReportInv

\* The whole line is the one the documentation gives.
LEMMA ReportIsExact ==
  ASSUME ReportInv
  PROVE  TinyMessageExact
  BY DEF ReportInv, TinyMessageExact, WholeLine, BeforeNul, BeforeNewline, BeforeLine,
         BeforeParens, BeforeFunction, BeforeComma

\* The running context goes on; the others do not move.
LEMMA GoOnEffect ==
  ASSUME handling \in Seq(Contexts), NEW from, NEW to \in Waiting \union Writing,
         NEW ix \in Nat, GoOn(from, to, ix)
  PROVE  /\ 1 \in DOMAIN handling /\ handling[1] = Running /\ handling[1].step = from
         /\ handling[1] \in Contexts
         /\ handling' \in Seq(Contexts) /\ DOMAIN handling' = DOMAIN handling
         /\ handling'[1] = [step |-> to, site |-> handling[1].site, ix |-> ix]
         /\ \A k \in DOMAIN handling : k # 1 => handling'[k] = handling[k]
<1>1. handling # <<>> /\ Running.step = from
  BY DEF GoOn
<1>2. 1 \in 1..Len(handling) /\ DOMAIN handling = 1..Len(handling) /\ handling[1] = Running
  BY <1>1 DEF Running
<1>3. handling[1] \in Contexts
  BY <1>2, ElementOfSeq
<1> DEFINE new == [step |-> to, site |-> handling[1].site, ix |-> ix]
<1>4. new \in Contexts /\ [[handling[1] EXCEPT !.step = to] EXCEPT !.ix = ix] = new
  <2>1. PICK s \in Waiting \union Writing, x \in Sites, i \in Nat :
          handling[1] = [step |-> s, site |-> x, ix |-> i]
    <3>1. /\ handling[1] = [step |-> handling[1].step, site |-> handling[1].site,
                            ix |-> handling[1].ix]
          /\ handling[1].step \in Waiting \union Writing
          /\ handling[1].site \in Sites /\ handling[1].ix \in Nat
      BY <1>3 DEF Contexts
    <3> QED
      BY <3>1
  <2>2. [[handling[1] EXCEPT !.step = to] EXCEPT !.ix = ix] = [step |-> to, site |-> x, ix |-> ix]
    <3>1. [[[step |-> s, site |-> x, ix |-> i] EXCEPT !.step = to] EXCEPT !.ix = ix]
            = [step |-> to, site |-> x, ix |-> ix]
      <4>1. [[step |-> s, site |-> x, ix |-> i] EXCEPT !.step = to]
              = [step |-> to, site |-> x, ix |-> i]
        OBVIOUS
      <4>2. [[step |-> to, site |-> x, ix |-> i] EXCEPT !.ix = ix]
              = [step |-> to, site |-> x, ix |-> ix]
        OBVIOUS
      <4> QED
        BY <4>1, <4>2, Zenon
    <3> QED
      BY <2>1, <3>1, Zenon
  <2>3. new = [step |-> to, site |-> x, ix |-> ix]
    BY <2>1
  <2>4. new \in Contexts
    BY <2>3 DEF Contexts
  <2> QED
    BY <2>2, <2>3, <2>4
<1>5. handling' = [handling EXCEPT ![1] = new]
  <2>1. handling' = [handling EXCEPT ![1].step = to, ![1].ix = ix]
    BY DEF GoOn
  <2>2. [handling EXCEPT ![1].step = to, ![1].ix = ix]
          = [handling EXCEPT ![1] = [[handling[1] EXCEPT !.step = to] EXCEPT !.ix = ix]]
    BY <1>2
  <2> QED
    BY <1>4, <2>1, <2>2
<1> HIDE DEF new
<1>6. /\ handling' \in Seq(Contexts) /\ DOMAIN handling' = DOMAIN handling
      /\ handling'[1] = new
      /\ \A k \in DOMAIN handling : k # 1 => handling'[k] = handling[k]
  BY <1>2, <1>4, <1>5, ExceptSeq
<1> QED
  BY <1>1, <1>2, <1>3, <1>6 DEF new

\* A writing context goes on.
LEMMA WriterGoesOn ==
  ASSUME StackInv, NEW from \in Writing, NEW to \in Writing, NEW ix \in Nat,
         GoOn(from, to, ix), UNCHANGED have_entered_already
  PROVE  /\ StackInv'
         /\ \A k \in DOMAIN handling : k # 1 => handling[k].step \in Waiting
<1>1. handling \in Seq(Contexts)
  BY DEF StackInv
<1>2. /\ 1 \in DOMAIN handling /\ handling[1].step = from
      /\ handling' \in Seq(Contexts) /\ DOMAIN handling' = DOMAIN handling
      /\ handling'[1].step = to
      /\ \A k \in DOMAIN handling : k # 1 => handling'[k] = handling[k]
  <2>1. to \in Waiting \union Writing
    OBVIOUS
  <2>2. /\ 1 \in DOMAIN handling /\ handling[1].step = from
        /\ handling' \in Seq(Contexts) /\ DOMAIN handling' = DOMAIN handling
        /\ handling'[1] = [step |-> to, site |-> handling[1].site, ix |-> ix]
        /\ \A k \in DOMAIN handling : k # 1 => handling'[k] = handling[k]
    BY <1>1, <2>1, GoOnEffect, Zenon
  <2> QED
    BY <2>2
<1>3. DOMAIN handling = 1..Len(handling)
  BY <1>1
<1>4. have_entered_already = TRUE /\ \A k \in DOMAIN handling : k # 1 => handling[k].step \in Waiting
  BY <1>2, <1>3 DEF StackInv
<1>5. Waiting \intersect Writing = {}
  BY DEF Waiting, Writing, Adding, Told
<1>6. ASSUME NEW j \in DOMAIN handling', handling'[j].step \in Writing
      PROVE  j = 1
  BY <1>2, <1>4, <1>5, <1>6
<1>7. StackInv'
  BY <1>2, <1>3, <1>4, <1>6 DEF StackInv
<1> QED
  BY <1>4, <1>7

\* A piece of the line is added.
LEMMA AddKeepsInv ==
  ASSUME TinyInv, NEW from \in Adding, NEW to \in Adding, NEW chars \in Seq(Nat),
         handling # <<>>, Add(from, to, chars),
         SoFar(to, Running.site) = SoFar(from, Running.site) \o chars
  PROVE  TinyInv'
<1> DEFINE n == Running.ix
           site == Running.site
<1>1. handling \in Seq(Contexts) /\ StackInv
  BY DEF TinyInv, StackInv
<1>2. Running = handling[1] /\ Running \in Contexts
  BY <1>1 DEF Running
<1>3. n \in Nat /\ site \in Sites /\ n + Len(chars) \in Nat
  BY <1>2 DEF Contexts
<1>4. from \in Writing /\ to \in Writing /\ to \notin Told
  BY DEF Writing, Adding, Told
<1>5. GoOn(from, to, n + Len(chars)) /\ f_assert_msg' = Stored(f_assert_msg, n, chars)
  BY DEF Add
<1>6. UNCHANGED <<f_msg_len, have_entered_already, report>>
  BY DEF Add
<1>7. /\ 1 \in DOMAIN handling /\ Running.step = from
      /\ DOMAIN handling' = DOMAIN handling
      /\ handling'[1] = [step |-> to, site |-> site, ix |-> n + Len(chars)]
      /\ \A k \in DOMAIN handling : k # 1 => handling'[k] = handling[k]
  BY <1>1, <1>2, <1>3, <1>4, <1>5, GoOnEffect, SMTT(60)
<1>8. StackInv' /\ \A k \in DOMAIN handling : k # 1 => handling[k].step \in Waiting
  BY <1>1, <1>3, <1>4, <1>5, <1>6, WriterGoesOn
<1>9. Wrote(Running, f_assert_msg, f_msg_len)
  BY <1>2, <1>7 DEF TinyInv, MessageInv
<1>10. n = Len(SoFar(from, site)) /\ SubSeq(f_assert_msg, 1, n) = SoFar(from, site)
  BY <1>4, <1>7, <1>9 DEF Wrote
<1>11. /\ SoFar(from, site) \in Seq(Nat) /\ SoFar(to, site) \in Seq(Nat)
       /\ Len(SoFar(to, site)) <= BufferLength /\ Len(Bug) \in Nat
  BY <1>3, <1>4, LineLengths DEF Bug
<1> HIDE DEF n, site
<1>12. Len(SoFar(to, site)) = n + Len(chars)
  <2>1. SoFar(to, site) = SoFar(from, site) \o chars
    BY DEF site
  <2> QED
    BY <1>10, <1>11, <2>1, JoinedLength, Zenon
<1>13. /\ f_assert_msg \in Seq(Nat) /\ Len(f_assert_msg) = BufferLength
       /\ n + Len(chars) <= Len(f_assert_msg)
  BY <1>11, <1>12 DEF TinyInv, MessageInv
<1>14. /\ f_assert_msg' \in Seq(Nat) /\ Len(f_assert_msg') = BufferLength
       /\ SubSeq(f_assert_msg', 1, n + Len(chars)) = SubSeq(f_assert_msg, 1, n) \o chars
       /\ \A i \in 1..Len(f_assert_msg) :
            f_assert_msg'[i] = IF i - n \in 1..Len(chars) THEN chars[i - n] ELSE f_assert_msg[i]
  <2>1. LET new == Stored(f_assert_msg, n, chars)
        IN  /\ new \in Seq(Nat) /\ Len(new) = Len(f_assert_msg)
            /\ SubSeq(new, 1, n + Len(chars)) = SubSeq(f_assert_msg, 1, n) \o chars
            /\ \A i \in 1..Len(f_assert_msg) :
                 new[i] = IF i - n \in 1..Len(chars) THEN chars[i - n] ELSE f_assert_msg[i]
    BY <1>3, <1>13, StoredBehind, Zenon
  <2>2. f_assert_msg' = Stored(f_assert_msg, n, chars)
    BY <1>5 DEF n
  <2> QED
    BY <1>13, <2>1, <2>2, Zenon
<1>15. SubSeq(f_assert_msg', 1, n + Len(chars)) = SoFar(to, site)
  BY <1>10, <1>14 DEF site
<1>16. \A i \in 1..4 : f_assert_msg'[i] = Bug[i]
  <2> TAKE i \in 1..4
  <2>1. 4 <= n /\ 4 <= BufferLength
    BY <1>3, <1>4, <1>10, LineLengths DEF site
  <2>2. i \in 1..Len(f_assert_msg) /\ i - n \notin 1..Len(chars) /\ f_assert_msg[i] = Bug[i]
    BY <1>3, <1>13, <2>1 DEF TinyInv, MessageInv
  <2> QED
    BY <1>14, <2>2
<1>17. ASSUME NEW k \in DOMAIN handling' PROVE Wrote(handling'[k], f_assert_msg', f_msg_len')
  <2>1. CASE k = 1
    BY <1>4, <1>7, <1>12, <1>15, <2>1 DEF Wrote
  <2>2. CASE k # 1
    BY <1>7, <1>8, <2>2 DEF Wrote, Waiting, Writing, Adding, Told
  <2> QED
    BY <2>1, <2>2
<1> QED
  BY <1>6, <1>8, <1>14, <1>16, <1>17 DEF TinyInv, MessageInv, ReportInv

\* No context writes.
NobodyWrites == \A j \in DOMAIN handling : handling[j].step \in Waiting

LEMMA StepsApart ==
  /\ Waiting \intersect Writing = {} /\ Adding \subseteq Writing /\ Told \subseteq Writing
  /\ Adding \intersect Told = {}
  BY DEF Waiting, Writing, Adding, Told

LEMMA HandlingType ==
  ASSUME StackInv
  PROVE  /\ Len(handling) \in Nat /\ DOMAIN handling = 1..Len(handling)
         /\ handling # <<>> => 1 \in DOMAIN handling /\ Running = handling[1]
         /\ \A j \in DOMAIN handling : /\ handling[j].step \in Waiting \union Writing
                                     /\ handling[j].site \in Sites
                                     /\ handling[j].ix \in Nat
<1>1. handling \in Seq(Contexts)
  BY DEF StackInv
<1>2. \A j \in DOMAIN handling : handling[j] \in Contexts
  BY <1>1, ElementOfSeq
<1>3. \A c \in Contexts : /\ c.step \in Waiting \union Writing
                          /\ c.site \in Sites /\ c.ix \in Nat
  BY DEF Contexts
<1> QED
  BY <1>1, <1>2, <1>3 DEF Running

\* Whoever is in front of a set flag writes alone.
LEMMA NoWriterBelow ==
  ASSUME StackInv, handling # <<>>,
         Running.step = "enter" \/ (Running.step = "check" /\ ~have_entered_already)
  PROVE  NobodyWrites
<1>1. /\ DOMAIN handling = 1..Len(handling) /\ 1 \in DOMAIN handling
      /\ Running = handling[1]
      /\ \A j \in DOMAIN handling : handling[j].step \in Waiting \union Writing
  BY HandlingType
<1>2. ASSUME NEW j \in DOMAIN handling, handling[j].step \in Writing PROVE FALSE
  <2>1. have_entered_already = TRUE /\ \A k \in 1..j - 1 : handling[k].step = "check"
    BY <1>2 DEF StackInv
  <2>2. handling[1].step = "enter" /\ 1 \notin 1..j - 1
    BY <1>1, <2>1
  <2>3. j = 1
    BY <1>1, <2>2
  <2> QED
    BY <1>2, <2>2, <2>3 DEF Writing, Adding, Told
<1> QED
  BY <1>1, <1>2 DEF NobodyWrites

LEMMA FailsKeepsInv ==
  ASSUME TinyInv, NEW site \in Sites, Fails(site)
  PROVE  TinyInv'
<1> DEFINE new == [step |-> "check", site |-> site, ix |-> 0]
           L == Len(handling)
<1>1. /\ handling' = <<new>> \o handling
      /\ UNCHANGED <<f_assert_msg, f_msg_len, have_entered_already, report>>
  BY DEF Fails
<1>2. /\ handling \in Seq(Contexts) /\ have_entered_already \in BOOLEAN
      /\ L \in Nat /\ DOMAIN handling = 1..L
  BY HandlingType DEF TinyInv, StackInv
<1>3. new \in Contexts /\ new.step = "check"
  BY DEF Contexts, Waiting
<1> HIDE DEF new
<1>4. <<new>> \in Seq(Contexts) /\ Len(<<new>>) = 1 /\ <<new>>[1] = new
  BY <1>3
<1>5. /\ handling' \in Seq(Contexts) /\ Len(handling') = 1 + L
      /\ \A i \in 1..1 + L : handling'[i] = IF i <= 1 THEN <<new>>[i] ELSE handling[i - 1]
  BY <1>1, <1>2, <1>4, ConcatProperties
<1>6. /\ DOMAIN handling' = 1..L + 1 /\ handling'[1] = new
      /\ \A i \in 2..L + 1 : i - 1 \in DOMAIN handling /\ handling'[i] = handling[i - 1]
  BY <1>2, <1>4, <1>5
<1>7. ASSUME NEW j \in 1..L + 1, handling'[j].step \in Writing
      PROVE  /\ j \in 2..L + 1 /\ have_entered_already = TRUE
             /\ \A k \in 1..j - 1 : handling'[k].step = "check"
             /\ \A k \in 1..L + 1 : k > j => handling'[k].step \in Waiting
  <2>1. j \in 2..L + 1
    <3>1. j # 1
      BY <1>3, <1>6, <1>7 DEF Writing, Adding, Told
    <3> QED
      BY <1>2, <3>1
  <2>2. /\ j - 1 \in DOMAIN handling /\ handling[j - 1].step \in Writing
    BY <1>6, <1>7, <2>1
  <2>3. /\ have_entered_already = TRUE
        /\ \A k \in 1..(j - 1) - 1 : handling[k].step = "check"
        /\ \A k \in DOMAIN handling : k > j - 1 => handling[k].step \in Waiting
    BY <2>2 DEF TinyInv, StackInv
  <2>4. ASSUME NEW k \in 1..j - 1 PROVE handling'[k].step = "check"
    <3>1. CASE k = 1
      BY <1>3, <1>6, <3>1
    <3>2. CASE k # 1
      <4>1. k - 1 \in 1..(j - 1) - 1 /\ k \in 2..L + 1
        BY <1>2, <2>1, <3>2
      <4> QED
        BY <1>6, <2>3, <4>1
    <3> QED
      BY <3>1, <3>2
  <2>5. ASSUME NEW k \in 1..L + 1, k > j PROVE handling'[k].step \in Waiting
    <3>1. k \in 2..L + 1 /\ k - 1 \in DOMAIN handling /\ k - 1 > j - 1
      BY <1>2, <2>1, <2>5
    <3> QED
      BY <1>6, <2>3, <3>1
  <2> QED
    BY <2>1, <2>3, <2>4, <2>5
<1>8. StackInv'
  BY <1>1, <1>2, <1>5, <1>6, <1>7 DEF StackInv
<1>9. ASSUME NEW j \in 1..L + 1 PROVE Wrote(handling'[j], f_assert_msg, f_msg_len)
  <2>1. CASE j \in 2..L + 1
    BY <1>6, <2>1 DEF TinyInv, MessageInv
  <2>2. CASE j = 1
    BY <1>3, <1>6, <2>2 DEF Wrote, Writing, Adding, Told
  <2> QED
    BY <1>2, <2>1, <2>2
<1> QED
  BY <1>1, <1>6, <1>8, <1>9 DEF TinyInv, MessageInv, ReportInv

\* The running context leaves the handler, or was never let in.
LEMMA PopKeepsInv ==
  ASSUME TinyInv, handling # <<>>, handling' = Tail(handling),
         UNCHANGED <<f_assert_msg, f_msg_len, report>>,
         \/ UNCHANGED have_entered_already
         \/ have_entered_already' = FALSE /\ Running.step \in Writing
  PROVE  TinyInv'
<1> DEFINE L == Len(handling)
<1>1. /\ handling \in Seq(Contexts) /\ L \in Nat \ {0} /\ DOMAIN handling = 1..L
      /\ Running = handling[1] /\ have_entered_already \in BOOLEAN
  <2>1. handling \in Seq(Contexts) /\ have_entered_already \in BOOLEAN
    BY DEF TinyInv, StackInv
  <2> QED
    BY <2>1, HandlingType, EmptySeq DEF TinyInv
<1>2. /\ handling' \in Seq(Contexts) /\ Len(handling') = L - 1
      /\ \A i \in 1..L - 1 : handling'[i] = handling[i + 1]
  BY <1>1, HeadTailProperties
<1>3. DOMAIN handling' = 1..L - 1 /\ \A i \in 1..L - 1 : i + 1 \in DOMAIN handling
  BY <1>1, <1>2
<1>4. have_entered_already' \in BOOLEAN
  BY <1>1
<1>5. ASSUME NEW j \in 1..L - 1, handling'[j].step \in Writing
      PROVE  /\ have_entered_already' = TRUE
             /\ \A k \in 1..j - 1 : handling'[k].step = "check"
             /\ \A k \in 1..L - 1 : k > j => handling'[k].step \in Waiting
  <2>1. j + 1 \in DOMAIN handling /\ handling[j + 1].step \in Writing
    BY <1>2, <1>3, <1>5
  <2>2. /\ have_entered_already = TRUE
        /\ \A k \in 1..(j + 1) - 1 : handling[k].step = "check"
        /\ \A k \in DOMAIN handling : k > j + 1 => handling[k].step \in Waiting
    BY <2>1 DEF TinyInv, StackInv
  <2>3. Running.step = "check"
    <3>1. 1 \in 1..(j + 1) - 1
      OBVIOUS
    <3> QED
      BY <1>1, <2>2, <3>1
  <2>4. have_entered_already' = TRUE
    BY <2>2, <2>3 DEF Writing, Adding, Told
  <2>5. ASSUME NEW k \in 1..j - 1 PROVE handling'[k].step = "check"
    <3>1. k \in 1..L - 1 /\ k + 1 \in 1..(j + 1) - 1
      BY <1>1
    <3> QED
      BY <1>2, <2>2, <3>1
  <2>6. ASSUME NEW k \in 1..L - 1, k > j PROVE handling'[k].step \in Waiting
    <3>1. k + 1 \in DOMAIN handling /\ k + 1 > j + 1
      BY <1>3, <2>6
    <3> QED
      BY <1>2, <2>2, <3>1
  <2> QED
    BY <2>4, <2>5, <2>6
<1>6. StackInv'
  BY <1>2, <1>3, <1>4, <1>5 DEF StackInv
<1>7. ASSUME NEW j \in 1..L - 1 PROVE Wrote(handling'[j], f_assert_msg, f_msg_len)
  BY <1>2, <1>3 DEF TinyInv, MessageInv
<1> QED
  BY <1>3, <1>6, <1>7 DEF TinyInv, MessageInv, ReportInv

LEMMA CheckKeepsInv ==
  ASSUME TinyInv, Check
  PROVE  TinyInv'
<1>1. /\ handling # <<>> /\ Running.step = "check"
      /\ UNCHANGED <<f_assert_msg, f_msg_len, have_entered_already, report>>
      /\ handling' = IF have_entered_already THEN Tail(handling)
                     ELSE [handling EXCEPT ![1].step = "enter"]
  BY DEF Check
<1>2. CASE have_entered_already
  BY <1>1, <1>2, PopKeepsInv
<1>3. CASE ~have_entered_already
  <2>1. NobodyWrites
    BY <1>1, <1>3, NoWriterBelow DEF TinyInv
  <2>2. /\ 1 \in DOMAIN handling /\ Running = handling[1] /\ handling \in Seq(Contexts)
        /\ handling[1] \in Contexts /\ DOMAIN handling = 1..Len(handling)
    <3>1. handling \in Seq(Contexts) /\ 1 \in DOMAIN handling /\ DOMAIN handling = 1..Len(handling)
      BY <1>1, HandlingType DEF TinyInv, StackInv
    <3> QED
      BY <1>1, <3>1, HandlingType, ElementOfSeq DEF TinyInv
  <2> DEFINE new == [handling[1] EXCEPT !.step = "enter"]
  <2>3. new \in Contexts /\ new.step = "enter"
    BY <2>2 DEF Contexts, Waiting
  <2>4. handling' = [handling EXCEPT ![1] = new]
    BY <1>1, <1>3, <2>2
  <2> HIDE DEF new
  <2>5. /\ handling' \in Seq(Contexts) /\ DOMAIN handling' = DOMAIN handling
        /\ handling'[1] = new
        /\ \A k \in DOMAIN handling : k # 1 => handling'[k] = handling[k]
    BY <2>2, <2>3, <2>4, ExceptSeq
  <2>6. \A k \in DOMAIN handling' : handling'[k].step \in Waiting
    BY <2>1, <2>3, <2>5 DEF NobodyWrites, Waiting
  <2>7. \A k \in DOMAIN handling' : handling'[k].step \notin Writing
    BY <2>6, StepsApart
  <2>8. StackInv'
    BY <1>1, <2>5, <2>7 DEF StackInv, TinyInv
  <2>9. \A k \in DOMAIN handling' : Wrote(handling'[k], f_assert_msg', f_msg_len')
    BY <2>7 DEF Wrote
  <2> QED
    BY <1>1, <2>8, <2>9 DEF TinyInv, MessageInv, ReportInv
<1> QED
  BY <1>2, <1>3

LEMMA SetEnteredKeepsInv ==
  ASSUME TinyInv, SetEntered
  PROVE  TinyInv'
<1>1. /\ GoOn("enter", "file", Len(Bug)) /\ have_entered_already' = TRUE
      /\ UNCHANGED <<f_assert_msg, f_msg_len, report>>
      /\ handling # <<>> /\ Running.step = "enter"
  BY DEF SetEntered, GoOn
<1>2. NobodyWrites
  BY <1>1, NoWriterBelow DEF TinyInv
<1>3. /\ handling \in Seq(Contexts) /\ "file" \in Waiting \union Writing
      /\ Len(Bug) \in Nat /\ Len(Bug) = 4 /\ Bug \in Seq(Nat)
  BY DEF TinyInv, StackInv, Writing, Adding, Bug
<1>4. /\ 1 \in DOMAIN handling /\ handling[1] \in Contexts
      /\ handling' \in Seq(Contexts) /\ DOMAIN handling' = DOMAIN handling
      /\ handling'[1] = [step |-> "file", site |-> handling[1].site, ix |-> Len(Bug)]
      /\ \A k \in DOMAIN handling : k # 1 => handling'[k] = handling[k]
  BY <1>1, <1>3, GoOnEffect, Zenon
<1>5. /\ \A k \in DOMAIN handling' : k # 1 => handling'[k].step \in Waiting
      /\ \A k \in DOMAIN handling' : handling'[k].step \in Writing => k = 1
  BY <1>2, <1>4, StepsApart DEF NobodyWrites
<1>6. StackInv'
  <2>1. DOMAIN handling = 1..Len(handling)
    BY <1>3
  <2> QED
    BY <1>1, <1>4, <1>5, <2>1 DEF StackInv
<1>7. SubSeq(f_assert_msg, 1, Len(Bug)) = Bug
  <2> DEFINE a == SubSeq(f_assert_msg, 1, 4)
  <2>1. /\ f_assert_msg \in Seq(Nat) /\ 4 <= Len(f_assert_msg)
        /\ \A i \in 1..4 : f_assert_msg[i] = Bug[i]
    BY <1>4, LineLengths DEF TinyInv, MessageInv, Contexts
  <2>2. \A i \in 1..4 : f_assert_msg[i] \in Nat
    BY <2>1, ElementOfSeq
  <2>3. /\ a \in Seq(Nat) /\ Len(a) = (IF 1 <= 4 THEN 4 - 1 + 1 ELSE 0)
        /\ \A i \in 1..4 - 1 + 1 : a[i] = f_assert_msg[1 + i - 1]
    BY <2>2, SubSeqProperties
  <2> HIDE DEF a
  <2>4. Len(a) = 4 /\ \A i \in 1..4 : a[i] = Bug[i]
    BY <2>1, <2>3
  <2>5. a = Bug
    BY <1>3, <2>3, <2>4, SeqEqual
  <2> QED
    BY <1>3, <2>5 DEF a
<1>8. \A k \in DOMAIN handling' : Wrote(handling'[k], f_assert_msg, f_msg_len)
  <2> TAKE k \in DOMAIN handling'
  <2>1. CASE k = 1
    BY <1>4, <1>7, <2>1 DEF Wrote, SoFar, Told
  <2>2. CASE k # 1
    BY <1>5, <2>2 DEF Wrote
  <2> QED
    BY <2>1, <2>2
<1> QED
  BY <1>1, <1>6, <1>8 DEF TinyInv, MessageInv, ReportInv

LEMMA SaveMessageKeepsInv ==
  ASSUME TinyInv, SaveMessage
  PROVE  TinyInv'
<1> DEFINE site == Running.site
<1>1. handling # <<>>
  BY DEF SaveMessage
<1>2. site \in Sites
  BY <1>1, HandlingType DEF TinyInv
<1>3. /\ AppendMsg(site.file, MaxFilename) \in Seq(Nat)
      /\ AppendMsg(site.function, MaxFunction) \in Seq(Nat)
      /\ Digits(site.line, Radix) \in Seq(Nat)
      /\ AppendMsg(Itoa(site.line, MaxLinenum), MaxLinenum) = Digits(site.line, Radix)
  BY <1>2, LineLengths, LineFits
<1>4. /\ Comma \in Seq(Nat) /\ Parens \in Seq(Nat) /\ Newline \in Seq(Nat)
      /\ <<Nul>> \in Seq(Nat)
      /\ AppendMsg(Parens, 3) = Parens /\ AppendMsg(Newline, 1) = Newline
  <2>1. /\ Comma \in Seq(Nat) /\ Parens \in Seq(Nat) /\ Newline \in Seq(Nat)
        /\ <<Nul>> \in Seq(Nat) /\ Len(Parens) = 3 /\ Len(Newline) = 1
    BY DEF Comma, Parens, Newline, Nul
  <2>2. 3 \in Nat /\ 1 \in Nat /\ Len(Parens) <= 3 /\ Len(Newline) <= 1
    BY <2>1
  <2>3. AppendMsg(Parens, 3) = Parens
    BY <2>1, <2>2, AppendMsgIs, Zenon
  <2>4. AppendMsg(Newline, 1) = Newline
    BY <2>1, <2>2, AppendMsgIs, Zenon
  <2> QED
    BY <2>1, <2>3, <2>4
<1>5. /\ "file" \in Adding /\ "comma" \in Adding /\ "function" \in Adding /\ "parens" \in Adding
      /\ "line" \in Adding /\ "newline" \in Adding /\ "nul" \in Adding /\ "length" \in Adding
  BY DEF Adding
<1>6. /\ SoFar("comma", site) = SoFar("file", site) \o AppendMsg(site.file, MaxFilename)
      /\ SoFar("function", site) = SoFar("comma", site) \o Comma
      /\ SoFar("parens", site) = SoFar("function", site) \o AppendMsg(site.function, MaxFunction)
      /\ SoFar("line", site) = SoFar("parens", site) \o Parens
      /\ SoFar("newline", site) = SoFar("line", site) \o Digits(site.line, Radix)
      /\ SoFar("nul", site) = SoFar("newline", site) \o Newline
      /\ SoFar("length", site) = SoFar("nul", site) \o <<Nul>>
  <2>1. /\ SoFar("file", site) = Bug /\ SoFar("comma", site) = BeforeComma(site)
        /\ SoFar("function", site) = BeforeFunction(site)
        /\ SoFar("parens", site) = BeforeParens(site)
        /\ SoFar("line", site) = BeforeLine(site)
        /\ SoFar("newline", site) = BeforeNewline(site)
        /\ SoFar("nul", site) = BeforeNul(site)
        /\ SoFar("length", site) = WholeLine(site)
    BY DEF SoFar
  <2> QED
    BY <2>1 DEF BeforeComma, BeforeFunction, BeforeParens, BeforeLine, BeforeNewline,
                BeforeNul, WholeLine
<1>7. \/ Add("file", "comma", AppendMsg(site.file, MaxFilename))
      \/ Add("comma", "function", Comma)
      \/ Add("function", "parens", AppendMsg(site.function, MaxFunction))
      \/ Add("parens", "line", Parens)
      \/ Add("line", "newline", Digits(site.line, Radix))
      \/ Add("newline", "nul", Newline)
      \/ Add("nul", "length", <<Nul>>)
  BY <1>3, <1>4 DEF SaveMessage
<1>8. CASE Add("file", "comma", AppendMsg(site.file, MaxFilename))
  BY <1>1, <1>3, <1>5, <1>6, <1>8, AddKeepsInv, Zenon
<1>9. CASE Add("comma", "function", Comma)
  BY <1>1, <1>4, <1>5, <1>6, <1>9, AddKeepsInv, Zenon
<1>10. CASE Add("function", "parens", AppendMsg(site.function, MaxFunction))
  BY <1>1, <1>3, <1>5, <1>6, <1>10, AddKeepsInv, Zenon
<1>11. CASE Add("parens", "line", Parens)
  BY <1>1, <1>4, <1>5, <1>6, <1>11, AddKeepsInv, Zenon
<1>12. CASE Add("line", "newline", Digits(site.line, Radix))
  BY <1>1, <1>3, <1>5, <1>6, <1>12, AddKeepsInv, Zenon
<1>13. CASE Add("newline", "nul", Newline)
  BY <1>1, <1>4, <1>5, <1>6, <1>13, AddKeepsInv, Zenon
<1>14. CASE Add("nul", "length", <<Nul>>)
  BY <1>1, <1>4, <1>5, <1>6, <1>14, AddKeepsInv, Zenon
<1> QED
  BY <1>7, <1>8, <1>9, <1>10, <1>11, <1>12, <1>13, <1>14

\* A context that has written the whole line takes its length down, or hands
\* both to the publisher.
LEMMA WriterDoneKeepsInv ==
  ASSUME TinyInv, NEW from \in {"length", "publish"}, NEW to \in Told,
         handling # <<>>, GoOn(from, to, Running.ix),
         UNCHANGED <<f_assert_msg, have_entered_already>>,
         IF from = "length" THEN f_msg_len' = Running.ix ELSE UNCHANGED f_msg_len,
         ReportInv'
  PROVE  TinyInv'
<1> DEFINE n == Running.ix
           site == Running.site
<1>1. /\ handling \in Seq(Contexts) /\ StackInv /\ Running = handling[1]
      /\ n \in Nat /\ site \in Sites /\ 1 \in DOMAIN handling
  BY HandlingType DEF TinyInv, StackInv
<1>2. from \in Writing /\ to \in Writing /\ to \in Waiting \union Writing
  BY StepsApart DEF Told, Adding
<1>3. /\ handling[1].step = from
      /\ DOMAIN handling' = DOMAIN handling
      /\ handling'[1] = [step |-> to, site |-> site, ix |-> n]
      /\ \A k \in DOMAIN handling : k # 1 => handling'[k] = handling[k]
  BY <1>1, <1>2, GoOnEffect, ZenonT(60)
<1>4. StackInv' /\ \A k \in DOMAIN handling : k # 1 => handling[k].step \in Waiting
  BY <1>1, <1>2, WriterGoesOn
<1>5. /\ n = Len(SoFar(from, site)) /\ SubSeq(f_assert_msg, 1, n) = SoFar(from, site)
      /\ from \in Told => f_msg_len = n
  <2>1. Wrote(Running, f_assert_msg, f_msg_len)
    BY <1>1 DEF TinyInv, MessageInv
  <2> QED
    BY <1>1, <1>2, <1>3, <2>1 DEF Wrote
<1>6. SoFar(from, site) = WholeLine(site) /\ SoFar(to, site) = WholeLine(site)
  BY DEF SoFar, Told
<1>7. f_msg_len' = n
  BY <1>5 DEF Told
<1>8. \A k \in DOMAIN handling' : Wrote(handling'[k], f_assert_msg', f_msg_len')
  <2> TAKE k \in DOMAIN handling'
  <2>1. CASE k = 1
    <3> HIDE DEF n, site
    <3> QED
      BY <1>3, <1>5, <1>6, <1>7, <2>1 DEF Wrote
  <2>2. CASE k # 1
    BY <1>3, <1>4, <2>2, StepsApart DEF Wrote
  <2> QED
    BY <2>1, <2>2
<1> QED
  BY <1>4, <1>8 DEF TinyInv, MessageInv

LEMMA PublishMessageKeepsInv ==
  ASSUME TinyInv, PublishMessage
  PROVE  TinyInv'
<1>1. /\ handling # <<>> /\ Running.step = "publish"
      /\ UNCHANGED <<f_assert_msg, have_entered_already, f_msg_len>>
      /\ report' = [site |-> Running.site, text |-> f_assert_msg, length |-> f_msg_len]
      /\ \E to \in Told : GoOn("publish", to, Running.ix)
  BY DEF PublishMessage, GoOn, Told
<1>2. /\ Running = handling[1] /\ 1 \in DOMAIN handling /\ Running.site \in Sites
      /\ "publish" \in Told /\ "publish" \in Writing
  BY <1>1, HandlingType DEF TinyInv, Told, Writing
<1>3. /\ f_msg_len = Len(SoFar("publish", Running.site))
      /\ SubSeq(f_assert_msg, 1, f_msg_len) = SoFar("publish", Running.site)
  <2>1. Wrote(Running, f_assert_msg, f_msg_len)
    BY <1>2 DEF TinyInv, MessageInv
  <2> QED
    BY <1>1, <1>2, <2>1 DEF Wrote
<1>4. Len(SoFar("publish", Running.site)) <= BufferLength
  BY <1>2, LineLengths
<1>5. SoFar("publish", Running.site) = WholeLine(Running.site)
  BY DEF SoFar
<1>6. ReportInv'
  BY <1>1, <1>3, <1>4, <1>5 DEF ReportInv
<1> QED
  BY <1>1, <1>6, WriterDoneKeepsInv

LEMMA TinyInitInv == TinyInit => TinyInv
<1> SUFFICES ASSUME TinyInit PROVE TinyInv
  OBVIOUS
<1>1. handling = <<>> /\ have_entered_already = FALSE /\ report = NoReport
  BY DEF TinyInit
<1>2. Len(Bug) = 4 /\ Bug \in Seq(Nat) /\ Nul \in Nat
  BY DEF Bug, Nul
<1>3. BufferLength \in Nat /\ 4 <= BufferLength
  BY <1>2, TinyAssumption DEF TinyAssumption, BufferLength
<1>4. f_assert_msg = [n \in 1..BufferLength |-> IF n <= 4 THEN Bug[n] ELSE Nul]
  BY <1>2 DEF TinyInit
<1>5. f_assert_msg \in [1..BufferLength -> Nat]
  <2>1. ASSUME NEW n \in 1..BufferLength
        PROVE  (IF n <= 4 THEN Bug[n] ELSE Nul) \in Nat
    <3>1. CASE n <= 4
      BY <1>2, <1>3, <3>1, ElementOfSeq, SMTT(60)
    <3>2. CASE ~(n <= 4)
      BY <1>2, <3>2
    <3> QED
      BY <3>1, <3>2
  <2> QED
    BY <1>4, <2>1
<1>6. f_assert_msg \in Seq(Nat) /\ Len(f_assert_msg) = BufferLength
  BY <1>3, <1>5, SeqDef
<1>7. \A i \in 1..4 : f_assert_msg[i] = Bug[i]
  BY <1>3, <1>4
<1>8. handling \in Seq(Contexts) /\ DOMAIN handling = {}
  BY <1>1
<1> QED
  BY <1>1, <1>6, <1>7, <1>8 DEF TinyInv, StackInv, MessageInv, ReportInv

LEMMA TinyNextInv == TinyInv /\ [TinyNext]_tinyVars => TinyInv'
<1> SUFFICES ASSUME TinyInv, [TinyNext]_tinyVars PROVE TinyInv'
  OBVIOUS
<1>1. CASE SaveLength
  <2>1. /\ handling # <<>> /\ GoOn("length", "publish", Running.ix) /\ f_msg_len' = Running.ix
        /\ UNCHANGED <<f_assert_msg, have_entered_already, report>> /\ "publish" \in Told
    BY <1>1 DEF SaveLength, Told
  <2>2. ReportInv'
    BY <2>1 DEF TinyInv, ReportInv
  <2> QED
    BY <2>1, <2>2, WriterDoneKeepsInv
<1>2. CASE Return
  <2>1. "leave" \in Writing
    BY DEF Writing, Told
  <2> QED
    BY <1>2, <2>1, PopKeepsInv DEF Return
<1>3. CASE UNCHANGED tinyVars
  BY <1>3 DEF tinyVars, TinyInv, StackInv, MessageInv, ReportInv
<1> QED
  BY <1>1, <1>2, <1>3, FailsKeepsInv, CheckKeepsInv, SetEnteredKeepsInv, SaveMessageKeepsInv,
     PublishMessageKeepsInv DEF TinyNext

\* "The message format is: BUG: + filename + , + function + (), + line number
\* + \n\0" (utilTinyDevDebug.h:84-85): whatever asserts while an assertion is
\* put together, the publisher is given the whole line of one assertion, and
\* the buffer is long enough for it.
THEOREM TinyMessagesAreExact == TinySpec => []TinyMessageExact
<1>1. TinyInv => TinyMessageExact
  BY ReportIsExact DEF TinyInv
<1> QED
  BY <1>1, TinyInitInv, TinyNextInv, PTL DEF TinySpec

-----------------------------------------------------------------------------
(* Pieces of text put together.                                            *)

LEMMA RowIsSeq ==
  ASSUME NEW S, NEW n \in Nat, NEW f \in [1..n -> S]
  PROVE  f \in Seq(S) /\ Len(f) = n
BY SeqDef

\* f joins every beginning of seqs.
Joins(f, seqs, S) ==
  /\ f \in [0..Len(seqs) -> Seq(S)] /\ f[0] = <<>>
  /\ \A n \in 1..Len(seqs) : f[n] = f[n - 1] \o seqs[n]

LEMMA FlattenIs ==
  ASSUME NEW S, NEW seqs \in Seq(Seq(S))
  PROVE  /\ \E f : Joins(f, seqs, S)
         /\ \A f : Joins(f, seqs, S) => FlattenSeq(seqs) = f[Len(seqs)]
<1> DEFINE N == Len(seqs)
           T == Seq(S)
           rule == [p \in T \X (1..N) |-> p[1] \o seqs[p[2]]]
<1>1. N \in Nat /\ DOMAIN seqs = 1..N /\ \A n \in 1..N : seqs[n] \in T
  BY ElementOfSeq
<1>2. \A a \in T, b \in T : a \o b \in T
  BY ConcatProperties
<1>3. <<>> \in T /\ \A b \in T : <<>> \o b = b
  BY ConcatEmptySeq
<1> HIDE DEF T
<1>4. rule \in Rules(N, T)
  <2>1. \A p \in T \X (1..N) : p[1] \o seqs[p[2]] \in T
    BY <1>1, <1>2
  <2> QED
    BY <2>1 DEF Rules
<1>5. \A a \in T, n \in 1..N : rule[<<a, n>>] = a \o seqs[n]
  OBVIOUS
<1> HIDE DEF rule
<1>6. PICK f : Follows(f, N, T, <<>>, rule)
  BY <1>1, <1>3, <1>4, RecursiveFunction
<1>7. Joins(f, seqs, S)
  <2>1. \A n \in 1..N : n - 1 \in 0..N
    BY <1>1
  <2>2. /\ f \in [0..N -> T] /\ f[0] = <<>>
        /\ \A n \in 1..N : f[n] = rule[<<f[n - 1], n>>]
    BY <1>6, Zenon DEF Follows
  <2>3. \A n \in 1..N : f[n - 1] \in T
    BY <2>1, <2>2
  <2>4. \A n \in 1..N : f[n] = f[n - 1] \o seqs[n]
    BY <1>5, <2>2, <2>3
  <2> QED
    BY <2>2, <2>4, Zenon DEF Joins, T
<1>8. ASSUME NEW g, Joins(g, seqs, S)
      PROVE  FlattenSeq(seqs) = g[N]
  <2>1. CASE N = 0
    <3>1. seqs = <<>>
      BY <2>1, EmptySeq
    <3> QED
      BY <1>8, <2>1, <3>1 DEF Joins, FlattenSeq
  <2>2. CASE N # 0
    <3> DEFINE e == CHOOSE h : h = [i \in 1..N |->
                       IF i = 1 THEN seqs[i] ELSE h[i - 1] \o seqs[i]]
               h == [i \in 1..N |-> g[i]]
    <3>1. FlattenSeq(seqs) = e[N]
      BY <2>2 DEF FlattenSeq
    <3>2. \A i \in 1..N : h[i] = IF i = 1 THEN seqs[i] ELSE h[i - 1] \o seqs[i]
      <4> TAKE i \in 1..N
      <4>1. g[i] = g[i - 1] \o seqs[i] /\ g[0] = <<>> /\ h[i] = g[i]
        BY <1>8, Zenon DEF Joins
      <4>2. CASE i = 1
        <5>1. i - 1 = 0 /\ <<>> \o seqs[1] = seqs[1]
          BY <1>1, <1>3, <4>2
        <5> QED
          BY <4>1, <4>2, <5>1
      <4>3. CASE i # 1
        <5>1. i - 1 \in 1..N
          BY <1>1, <4>3
        <5>2. h[i - 1] = g[i - 1]
          BY <5>1
        <5> QED
          BY <4>1, <4>3, <5>2
      <4> QED
        BY <4>2, <4>3
    <3>3. h = [i \in 1..N |-> IF i = 1 THEN seqs[i] ELSE h[i - 1] \o seqs[i]]
      BY <3>2
    <3>4. e = [i \in 1..N |-> IF i = 1 THEN seqs[i] ELSE e[i - 1] \o seqs[i]]
      <4> HIDE DEF h
      <4> QED
        BY <3>3
    <3>5. N \in 1..N /\ h[N] = g[N]
      BY <1>1, <2>2
    <3> HIDE DEF e, h
    <3> DEFINE good == {i \in 0..N : i > 0 => e[i] = h[i]}
    <3>6. 0 \in good
      BY <1>1
    <3>7. \A i \in 0..N - 1 : i \in good => i + 1 \in good
      <4> SUFFICES ASSUME NEW i \in 0..N - 1, i \in good
                   PROVE  e[i + 1] = h[i + 1]
        BY <1>1
      <4>1. i + 1 \in 1..N /\ (i + 1) - 1 = i
        BY <1>1
      <4>2. /\ e[i + 1] = IF i + 1 = 1 THEN seqs[i + 1] ELSE e[(i + 1) - 1] \o seqs[i + 1]
            /\ h[i + 1] = IF i + 1 = 1 THEN seqs[i + 1] ELSE h[(i + 1) - 1] \o seqs[i + 1]
        BY <3>3, <3>4, <4>1, Zenon
      <4>3. i + 1 # 1 => e[i] = h[i]
        BY <1>1
      <4> QED
        BY <4>1, <4>2, <4>3
    <3> HIDE DEF good
    <3>8. \A i \in 0..N : i \in good
      BY <1>1, <3>6, <3>7, IntervalInduction
    <3>9. e[N] = h[N]
      BY <1>1, <2>2, <3>8 DEF good
    <3> QED
      BY <3>1, <3>5, <3>9
  <2> QED
    BY <2>1, <2>2
<1> QED
  BY <1>7, <1>8

LEMMA FlattenAppend ==
  ASSUME NEW S, NEW seqs \in Seq(Seq(S)), NEW x \in Seq(S)
  PROVE  /\ FlattenSeq(seqs) \in Seq(S) /\ FlattenSeq(<<>>) = <<>>
         /\ Append(seqs, x) \in Seq(Seq(S))
         /\ FlattenSeq(Append(seqs, x)) = FlattenSeq(seqs) \o x
<1> DEFINE N == Len(seqs)
           more == Append(seqs, x)
<1>1. /\ N \in Nat /\ more \in Seq(Seq(S)) /\ Len(more) = N + 1 /\ more[N + 1] = x
      /\ \A n \in 1..N : more[n] = seqs[n]
  BY AppendProperties
<1> HIDE DEF more
<1>2. PICK g : Joins(g, more, S)
  BY <1>1, FlattenIs
<1>3. FlattenSeq(more) = g[N + 1]
  BY <1>1, <1>2, FlattenIs
<1>4. /\ g \in [0..N + 1 -> Seq(S)] /\ g[0] = <<>>
      /\ \A n \in 1..N + 1 : g[n] = g[n - 1] \o more[n]
  BY <1>1, <1>2 DEF Joins
<1> DEFINE f == [n \in 0..N |-> g[n]]
<1>5. Joins(f, seqs, S)
  <2>1. f \in [0..N -> Seq(S)] /\ f[0] = <<>>
    BY <1>1, <1>4
  <2>2. \A n \in 1..N : f[n] = f[n - 1] \o seqs[n]
    <3> TAKE n \in 1..N
    <3>1. n \in 1..N + 1 /\ f[n] = g[n] /\ f[n - 1] = g[n - 1] /\ more[n] = seqs[n]
      BY <1>1
    <3>2. g[n] = g[n - 1] \o more[n]
      BY <1>4, <3>1, Zenon
    <3> QED
      BY <3>1, <3>2
  <2> HIDE DEF f
  <2> QED
    BY <2>1, <2>2, Zenon DEF Joins
<1>6. f[N] = g[N] /\ g[N] \in Seq(S)
  BY <1>1, <1>4
<1> HIDE DEF f
<1>7. FlattenSeq(seqs) = g[N]
  BY <1>5, <1>6, FlattenIs
<1>8. N + 1 \in 1..N + 1 /\ (N + 1) - 1 = N
  BY <1>1
<1>9. g[N + 1] = g[N] \o x
  <2>1. g[N + 1] = g[(N + 1) - 1] \o more[N + 1]
    BY <1>4, <1>8, Zenon
  <2> QED
    BY <1>1, <1>8, <2>1
<1>10. FlattenSeq(<<>>) = <<>>
  BY DEF FlattenSeq
<1> QED
  BY <1>1, <1>3, <1>6, <1>7, <1>9, <1>10 DEF more

\* One piece more, kept or left out.
LEMMA JoinedIs ==
  ASSUME NEW pieces \in Seq(Seq(Nat)), NEW x \in Seq(Nat),
         NEW kept \in SUBSET DOMAIN pieces
  PROVE  /\ Joined(pieces, kept) \in Seq(Nat)
         /\ Joined(Append(pieces, x), kept) = Joined(pieces, kept)
         /\ Joined(Append(pieces, x), kept \union {Len(pieces) + 1})
              = Joined(pieces, kept) \o x
<1> DEFINE N == Len(pieces)
           more == Append(pieces, x)
           Chosen(p, k) == [n \in DOMAIN p |-> IF n \in k THEN p[n] ELSE <<>>]
           some == Chosen(pieces, kept)
<1>1. /\ N \in Nat /\ more \in Seq(Seq(Nat)) /\ Len(more) = N + 1 /\ more[N + 1] = x
      /\ \A n \in 1..N : more[n] = pieces[n]
      /\ DOMAIN more = 1..N + 1 /\ DOMAIN pieces = 1..N
  BY AppendProperties, LenProperties
<1> HIDE DEF more
<1>2. <<>> \in Seq(Nat) /\ \A n \in 1..N : pieces[n] \in Seq(Nat)
  BY <1>1, ElementOfSeq
<1>3. /\ some \in Seq(Seq(Nat)) /\ Len(some) = N
      /\ \A n \in 1..N : some[n] = IF n \in kept THEN pieces[n] ELSE <<>>
  <2>1. /\ some \in [1..N -> Seq(Nat)]
        /\ \A n \in 1..N : some[n] = IF n \in kept THEN pieces[n] ELSE <<>>
    BY <1>1, <1>2
  <2> HIDE DEF some
  <2> QED
    BY <1>1, <2>1, RowIsSeq
<1>4. Joined(pieces, kept) = FlattenSeq(some)
  BY DEF Joined
<1>5. Joined(pieces, kept) \in Seq(Nat)
  <2> HIDE DEF some
  <2> QED
    BY <1>2, <1>3, <1>4, FlattenAppend
<1>6. ASSUME NEW y \in Seq(Nat), NEW k, kept \subseteq k, k \subseteq kept \union {N + 1},
             y = IF N + 1 \in k THEN x ELSE <<>>
      PROVE  Joined(more, k) = Joined(pieces, kept) \o y
  <2> DEFINE a == Chosen(more, k)
             b == Append(some, y)
  <2>0. \A n \in 1..N : n \in k <=> n \in kept
    BY <1>1, <1>6
  <2>1. a \in Seq(Seq(Nat)) /\ Len(a) = N + 1
        /\ \A n \in 1..N + 1 : a[n] = IF n \in k THEN more[n] ELSE <<>>
    <3>1. \A n \in 1..N + 1 : more[n] \in Seq(Nat)
      BY <1>1, ElementOfSeq
    <3>2. /\ a \in [1..N + 1 -> Seq(Nat)]
          /\ \A n \in 1..N + 1 : a[n] = IF n \in k THEN more[n] ELSE <<>>
      BY <1>1, <1>2, <3>1
    <3> HIDE DEF a
    <3> QED
      <4>1. N + 1 \in Nat
        BY <1>1
      <4> QED
        BY <3>2, <4>1, RowIsSeq
  <2> HIDE DEF some
  <2>2. /\ b \in Seq(Seq(Nat)) /\ Len(b) = N + 1 /\ b[N + 1] = y
        /\ \A n \in 1..N : b[n] = some[n]
    BY <1>3, AppendProperties
  <2>3. Joined(more, k) = FlattenSeq(a)
    BY DEF Joined
  <2> HIDE DEF a, b
  <2>4. \A n \in 1..N + 1 : a[n] = b[n]
    <3> TAKE n \in 1..N + 1
    <3>1. CASE n = N + 1
      BY <1>1, <1>6, <2>1, <2>2, <3>1
    <3>2. CASE n # N + 1
      <4>1. n \in 1..N
        BY <1>1, <3>2
      <4> QED
        BY <1>1, <1>3, <2>0, <2>1, <2>2, <4>1
    <3> QED
      BY <3>1, <3>2
  <2>5. a = b
    BY <2>1, <2>2, <2>4, SeqEqual
  <2>6. FlattenSeq(b) = FlattenSeq(some) \o y
    BY <1>3, FlattenAppend DEF b
  <2> QED
    BY <1>4, <2>3, <2>5, <2>6
<1> HIDE DEF some, Chosen
<1>7. Joined(more, kept) = Joined(pieces, kept)
  <2>1. N + 1 \notin kept
    BY <1>1
  <2>2. Joined(more, kept) = Joined(pieces, kept) \o <<>>
    BY <1>2, <1>6, <2>1
  <2> QED
    BY <1>5, <2>2, ConcatEmptySeq
<1>8. Joined(more, kept \union {N + 1}) = Joined(pieces, kept) \o x
  BY <1>6
<1> QED
  BY <1>5, <1>7, <1>8 DEF more

-----------------------------------------------------------------------------
(* The buffer.                                                             *)

\* A text of n characters in front of its Nul.
LEMMA StrLenIs ==
  ASSUME NEW mem \in Seq(Nat), NEW n \in Nat, n < Len(mem), mem[n + 1] = Nul,
         \A i \in 1..n : mem[i] # Nul, NEW size \in Nat
  PROVE  StrLen(mem, size) = IF n < size THEN n ELSE 0
<1> DEFINE ends == {i \in 1..size : i \in DOMAIN mem /\ mem[i] = Nul}
<1>1. Len(mem) \in Nat /\ DOMAIN mem = 1..Len(mem)
  OBVIOUS
<1>2. StrLen(mem, size) = IF ends = {} THEN 0 ELSE Min(ends) - 1
  BY DEF StrLen
<1>3. CASE n < size
  <2>1. n + 1 \in ends /\ \A i \in ends : n + 1 <= i
    BY <1>1, <1>3
  <2> HIDE DEF ends
  <2>2. ends # {} /\ Min(ends) \in ends /\ \A i \in ends : Min(ends) <= i
    BY <2>1 DEF Min
  <2>3. Min(ends) \in Nat
    BY <2>2 DEF ends
  <2>4. Min(ends) = n + 1
    BY <2>1, <2>2, <2>3
  <2> QED
    BY <1>2, <1>3, <2>2, <2>4
<1>4. CASE ~ (n < size)
  <2>1. ends = {}
    BY <1>1, <1>4
  <2> QED
    BY <1>2, <1>4, <2>1
<1> QED
  BY <1>3, <1>4

Text(out) == SubSeq(out.mem, 1, out.length)
Whole(pieces) == Joined(pieces, DOMAIN pieces)

\* The buffer holds one text, some of the pieces, and all if there is room.
Holds(out, pieces) ==
  /\ out.mem \in Seq(Nat) /\ Len(out.mem) = BufferSize
  /\ out.length \in 0..BufferSize - 1
  /\ out.mem[out.length + 1] = Nul
  /\ \A i \in 1..out.length : out.mem[i] # Nul
  /\ \E kept \in SUBSET DOMAIN pieces : Text(out) = Joined(pieces, kept)
  /\ Len(Whole(pieces)) < BufferSize => Text(out) = Whole(pieces)
  /\ Joined(pieces, {}) = <<>>

LEMMA BufferLimits == BufferSize \in Nat \ {0}
BY PrintfAssumption DEF PrintfAssumption

\* A piece goes behind the text that is there.
LEMMA PieceStored ==
  ASSUME NEW mem \in Seq(Nat), NEW d \in Nat, NEW x \in Seq(Nat),
         d + Len(x) < Len(mem),
         \A i \in 1..d : mem[i] # Nul, \A i \in 1..Len(x) : x[i] # Nul
  PROVE  LET new == Stored(mem, d, Append(x, Nul))
         IN  /\ new \in Seq(Nat) /\ Len(new) = Len(mem)
             /\ new[d + Len(x) + 1] = Nul
             /\ \A i \in 1..d + Len(x) : new[i] # Nul
             /\ SubSeq(new, 1, d + Len(x)) = SubSeq(mem, 1, d) \o x
<1> DEFINE chars == Append(x, Nul)
           new == Stored(mem, d, chars)
           M == Len(x)
<1>1. /\ M \in Nat /\ chars \in Seq(Nat) /\ Len(chars) = M + 1 /\ chars[M + 1] = Nul
      /\ \A i \in 1..M : chars[i] = x[i]
  BY AppendProperties DEF Nul
<1> HIDE DEF chars
<1>2. /\ new \in Seq(Nat) /\ Len(new) = Len(mem)
      /\ SubSeq(new, 1, d + Len(chars)) = SubSeq(mem, 1, d) \o chars
      /\ \A i \in 1..Len(mem) :
           new[i] = IF i - d \in 1..Len(chars) THEN chars[i - d] ELSE mem[i]
  <2>1. d + Len(chars) <= Len(mem)
    BY <1>1
  <2>2. chars \in Seq(Nat)
    BY <1>1
  <2> HIDE DEF M
  <2>3. /\ Stored(mem, d, chars) \in Seq(Nat) /\ Len(Stored(mem, d, chars)) = Len(mem)
        /\ SubSeq(Stored(mem, d, chars), 1, d + Len(chars)) = SubSeq(mem, 1, d) \o chars
        /\ \A i \in 1..Len(mem) : Stored(mem, d, chars)[i] =
             IF i - d \in 1..Len(chars) THEN chars[i - d] ELSE mem[i]
    BY mem \in Seq(Nat), d \in Nat, <2>1, <2>2, StoredBehind, ZenonT(60)
  <2> QED
    BY <2>3, Zenon
<1> HIDE DEF new
<1>3. new[d + M + 1] = Nul
  <2>1. d + M + 1 \in 1..Len(mem) /\ (d + M + 1) - d = M + 1
    BY <1>1
  <2>2. M + 1 \in 1..Len(chars)
    BY <1>1
  <2> QED
    BY <1>1, <1>2, <2>1, <2>2
<1>4. \A i \in 1..d + M : /\ i \in 1..Len(mem)
                          /\ i <= d => new[i] = mem[i]
                          /\ ~ (i <= d) => i - d \in 1..M /\ new[i] = x[i - d]
  <2> TAKE i \in 1..d + M
  <2>1. i \in 1..Len(mem) /\ (~ (i <= d) => i - d \in 1..M /\ i - d \in 1..Len(chars))
        /\ (i <= d => i - d \notin 1..Len(chars))
    BY <1>1
  <2> QED
    BY <1>1, <1>2, <2>1
<1>5. \A i \in 1..d + M : new[i] # Nul
  <2> TAKE i \in 1..d + M
  <2>1. CASE i <= d
    <3>1. i \in 1..d
      BY <2>1
    <3> QED
      BY <1>4, <2>1, <3>1
  <2>2. CASE ~ (i <= d)
    BY <1>4, <2>2
  <2> QED
    BY <2>1, <2>2
<1>6. SubSeq(new, 1, d + M) = SubSeq(mem, 1, d) \o x
  <2> DEFINE a == SubSeq(new, 1, d + M)
             b == SubSeq(mem, 1, d)
  <2>1. /\ a \in Seq(Nat) /\ Len(a) = d + M /\ \A i \in 1..d + M : a[i] = new[i]
    <3>1. \A i \in 1..d + M : new[i] \in Nat
      BY <1>2, <1>4, ElementOfSeq
    <3>2. /\ a \in Seq(Nat) /\ Len(a) = (IF 1 <= d + M THEN (d + M) - 1 + 1 ELSE 0)
          /\ \A i \in 1..(d + M) - 1 + 1 : a[i] = new[1 + i - 1]
      <4> HIDE DEF M
      <4> QED
        BY <1>1, <1>2, <3>1, SubSeqProperties
    <3> HIDE DEF a, M
    <3> QED
      BY <1>1, <3>2
  <2>2. /\ b \in Seq(Nat) /\ Len(b) = d /\ \A i \in 1..d : b[i] = mem[i]
    <3>1. \A i \in 1..d : mem[i] \in Nat
      BY <1>1, ElementOfSeq
    <3>2. /\ b \in Seq(Nat) /\ Len(b) = (IF 1 <= d THEN d - 1 + 1 ELSE 0)
          /\ \A i \in 1..d - 1 + 1 : b[i] = mem[1 + i - 1]
      BY <3>1, SubSeqProperties
    <3> HIDE DEF b
    <3> QED
      BY <3>2
  <2> HIDE DEF a, b
  <2>3. /\ b \o x \in Seq(Nat) /\ Len(b \o x) = d + M
        /\ \A i \in 1..d + M : (b \o x)[i] = IF i <= d THEN b[i] ELSE x[i - d]
    <3>1. /\ b \o x \in Seq(Nat) /\ Len(b \o x) = Len(b) + Len(x)
          /\ \A i \in 1..Len(b) + Len(x) :
               (b \o x)[i] = IF i <= Len(b) THEN b[i] ELSE x[i - Len(b)]
      BY <2>2, ConcatProperties, Zenon
    <3> QED
      BY <2>2, <3>1
  <2>4. \A i \in 1..d + M : a[i] = (b \o x)[i]
    <3> TAKE i \in 1..d + M
    <3>1. CASE i <= d
      <4>1. i \in 1..d
        BY <3>1
      <4> QED
        BY <1>4, <2>1, <2>2, <2>3, <3>1, <4>1
    <3>2. CASE ~ (i <= d)
      BY <1>4, <2>1, <2>3, <3>2
    <3> QED
      BY <3>1, <3>2
  <2>5. a = b \o x
    BY <2>1, <2>3, <2>4, SeqEqual
  <2> QED
    BY <2>5 DEF a, b
<1> QED
  BY <1>1, <1>2, <1>3, <1>5, <1>6 DEF new, chars

\* Part of Holds: the buffer is one text, shorter than it.
Sound(out) ==
  /\ out.mem \in Seq(Nat) /\ Len(out.mem) = BufferSize
  /\ out.length \in 0..BufferSize - 1
  /\ out.mem[out.length + 1] = Nul
  /\ \A i \in 1..out.length : out.mem[i] # Nul

LEMMA TextType ==
  ASSUME NEW out, Sound(out)
  PROVE  Text(out) \in Seq(Nat) /\ Len(Text(out)) = out.length
<1> DEFINE n == out.length
<1>1. n \in Nat /\ n < Len(out.mem) /\ out.mem \in Seq(Nat) /\ BufferSize \in Nat
  BY BufferLimits DEF Sound
<1>2. \A i \in 1..n : out.mem[i] \in Nat
  BY <1>1, ElementOfSeq
<1> HIDE DEF n
<1>3. /\ SubSeq(out.mem, 1, n) \in Seq(Nat)
      /\ Len(SubSeq(out.mem, 1, n)) = (IF 1 <= n THEN n - 1 + 1 ELSE 0)
  BY <1>1, <1>2, SubSeqProperties
<1>4. Len(SubSeq(out.mem, 1, n)) = n
  BY <1>1, <1>3
<1> QED
  BY <1>3, <1>4 DEF Text, n

LEMMA WholeIs ==
  ASSUME NEW pieces \in Seq(Seq(Nat)), NEW x \in Seq(Nat)
  PROVE  /\ Whole(pieces) \in Seq(Nat)
         /\ Append(pieces, x) \in Seq(Seq(Nat))
         /\ Whole(Append(pieces, x)) = Whole(pieces) \o x
         /\ Len(Whole(Append(pieces, x))) = Len(Whole(pieces)) + Len(x)
<1>1. /\ DOMAIN pieces \in SUBSET DOMAIN pieces
      /\ DOMAIN Append(pieces, x) = DOMAIN pieces \union {Len(pieces) + 1}
      /\ Append(pieces, x) \in Seq(Seq(Nat))
  BY AppendProperties, LenProperties
<1>2. /\ Joined(pieces, DOMAIN pieces) \in Seq(Nat)
      /\ Joined(Append(pieces, x), DOMAIN pieces \union {Len(pieces) + 1})
           = Joined(pieces, DOMAIN pieces) \o x
  BY <1>1, JoinedIs, Zenon
<1>3. Whole(Append(pieces, x)) = Whole(pieces) \o x /\ Whole(pieces) \in Seq(Nat)
  BY <1>1, <1>2 DEF Whole
<1> QED
  BY <1>1, <1>3, ConcatProperties

\* The buffer after a piece that was left out, with what was there before.
LEMMA LeftOut ==
  ASSUME NEW pieces \in Seq(Seq(Nat)), NEW x \in Seq(Nat), NEW out, Sound(out),
         Joined(pieces, {}) = <<>>,
         NEW kept \in SUBSET DOMAIN pieces, Text(out) = Joined(pieces, kept),
         Len(Whole(Append(pieces, x))) < BufferSize => Text(out) = Whole(Append(pieces, x))
  PROVE  Holds(out, Append(pieces, x))
<1> DEFINE more == Append(pieces, x)
<1>1. kept \in SUBSET DOMAIN more /\ {} \in SUBSET DOMAIN pieces
  BY AppendProperties, LenProperties
<1>2. Joined(more, kept) = Joined(pieces, kept) /\ Joined(more, {}) = Joined(pieces, {})
  BY <1>1, JoinedIs, Zenon
<1> HIDE DEF more
<1>3. Len(Whole(more)) < BufferSize => Text(out) = Whole(more)
  BY DEF more
<1>4. Holds(out, more)
  BY <1>1, <1>2, <1>3, Zenon DEF Holds, Sound
<1> QED
  BY <1>4 DEF more

\* The buffer after a piece that went behind what was there before.
LEMMA PutBehind ==
  ASSUME NEW pieces \in Seq(Seq(Nat)), NEW x \in Seq(Nat), NEW old, Holds(old, pieces),
         NEW out, Sound(out), Text(out) = Text(old) \o x
  PROVE  Holds(out, Append(pieces, x))
<1> DEFINE more == Append(pieces, x)
           N == Len(pieces)
<1>1. PICK kept \in SUBSET DOMAIN pieces : Text(old) = Joined(pieces, kept)
  BY DEF Holds
<1>2. DOMAIN more = DOMAIN pieces \union {N + 1}
  BY AppendProperties, LenProperties
<1>3. /\ kept \union {N + 1} \in SUBSET DOMAIN more
      /\ {} \in SUBSET DOMAIN pieces
  BY <1>2
<1>4. /\ Joined(more, kept \union {N + 1}) = Joined(pieces, kept) \o x
      /\ Joined(more, {}) = Joined(pieces, {})
  BY <1>3, JoinedIs, Zenon
<1>5. /\ Whole(more) = Whole(pieces) \o x
      /\ Len(Whole(more)) = Len(Whole(pieces)) + Len(x)
      /\ Len(Whole(pieces)) \in Nat /\ Len(x) \in Nat /\ BufferSize \in Nat
  BY WholeIs, BufferLimits
<1> HIDE DEF more, N
<1>6. Len(Whole(more)) < BufferSize => Text(out) = Whole(more)
  <2>1. Len(Whole(more)) < BufferSize => Len(Whole(pieces)) < BufferSize
    BY <1>5
  <2> QED
    BY <1>5, <2>1 DEF Holds
<1>7. Text(out) = Joined(more, kept \union {N + 1}) /\ Joined(more, {}) = <<>>
  BY <1>1, <1>4 DEF Holds
<1>8. Holds(out, more)
  BY <1>3, <1>6, <1>7, Zenon DEF Holds, Sound
<1> QED
  BY <1>8 DEF more

\* If the whole fits, there is room behind the text for the piece.
LEMMA RoomFor ==
  ASSUME NEW pieces \in Seq(Seq(Nat)), NEW x \in Seq(Nat), NEW out, Holds(out, pieces),
         Len(Whole(Append(pieces, x))) < BufferSize
  PROVE  out.length + Len(x) < BufferSize
<1>1. /\ Len(Whole(Append(pieces, x))) = Len(Whole(pieces)) + Len(x)
      /\ Len(Whole(pieces)) \in Nat /\ Len(x) \in Nat /\ BufferSize \in Nat
  BY WholeIs, BufferLimits
<1>2. Text(out) = Whole(pieces)
  BY <1>1 DEF Holds
<1>3. Len(Text(out)) = out.length
  <2>1. Sound(out)
    BY Zenon DEF Holds, Sound
  <2> QED
    BY <2>1, TextType
<1> QED
  BY <1>1, <1>2, <1>3

\* The store of a piece and its Nul behind the text, as a buffer.
LEMMA StoredText ==
  ASSUME NEW out, Sound(out), NEW x \in Seq(Nat), \A i \in 1..Len(x) : x[i] # Nul,
         out.length + Len(x) < BufferSize
  PROVE  LET new == [mem |-> Stored(out.mem, out.length, Append(x, Nul)),
                     length |-> out.length + Len(x)]
         IN  Sound(new) /\ Text(new) = Text(out) \o x
<1> DEFINE m == out.mem
           d == out.length
           s == Stored(m, d, Append(x, Nul))
           new == [mem |-> s, length |-> d + Len(x)]
<1>1. /\ m \in Seq(Nat) /\ d \in Nat /\ Len(m) = BufferSize /\ d + Len(x) < Len(m)
      /\ \A i \in 1..d : m[i] # Nul
      /\ Len(x) \in Nat /\ BufferSize \in Nat
  BY BufferLimits DEF Sound
<1> HIDE DEF m, d
<1>2. /\ s \in Seq(Nat) /\ Len(s) = Len(m)
      /\ s[d + Len(x) + 1] = Nul
      /\ \A i \in 1..d + Len(x) : s[i] # Nul
      /\ SubSeq(s, 1, d + Len(x)) = SubSeq(m, 1, d) \o x
  BY <1>1, PieceStored, ZenonT(60)
<1> HIDE DEF s
<1>3. new.mem = s /\ new.length = d + Len(x) /\ d + Len(x) \in 0..BufferSize - 1
  BY <1>1
<1> HIDE DEF new
<1>4. Sound(new)
  BY <1>1, <1>2, <1>3 DEF Sound
<1>5. Text(new) = Text(out) \o x
  BY <1>2, <1>3 DEF Text, m, d
<1> QED
  BY <1>4, <1>5 DEF new, s, m, d

LEMMA EmptyPiece ==
  /\ <<>> \in Seq(Nat) /\ Len(<<>>) = 0 /\ \A i \in 1..Len(<<>>) : <<>>[i] # Nul
  /\ Append(<<>>, Nul) = <<Nul>> /\ Nul \in Nat
  /\ \A ch \in Nat : <<ch>> \in Seq(Nat) /\ Len(<<ch>>) = 1 /\ <<ch>>[1] = ch
                     /\ Append(<<ch>>, Nul) = <<ch, Nul>>
<1>1. /\ <<>> \in Seq(Nat) /\ Len(<<>>) = 0 /\ \A i \in 1..Len(<<>>) : <<>>[i] # Nul
      /\ Append(<<>>, Nul) = <<Nul>> /\ Nul \in Nat
  BY DEF Nul
<1>2. ASSUME NEW ch \in Nat
      PROVE  /\ <<ch>> \in Seq(Nat) /\ Len(<<ch>>) = 1 /\ <<ch>>[1] = ch
             /\ Append(<<ch>>, Nul) = <<ch, Nul>>
  <2>1. <<ch>> \in Seq(Nat) /\ Len(<<ch>>) = 1 /\ <<ch>>[1] = ch
    OBVIOUS
  <2> DEFINE a == Append(<<ch>>, Nul)
             b == <<ch, Nul>>
  <2>2. a \in Seq(Nat) /\ Len(a) = 2 /\ a[1] = ch /\ a[2] = Nul
    BY <1>1, <2>1, AppendProperties
  <2>3. b \in Seq(Nat) /\ Len(b) = 2 /\ b[1] = ch /\ b[2] = Nul
    BY <1>1
  <2> HIDE DEF a, b
  <2>4. \A i \in 1..2 : a[i] = b[i]
    BY <2>2, <2>3
  <2>5. a = b
    BY <2>2, <2>3, <2>4, SeqEqual
  <2> QED
    BY <2>1, <2>5 DEF a, b
<1> QED
  BY <1>1, <1>2

LEMMA CharAppended ==
  ASSUME NEW pieces \in Seq(Seq(Nat)), NEW out, Holds(out, pieces), NEW ch \in Nat, ch # Nul
  PROVE  Holds(AppendChar(out, ch), Append(pieces, <<ch>>))
<1> DEFINE x == <<ch>>
<1>1. /\ x \in Seq(Nat) /\ Len(x) = 1 /\ \A i \in 1..Len(x) : x[i] # Nul
      /\ Append(x, Nul) = <<ch, Nul>>
  BY EmptyPiece
<1>2. Sound(out)
  BY Zenon DEF Holds, Sound
<1> HIDE DEF x
<1>3. CASE out.length + 1 < BufferSize
  <2> DEFINE new == [mem |-> Stored(out.mem, out.length, Append(x, Nul)),
                     length |-> out.length + Len(x)]
  <2>1. Sound(new) /\ Text(new) = Text(out) \o x
    BY <1>1, <1>2, <1>3, StoredText
  <2>2. AppendChar(out, ch) = new
    BY <1>1, <1>3 DEF AppendChar
  <2> HIDE DEF new
  <2>3. Holds(new, Append(pieces, x))
    BY <1>1, <2>1, PutBehind
  <2> QED
    BY <2>2, <2>3 DEF x
<1>4. CASE ~ (out.length + 1 < BufferSize)
  <2>1. AppendChar(out, ch) = out
    BY <1>4 DEF AppendChar
  <2>2. ~ (Len(Whole(Append(pieces, x))) < BufferSize)
    BY <1>1, <1>4, RoomFor
  <2>3. PICK kept \in SUBSET DOMAIN pieces : Text(out) = Joined(pieces, kept)
    BY DEF Holds
  <2>4. Joined(pieces, {}) = <<>>
    BY DEF Holds
  <2>5. Holds(out, Append(pieces, x))
    BY <1>1, <1>2, <2>2, <2>3, <2>4, LeftOut
  <2> QED
    BY <2>1, <2>5 DEF x
<1> QED
  BY <1>3, <1>4

LEMMA CstringAppended ==
  ASSUME NEW pieces \in Seq(Seq(Nat)), NEW out, Holds(out, pieces),
         NEW x \in Seq(Nat), \A i \in 1..Len(x) : x[i] # Nul
  PROVE  Holds(AppendCstring(out, Append(x, Nul)), Append(pieces, x))
<1> DEFINE src == Append(x, Nul)
           d == StrLen(out.mem, BufferSize)
           s == StrLen(src, BufferSize)
           cat == StrCat(out.mem, BufferSize, src)
           new == AppendCstring(out, src)
           more == Append(pieces, x)
<1>1. Sound(out)
  BY Zenon DEF Holds, Sound
<1>2. /\ src \in Seq(Nat) /\ Len(src) = Len(x) + 1 /\ src[Len(x) + 1] = Nul
      /\ Len(x) \in Nat /\ BufferSize \in Nat \ {0}
      /\ \A i \in 1..Len(x) : src[i] = x[i]
  BY AppendProperties, BufferLimits DEF Nul
<1>3. d = out.length
  <2>1. /\ out.mem \in Seq(Nat) /\ out.length \in Nat /\ out.length < Len(out.mem)
        /\ out.mem[out.length + 1] = Nul /\ \A i \in 1..out.length : out.mem[i] # Nul
        /\ out.length < BufferSize
    BY <1>1, <1>2 DEF Sound
  <2> QED
    BY <1>2, <2>1, StrLenIs
<1> HIDE DEF src
<1>4. s = IF Len(x) < BufferSize THEN Len(x) ELSE 0
  <2>1. \A i \in 1..Len(x) : src[i] # Nul
    BY <1>2
  <2>2. Len(x) < Len(src) /\ BufferSize \in Nat
    BY <1>2
  <2> QED
    BY <1>2, <2>1, <2>2, StrLenIs, Zenon
<1>5. /\ cat = IF BufferSize > 1 /\ d + s <= BufferSize - 1
               THEN [mem |-> Stored(out.mem, d, Append(SubSeq(src, 1, s), Nul)),
                     length |-> d + s]
               ELSE [mem |-> out.mem, length |-> 0]
      /\ new = [mem |-> Stored(cat.mem, cat.length, <<Nul>>), length |-> cat.length]
  BY DEF StrCat, AppendCstring
<1> HIDE DEF d, s, cat, new, more
<1>6. out.length \in Nat /\ d \in Nat
  BY <1>1, <1>2, <1>3 DEF Sound
<1>7. PICK kept \in SUBSET DOMAIN pieces : Text(out) = Joined(pieces, kept)
  BY DEF Holds
<1>8. Joined(pieces, {}) = <<>>
  BY DEF Holds
\* What is stored goes behind the text, and the Nul is stored once more.
<1>9. ASSUME NEW y \in Seq(Nat), \A i \in 1..Len(y) : y[i] # Nul, SubSeq(src, 1, s) = y,
             Len(y) = s, BufferSize > 1, d + s <= BufferSize - 1
      PROVE  Sound(new) /\ Text(new) = Text(out) \o y
  <2>1. cat = [mem |-> Stored(out.mem, out.length, Append(y, Nul)),
               length |-> out.length + Len(y)]
    BY <1>3, <1>5, <1>9
  <2>2. out.length + Len(y) < BufferSize
    BY <1>2, <1>3, <1>6, <1>9
  <2>3. Sound(cat) /\ Text(cat) = Text(out) \o y
    BY <1>1, <1>9, <2>1, <2>2, StoredText
  <2>4. new = [mem |-> Stored(cat.mem, cat.length, Append(<<>>, Nul)),
               length |-> cat.length + Len(<<>>)]
    <3>1. cat.length + Len(<<>>) = cat.length
      BY <1>2, <2>3, EmptyPiece DEF Sound
    <3> QED
      BY <1>5, <3>1, EmptyPiece
  <2>5. cat.length + Len(<<>>) < BufferSize
    BY <1>2, <2>3, EmptyPiece DEF Sound
  <2>6. Sound(new) /\ Text(new) = Text(cat) \o <<>>
    BY <2>3, <2>4, <2>5, EmptyPiece, StoredText
  <2>7. Text(cat) \in Seq(Nat)
    BY <2>3, TextType
  <2> QED
    BY <2>3, <2>6, <2>7, ConcatEmptySeq
<1>10. CASE BufferSize > 1 /\ d + s <= BufferSize - 1 /\ Len(x) < BufferSize
  <2>1. s = Len(x)
    BY <1>4, <1>10
  <2>2. SubSeq(src, 1, s) = x
    <3> DEFINE a == SubSeq(src, 1, s)
    <3>1. \A i \in 1..s : src[i] \in Nat
      BY <1>2, <2>1, ElementOfSeq
    <3>2. /\ a \in Seq(Nat) /\ Len(a) = (IF 1 <= s THEN s - 1 + 1 ELSE 0)
          /\ \A i \in 1..s - 1 + 1 : a[i] = src[1 + i - 1]
      BY <1>2, <2>1, <3>1, SubSeqProperties
    <3> HIDE DEF a
    <3>3. Len(a) = Len(x) /\ \A i \in 1..Len(x) : a[i] = x[i]
      BY <1>2, <2>1, <3>2
    <3>4. a = x
      BY <3>2, <3>3, SeqEqual
    <3> QED
      BY <3>4 DEF a
  <2>3. Sound(new) /\ Text(new) = Text(out) \o x
    BY <1>9, <1>10, <2>1, <2>2
  <2> QED
    BY <2>3, PutBehind DEF new, src
<1>11. CASE BufferSize > 1 /\ d + s <= BufferSize - 1 /\ ~ (Len(x) < BufferSize)
  <2>1. s = 0
    BY <1>4, <1>11
  <2>2. SubSeq(src, 1, s) = <<>>
    BY <1>2, <2>1
  <2>3. Sound(new) /\ Text(new) = Text(out) \o <<>>
    BY <1>9, <1>11, <2>1, <2>2, EmptyPiece
  <2>4. Text(new) = Text(out)
    BY <1>1, <2>3, TextType, ConcatEmptySeq
  <2>5. ~ (Len(Whole(more)) < BufferSize)
    <3> SUFFICES ASSUME Len(Whole(more)) < BufferSize PROVE FALSE
      OBVIOUS
    <3>1. out.length + Len(x) < BufferSize
      BY RoomFor DEF more
    <3>2. ~ (Len(x) < BufferSize)
      BY <1>11, Zenon
    <3> QED
      BY <1>2, <1>6, <3>1, <3>2
  <2>6. Holds(new, more)
    BY <1>7, <1>8, <2>3, <2>4, <2>5, LeftOut DEF more
  <2> QED
    BY <2>6 DEF new, src, more
<1>12. CASE ~ (BufferSize > 1 /\ d + s <= BufferSize - 1)
  <2>1. new = [mem |-> Stored(out.mem, 0, <<Nul>>), length |-> 0]
    BY <1>5, <1>12
  <2> DEFINE y == <<>>
             w == Stored(out.mem, 0, Append(y, Nul))
  <2>0. y \in Seq(Nat) /\ Len(y) = 0 /\ (\A i \in 1..Len(y) : y[i] # Nul)
        /\ <<Nul>> = Append(y, Nul)
    BY EmptyPiece
  <2> HIDE DEF y
  <2>2. w \in Seq(Nat) /\ Len(w) = Len(out.mem) /\ w[1] = Nul
    <3> DEFINE z == 0
               m == out.mem
               after == Stored(m, z, Append(y, Nul))
    <3>1. /\ m \in Seq(Nat) /\ Len(m) = BufferSize /\ z + Len(y) < Len(m)
          /\ z \in Nat /\ \A i \in 1..z : m[i] # Nul
      BY <1>1, <1>2, <2>0 DEF Sound
    <3> HIDE DEF m, z
    <3>2. /\ after \in Seq(Nat) /\ Len(after) = Len(m)
          /\ after[z + Len(y) + 1] = Nul
          /\ \A i \in 1..z + Len(y) : after[i] # Nul
          /\ SubSeq(after, 1, z + Len(y)) = SubSeq(m, 1, z) \o y
      BY <2>0, <3>1, PieceStored, ZenonT(60)
    <3> HIDE DEF after
    <3>3. z + Len(y) + 1 = 1
      BY <2>0 DEF z
    <3> QED
      BY <3>2, <3>3 DEF after, m, z
  <2>3. new.mem = w /\ new.length = 0
    BY <2>0, <2>1
  <2> HIDE DEF w
  <2>5. Sound(new)
    BY <1>1, <1>2, <2>2, <2>3 DEF Sound
  <2>6. Text(new) = <<>>
    <3>1. Text(new) \in Seq(Nat) /\ Len(Text(new)) = 0
      BY <2>3, <2>5, TextType
    <3> QED
      BY <3>1, EmptySeq
  <2>7. Len(Whole(more)) < BufferSize => Text(new) = Whole(more)
    <3> SUFFICES ASSUME Len(Whole(more)) < BufferSize PROVE Whole(more) = <<>>
      BY <2>6
    <3>1. out.length + Len(x) < BufferSize
      BY RoomFor DEF more
    <3>2. s = Len(x) /\ d + s <= BufferSize - 1
      BY <1>2, <1>3, <1>4, <1>6, <3>1
    <3>3. BufferSize = 1
      BY <1>2, <1>12, <3>2
    <3>4. Whole(more) \in Seq(Nat)
      BY WholeIs DEF more
    <3>5. Len(Whole(more)) = 0
      BY <3>3, <3>4
    <3> QED
      BY <3>4, <3>5, EmptySeq
  <2>8. {} \in SUBSET DOMAIN pieces /\ Text(new) = Joined(pieces, {})
    BY <1>8, <2>6
  <2>9. Holds(new, more)
    BY <1>8, <2>5, <2>7, <2>8, LeftOut DEF more
  <2> QED
    BY <2>9 DEF new, src, more
<1> QED
  BY <1>10, <1>11, <1>12

-----------------------------------------------------------------------------
(* The pieces that a format stands for.                                    *)

Argument == [number : Int, text : Seq(Nat)]

LEMMA ZerosType ==
  ASSUME NEW n \in Int
  PROVE  Zeros(n) \in Seq(Nat)
<1>1. CASE n >= 0
  <2>1. n \in Nat
    BY <1>1
  <2> QED
    BY <2>1, MeaningOfZeros, EmptySeq
<1>2. CASE ~ (n >= 0)
  <2>1. 1..n = {}
    BY <1>2
  <2>2. Zeros(n) = <<>>
    BY <2>1 DEF Zeros
  <2> QED
    BY <2>2
<1> QED
  BY <1>1, <1>2

LEMMA PaddedType ==
  ASSUME NEW sign \in Seq(Nat), NEW digits \in Seq(Nat), NEW width \in Nat, NEW size \in Nat
  PROVE  Padded(sign, digits, width, size) \in Seq(Nat)
<1> DEFINE zeros == width - Len(sign) - Len(digits)
<1>1. Zeros(zeros) \in Seq(Nat)
  BY ZerosType
<1>2. Padded(sign, digits, width, size) \in
        {sign \o digits, sign \o Zeros(zeros) \o digits, <<>>}
  BY DEF Padded
<1> HIDE DEF zeros
<1>3. sign \o digits \in Seq(Nat) /\ sign \o Zeros(zeros) \o digits \in Seq(Nat)
  <2>1. sign \o Zeros(zeros) \in Seq(Nat)
    BY <1>1, ConcatProperties
  <2> QED
    BY <2>1, ConcatProperties
<1> DEFINE a == sign \o digits
           b == sign \o Zeros(zeros) \o digits
<1>4. a \in Seq(Nat) /\ b \in Seq(Nat) /\ <<>> \in Seq(Nat)
  BY <1>3
<1>5. Padded(sign, digits, width, size) \in {a, b, <<>>}
  BY <1>2
<1> HIDE DEF a, b
<1> QED
  BY <1>4, <1>5

LEMMA ConvertedType ==
  ASSUME NEW item \in Items, NEW num \in Int
  PROVE  /\ ToChar(num) \in Nat
         /\ SignedText(item, num) \in Seq(Nat) /\ UnsignedText(item, num) \in Seq(Nat)
         /\ HexText(item, num) \in Seq(Nat) /\ PointerDigits(num) \in Seq(Nat)
<1>1. /\ U8Max \in Nat /\ U32Max \in Nat /\ UintptrMax \in Nat /\ TmpSize \in Nat
      /\ U32Chars \in Nat /\ Radix \in 2..16 /\ HexRadix \in 2..16
      /\ item.width \in Nat /\ HexDigits \in Nat
  BY Limits, PrintfAssumption, StringsAssumption
     DEF PrintfAssumption, StringsAssumption, TmpSize, Items
<1>2. ToChar(num) \in Nat /\ ToU32(num) \in Nat /\ num % (UintptrMax + 1) \in Nat
  BY <1>1 DEF ToChar, ToU32
<1>3. ToS32(num) \in Int
  BY <1>1, <1>2 DEF ToS32
<1>4. \A v \in Nat : Digits(v, Radix) \in Seq(Nat) /\ Digits(v, HexRadix) \in Seq(Nat)
  <2> TAKE v \in Nat
  <2>1. Digits(v, Radix) \in Seq(Nat)
    BY <1>1, DigitsMeaning, Zenon
  <2>2. Digits(v, HexRadix) \in Seq(Nat)
    BY <1>1, DigitsMeaning, Zenon
  <2> QED
    BY <2>1, <2>2
<1>5. <<>> \in Seq(Nat) /\ <<Minus>> \in Seq(Nat)
  BY DEF Minus
<1>6. SignedText(item, num) \in Seq(Nat)
  <2> DEFINE v == ToS32(num)
             text == Itoa(v, TmpSize)
             sign == IF v < 0 THEN <<Minus>> ELSE <<>>
             rest == SubSeq(text, Len(sign) + 1, Len(text))
  <2>1. text \in Seq(Nat)
    <3>1. text \in {<<>>, <<Minus>> \o Digits(-v, Radix), Digits(v, Radix)}
      BY DEF Itoa
    <3>2. v < 0 => <<Minus>> \o Digits(-v, Radix) \in Seq(Nat)
      <4> SUFFICES ASSUME v < 0 PROVE <<Minus>> \o Digits(-v, Radix) \in Seq(Nat)
        OBVIOUS
      <4>1. -v \in Nat
        BY <1>3
      <4>2. Digits(-v, Radix) \in Seq(Nat)
        BY <1>4, <4>1
      <4> QED
        BY <1>5, <4>2, ConcatProperties
    <3>3. ~ (v < 0) => Digits(v, Radix) \in Seq(Nat)
      BY <1>3, <1>4
    <3> QED
      BY <1>5, <3>2, <3>3 DEF Itoa
  <2>2. rest \in Seq(Nat)
    <3>1. sign \in Seq(Nat) /\ Len(sign) \in Nat /\ Len(text) \in Nat
      BY <1>5, <2>1
    <3> HIDE DEF text, sign
    <3>2. \A i \in Len(sign) + 1..Len(text) : text[i] \in Nat
      BY <2>1, <3>1, ElementOfSeq
    <3> QED
      BY <3>1, <3>2, SubSeqProperties
  <2>3. sign \in Seq(Nat)
    BY <1>5
  <2> HIDE DEF v, sign, rest
  <2>4. Padded(sign, rest, item.width, TmpSize) \in Seq(Nat)
    BY <1>1, <2>2, <2>3, PaddedType
  <2>5. SignedText(item, num) \in {text, Padded(sign, rest, item.width, TmpSize)}
    BY DEF SignedText, ItoaPad, v, sign, rest
  <2> QED
    BY <2>1, <2>4, <2>5
<1>7. UnsignedText(item, num) \in Seq(Nat)
  <2> DEFINE text == Utoa(ToU32(num), TmpSize)
  <2>1. text \in Seq(Nat)
    BY <1>2, <1>4, <1>5 DEF Utoa
  <2> HIDE DEF text
  <2>2. Padded(<<>>, text, item.width, TmpSize) \in Seq(Nat)
    BY <1>1, <1>5, <2>1, PaddedType
  <2>3. UnsignedText(item, num) \in {text, Padded(<<>>, text, item.width, TmpSize)}
    BY DEF UnsignedText, UtoaPad, text
  <2> QED
    BY <2>1, <2>2, <2>3
<1>8. ASSUME NEW v \in Nat, NEW size \in Nat, NEW least \in Nat
      PROVE  HexToString(v, size, least) \in Seq(Nat)
  <2> DEFINE d == Digits(v, HexRadix)
             text == Zeros(least - Len(d)) \o d
  <2>1. d \in Seq(Nat)
    BY <1>4
  <2> HIDE DEF d
  <2>2. Zeros(least - Len(d)) \in Seq(Nat)
    BY <2>1, ZerosType
  <2>3. text \in Seq(Nat)
    BY <2>1, <2>2, ConcatProperties
  <2>4. HexToString(v, size, least) \in {text, <<>>}
    BY DEF HexToString, d
  <2> QED
    BY <1>5, <2>3, <2>4
<1>9. HexText(item, num) \in Seq(Nat)
  <2>1. (IF item.zero /\ item.width > 1 THEN item.width ELSE 1) \in Nat
    BY <1>1
  <2> QED
    BY <1>1, <1>2, <1>8, <2>1 DEF HexText
<1>10. PointerDigits(num) \in Seq(Nat)
  <2>1. HexDigits + 1 \in Nat
    BY <1>1
  <2> QED
    BY <1>2, <1>8, <2>1 DEF PointerDigits
<1> QED
  BY <1>2, <1>6, <1>7, <1>9, <1>10

LEMMA TakenIs ==
  ASSUME NEW format \in Seq(Items)
  PROVE  /\ \A n \in Nat : Taken(format, n) \in Nat
         /\ Taken(format, 0) = 0
         /\ \A n \in Nat : Taken(format, n + 1) = Taken(format, n)
              + (IF format[n + 1].spec \in Specifiers THEN 1 ELSE 0)
<1> DEFINE T(n) == {k \in 1..n : format[k].spec \in Specifiers}
<1>1. ASSUME NEW n \in Nat
      PROVE  IsFiniteSet(T(n)) /\ Cardinality(T(n)) \in Nat
  <2>1. IsFiniteSet(1..n)
    BY FS_Interval
  <2>2. T(n) \subseteq 1..n
    OBVIOUS
  <2> QED
    BY <2>1, <2>2, FS_Subset, FS_CardinalityType
<1>2. T(0) = {} /\ Cardinality({}) = 0
  BY FS_EmptySet
<1>3. ASSUME NEW n \in Nat
      PROVE  Taken(format, n + 1) = Taken(format, n)
               + (IF format[n + 1].spec \in Specifiers THEN 1 ELSE 0)
  <2>1. CASE format[n + 1].spec \in Specifiers
    <3>1. T(n + 1) = T(n) \union {n + 1} /\ n + 1 \notin T(n)
      BY <2>1
    <3> HIDE DEF T
    <3>2. Cardinality(T(n + 1)) = Cardinality(T(n)) + 1
      BY <1>1, <3>1, FS_AddElement
    <3> QED
      BY <2>1, <3>2 DEF Taken, T
  <2>2. CASE format[n + 1].spec \notin Specifiers
    <3>1. T(n + 1) = T(n)
      BY <2>2
    <3>2. Cardinality(T(n + 1)) = Cardinality(T(n)) /\ Cardinality(T(n)) \in Nat
      BY <1>1, <3>1
    <3> HIDE DEF T
    <3> QED
      BY <2>2, <3>2 DEF Taken, T
  <2> QED
    BY <2>1, <2>2
<1> QED
  BY <1>1, <1>2, <1>3 DEF Taken

LEMMA ArgumentIs ==
  ASSUME NEW params \in Params, NEW n \in 1..Len(params)
  PROVE  /\ params[n] \in Argument
         /\ SubSeq(params[n].text, 1, Len(params[n].text) - 1) \in Seq(Nat)
         /\ params[n].text
              = Append(SubSeq(params[n].text, 1, Len(params[n].text) - 1), Nul)
<1> DEFINE t == params[n].text
           L == Len(t)
           a == SubSeq(t, 1, L - 1)
           b == Append(a, Nul)
<1>1. params \in Seq(Argument) /\ n \in DOMAIN params
  BY PrintfAssumption DEF PrintfAssumption, Argument
<1>2. params[n] \in Argument /\ t # <<>> /\ t[L] = Nul
  BY <1>1, ElementOfSeq, PrintfAssumption DEF PrintfAssumption
<1>3. t \in Seq(Nat)
  BY <1>2 DEF Argument
<1> HIDE DEF t
<1>4. L \in Nat /\ L > 0
  BY <1>2, <1>3, EmptySeq
<1>5. a \in Seq(Nat) /\ Len(a) = L - 1 /\ \A i \in 1..L - 1 : a[i] = t[i]
  <2>1. \A i \in 1..L - 1 : t[i] \in Nat
    BY <1>3, ElementOfSeq
  <2> HIDE DEF L
  <2>2. /\ a \in Seq(Nat) /\ Len(a) = (IF 1 <= L - 1 THEN (L - 1) - 1 + 1 ELSE 0)
        /\ \A i \in 1..(L - 1) - 1 + 1 : a[i] = t[1 + i - 1]
    BY <1>4, <2>1, SubSeqProperties
  <2> HIDE DEF a
  <2> QED
    BY <1>4, <2>2
<1> HIDE DEF a
<1>6. b \in Seq(Nat) /\ Len(b) = L /\ b[L] = Nul /\ \A i \in 1..L - 1 : b[i] = t[i]
  <2>1. /\ b \in Seq(Nat) /\ Len(b) = Len(a) + 1 /\ b[Len(a) + 1] = Nul
        /\ \A i \in 1..Len(a) : b[i] = a[i]
    BY <1>5, AppendProperties DEF Nul
  <2> QED
    BY <1>4, <1>5, <2>1
<1> HIDE DEF b
<1>7. \A i \in 1..L : b[i] = t[i]
  <2> TAKE i \in 1..L
  <2>1. i = L \/ i \in 1..L - 1
    BY <1>4
  <2> QED
    BY <1>2, <1>6, <2>1
<1>8. b = t
  BY <1>3, <1>6, <1>7, SeqEqual
<1> QED
  BY <1>2, <1>5, <1>8 DEF b, a, t

PiecesUpTo(format, params, n) == FlattenSeq([k \in 1..n |-> PiecesOf(format, params, k)])

Clean(text) == \A i \in 1..Len(text) : text[i] # Nul

LEMMA PiecesOfType ==
  ASSUME NEW format \in Seq(Items), NEW params \in Params, NEW n \in 1..Len(format)
  PROVE  PiecesOf(format, params, n) \in Seq(Seq(Nat))
<1> DEFINE item == format[n]
           taken == Taken(format, n)
           param == params[taken]
<1>1. /\ item \in Items /\ n \in Nat /\ n - 1 \in Nat /\ (n - 1) + 1 = n
      /\ params \in Seq(Argument)
  BY ElementOfSeq, PrintfAssumption DEF PrintfAssumption, Argument
<1>2. taken \in Nat /\ (item.spec \in Specifiers => taken >= 1)
  <2>1. /\ taken \in Nat /\ Taken(format, n - 1) \in Nat
        /\ taken = Taken(format, n - 1) + (IF item.spec \in Specifiers THEN 1 ELSE 0)
    BY <1>1, TakenIs
  <2> HIDE DEF taken
  <2> QED
    BY <2>1
<1>3. ASSUME item.spec \in Specifiers, ~ (taken > Len(params))
      PROVE  /\ param.number \in Int
             /\ SubSeq(param.text, 1, Len(param.text) - 1) \in Seq(Nat)
  <2>1. taken \in 1..Len(params)
    BY <1>1, <1>2, <1>3
  <2> HIDE DEF taken
  <2> QED
    BY <2>1, ArgumentIs DEF Argument
<1>4. \A a \in Nat, b \in Nat : <<<<a>>>> \in Seq(Seq(Nat)) /\ <<<<a>>, <<b>>>> \in Seq(Seq(Nat))
  OBVIOUS
<1>5. \A s \in Seq(Nat) : <<s>> \in Seq(Seq(Nat))
  OBVIOUS
<1>6. item.ch \in Nat /\ Percent \in Nat /\ Char(0) \in Nat /\ 108 \in Nat /\ 120 \in Nat
  BY <1>1, CharType DEF Items, Percent
<1>7. <<>> \in Seq(Seq(Nat))
  OBVIOUS
<1>8. CASE item.spec \notin Specifiers
  <2>1. item.spec \in {"literal", "%", "l", "?", "end"}
    BY <1>1, <1>8 DEF Items
  <2>2. PiecesOf(format, params, n) \in
          {<<<<item.ch>>>>, <<<<Percent>>>>, <<<<Percent>>, <<108>>>>, <<>>}
    BY <2>1 DEF PiecesOf
  <2>3. /\ <<<<item.ch>>>> \in Seq(Seq(Nat)) /\ <<<<Percent>>>> \in Seq(Seq(Nat))
        /\ <<<<Percent>>, <<108>>>> \in Seq(Seq(Nat))
    BY <1>4, <1>6
  <2> QED
    BY <1>7, <2>2, <2>3
<1>9. CASE item.spec \in Specifiers /\ taken > Len(params)
  BY <1>7, <1>9 DEF PiecesOf, Specifiers
<1>10. CASE item.spec \in Specifiers /\ ~ (taken > Len(params))
  <2> DEFINE a == SubSeq(param.text, 1, Len(param.text) - 1)
             c == ToChar(param.number)
             p1 == SignedText(item, param.number)
             p2 == UnsignedText(item, param.number)
             p3 == HexText(item, param.number)
             p4 == PointerDigits(param.number)
             all == {<<<<c>>>>, <<a>>, <<p1>>, <<p2>>, <<p3>>, <<<<Char(0)>>, <<120>>, p4>>}
  <2>1. /\ a \in Seq(Nat) /\ c \in Nat /\ p1 \in Seq(Nat) /\ p2 \in Seq(Nat)
        /\ p3 \in Seq(Nat) /\ p4 \in Seq(Nat)
    <3>1. param.number \in Int /\ a \in Seq(Nat)
      BY <1>3, <1>10
    <3> HIDE DEF item, param
    <3> QED
      BY <1>1, <3>1, ConvertedType
  <2>2. PiecesOf(format, params, n) \in all
    BY <1>10 DEF PiecesOf, Specifiers
  <2> HIDE DEF a, c, p1, p2, p3, p4, item, taken, param
  <2>3. <<<<Char(0)>>, <<120>>, p4>> \in Seq(Seq(Nat))
    <3>1. <<Char(0)>> \in Seq(Nat) /\ <<120>> \in Seq(Nat)
      BY <1>6
    <3> QED
      BY <2>1, <3>1
  <2>4. \A s \in all : s \in Seq(Seq(Nat))
    BY <1>4, <1>5, <2>1, <2>3
  <2> HIDE DEF all
  <2> QED
    BY <2>2, <2>4
<1> QED
  BY <1>8, <1>9, <1>10

\* The pieces of one item more come behind the others.
LEMMA PiecesGrow ==
  ASSUME NEW format \in Seq(Items), NEW params \in Params
  PROVE  /\ PiecesUpTo(format, params, 0) = <<>>
         /\ Pieces(format, params) = PiecesUpTo(format, params, Len(format))
         /\ \A n \in 0..Len(format) - 1 :
              /\ PiecesUpTo(format, params, n) \in Seq(Seq(Nat))
              /\ PiecesUpTo(format, params, n + 1)
                   = PiecesUpTo(format, params, n) \o PiecesOf(format, params, n + 1)
<1> DEFINE row(n) == [k \in 1..n |-> PiecesOf(format, params, k)]
<1>1. Len(format) \in Nat /\ DOMAIN format = 1..Len(format)
  OBVIOUS
<1>2. PiecesUpTo(format, params, 0) = <<>>
  <2>1. row(0) = <<>>
    OBVIOUS
  <2> HIDE DEF row
  <2>2. FlattenSeq(row(0)) = <<>>
    BY <2>1 DEF FlattenSeq
  <2> QED
    BY <2>2 DEF PiecesUpTo, row
<1>3. Pieces(format, params) = PiecesUpTo(format, params, Len(format))
  BY <1>1 DEF Pieces, PiecesUpTo
<1>4. ASSUME NEW n \in 0..Len(format) - 1
      PROVE  /\ PiecesUpTo(format, params, n) \in Seq(Seq(Nat))
             /\ PiecesUpTo(format, params, n + 1)
                  = PiecesUpTo(format, params, n) \o PiecesOf(format, params, n + 1)
  <2> DEFINE S == Seq(Nat)
             x == PiecesOf(format, params, n + 1)
             a == row(n)
             b == row(n + 1)
             c == Append(a, x)
  <2>1. \A k \in 1..n + 1 : PiecesOf(format, params, k) \in Seq(S)
    BY <1>1, PiecesOfType
  <2>2. n \in Nat /\ n + 1 \in Nat /\ n + 1 \in 1..n + 1 /\ \A k \in 1..n : k \in 1..n + 1
    BY <1>1
  <2>3. x \in Seq(S)
    BY <2>1, <2>2
  <2>4. a \in Seq(Seq(S)) /\ Len(a) = n /\ \A k \in 1..n : a[k] = PiecesOf(format, params, k)
    <3>1. a \in [1..n -> Seq(S)] /\ \A k \in 1..n : a[k] = PiecesOf(format, params, k)
      BY <2>1, <2>2
    <3> HIDE DEF a, S
    <3> QED
      BY <2>2, <3>1, RowIsSeq
  <2>5. b \in Seq(Seq(S)) /\ Len(b) = n + 1
        /\ \A k \in 1..n + 1 : b[k] = PiecesOf(format, params, k)
    <3>1. b \in [1..n + 1 -> Seq(S)] /\ \A k \in 1..n + 1 : b[k] = PiecesOf(format, params, k)
      BY <2>1, <2>2
    <3> HIDE DEF b, S
    <3> QED
      BY <2>2, <3>1, RowIsSeq
  <2> HIDE DEF a, b, S
  <2>6. /\ FlattenSeq(a) \in Seq(S) /\ c \in Seq(Seq(S))
        /\ FlattenSeq(c) = FlattenSeq(a) \o x
    BY <2>3, <2>4, FlattenAppend
  <2>7. Len(c) = n + 1 /\ c[n + 1] = x /\ \A k \in 1..n : c[k] = a[k]
    BY <2>3, <2>4, AppendProperties
  <2> HIDE DEF c
  <2>8. \A k \in 1..n + 1 : c[k] = b[k]
    <3> TAKE k \in 1..n + 1
    <3>1. CASE k = n + 1
      BY <2>2, <2>5, <2>7, <3>1
    <3>2. CASE k # n + 1
      <4>1. k \in 1..n
        BY <2>2, <3>2
      <4> QED
        BY <2>4, <2>5, <2>7, <4>1
    <3> QED
      BY <3>1, <3>2
  <2>9. c = b
    BY <2>5, <2>6, <2>7, <2>8, SeqEqual
  <2> QED
    BY <2>6, <2>9 DEF PiecesUpTo, a, b, row, S
<1> QED
  BY <1>2, <1>3, <1>4

LEMMA WholeClean ==
  ASSUME NEW pieces \in Seq(Seq(Nat)), NEW x \in Seq(Nat),
         Clean(Whole(Append(pieces, x)))
  PROVE  Clean(Whole(pieces)) /\ Clean(x)
<1> DEFINE w == Whole(pieces)
           v == Whole(Append(pieces, x))
<1>1. w \in Seq(Nat) /\ v = w \o x
  BY WholeIs
<1> HIDE DEF w, v
<1>2. /\ Len(v) = Len(w) + Len(x) /\ Len(w) \in Nat /\ Len(x) \in Nat
      /\ \A i \in 1..Len(w) + Len(x) : v[i] = IF i <= Len(w) THEN w[i] ELSE x[i - Len(w)]
  <2>1. /\ w \o x \in Seq(Nat) /\ Len(w \o x) = Len(w) + Len(x)
        /\ \A i \in 1..Len(w) + Len(x) :
             (w \o x)[i] = IF i <= Len(w) THEN w[i] ELSE x[i - Len(w)]
    BY <1>1, ConcatProperties, Zenon
  <2> QED
    BY <1>1, <2>1
<1>3. \A i \in 1..Len(v) : v[i] # Nul
  BY DEF Clean, v
<1>4. \A i \in 1..Len(w) : w[i] # Nul
  <2> TAKE i \in 1..Len(w)
  <2>1. i \in 1..Len(w) + Len(x) /\ i <= Len(w)
    BY <1>2
  <2> QED
    BY <1>2, <1>3, <2>1
<1>5. \A i \in 1..Len(x) : x[i] # Nul
  <2> TAKE i \in 1..Len(x)
  <2>1. i + Len(w) \in 1..Len(w) + Len(x) /\ ~ (i + Len(w) <= Len(w)) /\ (i + Len(w)) - Len(w) = i
    BY <1>2
  <2> QED
    BY <1>2, <1>3, <2>1
<1> QED
  BY <1>4, <1>5 DEF Clean, w

\* What a step does to the buffer: it appends the pieces of a list, if the
\* result is clean.
Appends(out, pieces, new, list) ==
  (Clean(Whole(pieces)) => Holds(out, pieces)) =>
    (Clean(Whole(pieces \o list)) => Holds(new, pieces \o list))

LEMMA AppendsNone ==
  ASSUME NEW pieces \in Seq(Seq(Nat)), NEW out
  PROVE  Appends(out, pieces, out, <<>>)
BY ConcatEmptySeq DEF Appends

LEMMA AppendsChar ==
  ASSUME NEW pieces \in Seq(Seq(Nat)), NEW out, NEW ch \in Nat
  PROVE  Appends(out, pieces, AppendChar(out, ch), <<<<ch>>>>)
<1> DEFINE x == <<ch>>
           more == Append(pieces, x)
<1>1. x \in Seq(Nat) /\ Len(x) = 1 /\ x[1] = ch
  OBVIOUS
<1>2. pieces \o <<x>> = more
  BY <1>1
<1> HIDE DEF x
<1>3. Clean(Whole(more)) => Clean(Whole(pieces)) /\ Clean(x)
  BY <1>1, WholeClean
<1>4. Clean(x) => ch # Nul
  BY <1>1 DEF Clean
<1>5. Holds(out, pieces) /\ ch # Nul => Holds(AppendChar(out, ch), more)
  BY CharAppended DEF x
<1> QED
  BY <1>2, <1>3, <1>4, <1>5 DEF Appends, x

LEMMA AppendsText ==
  ASSUME NEW pieces \in Seq(Seq(Nat)), NEW out, NEW x \in Seq(Nat)
  PROVE  /\ Appends(out, pieces, AppendCstring(out, Append(x, Nul)), <<x>>)
         /\ Appends(out, pieces, AppendConverted(out, x), <<x>>)
<1> DEFINE more == Append(pieces, x)
<1>1. pieces \o <<x>> = more
  OBVIOUS
<1> HIDE DEF more
<1>2. Clean(Whole(more)) => Clean(Whole(pieces)) /\ Clean(x)
  BY WholeClean DEF more
<1>3. Holds(out, pieces) /\ Clean(x) => Holds(AppendCstring(out, Append(x, Nul)), more)
  BY CstringAppended DEF Clean, more
<1>4. ASSUME x = <<>>, Holds(out, pieces) PROVE Holds(out, more)
  <2>1. Sound(out) /\ Text(out) = Text(out) \o x
    <3>1. Sound(out)
      BY <1>4, Zenon DEF Holds, Sound
    <3> QED
      BY <1>4, <3>1, TextType, ConcatEmptySeq
  <2> QED
    BY <1>4, <2>1, PutBehind DEF more
<1>5. Holds(out, pieces) /\ Clean(x) => Holds(AppendConverted(out, x), more)
  BY <1>3, <1>4 DEF AppendConverted
<1>6. Appends(out, pieces, AppendCstring(out, Append(x, Nul)), <<x>>)
  BY <1>1, <1>2, <1>3 DEF Appends
<1>7. Appends(out, pieces, AppendConverted(out, x), <<x>>)
  BY <1>1, <1>2, <1>5 DEF Appends
<1> QED
  BY <1>6, <1>7

LEMMA AppendsBoth ==
  ASSUME NEW pieces \in Seq(Seq(Nat)), NEW out, NEW new, NEW last,
         NEW x \in Seq(Nat), NEW list \in Seq(Seq(Nat)),
         Appends(out, pieces, new, list), Appends(new, pieces \o list, last, <<x>>)
  PROVE  Appends(out, pieces, last, list \o <<x>>) /\ pieces \o list \in Seq(Seq(Nat))
<1>1. (pieces \o list) \o <<x>> = pieces \o (list \o <<x>>)
  <2>1. <<x>> \in Seq(Seq(Nat))
    OBVIOUS
  <2> QED
    BY <2>1, ConcatAssociative, SMTT(60)
<1>2. pieces \o list \in Seq(Seq(Nat))
  BY ConcatProperties
<1> QED
  BY <1>1, <1>2 DEF Appends

LEMMA TwoPieces ==
  ASSUME NEW x, NEW y
  PROVE  <<x>> \o <<y>> = <<x, y>>
<1>1. <<x>> \in Seq({x, y}) /\ y \in {x, y}
  OBVIOUS
<1>2. Append(<<x>>, y) = <<x>> \o <<y>>
  BY <1>1, AppendIsConcat
<1>3. Append(<<x>>, y) = <<x, y>>
  <2> DEFINE S == {x, y}
             s == Append(<<x>>, y)
             t == <<x, y>>
  <2>1. /\ s \in Seq(S) /\ Len(s) = 2 /\ s[1] = x /\ s[2] = y
    BY <1>1, AppendProperties
  <2>2. t \in Seq(S) /\ Len(t) = 2 /\ t[1] = x /\ t[2] = y
    OBVIOUS
  <2> HIDE DEF s, t, S
  <2>3. \A i \in 1..2 : i = 1 \/ i = 2
    OBVIOUS
  <2>4. Len(s) = Len(t) /\ \A i \in 1..Len(s) : s[i] = t[i]
    BY <2>1, <2>2, <2>3
  <2>5. s = t
    BY <2>1, <2>2, <2>4, SeqEqual, Zenon
  <2> QED
    BY <2>5 DEF s, t
<1> QED
  BY <1>2, <1>3

LEMMA ThreePieces ==
  ASSUME NEW x, NEW y, NEW z
  PROVE  <<x, y>> \o <<z>> = <<x, y, z>>
<1>1. <<x, y>> \in Seq({x, y, z}) /\ z \in {x, y, z}
  OBVIOUS
<1>2. Append(<<x, y>>, z) = <<x, y>> \o <<z>>
  BY <1>1, AppendIsConcat
<1>3. Append(<<x, y>>, z) = <<x, y, z>>
  <2> DEFINE S == {x, y, z}
             s == Append(<<x, y>>, z)
             t == <<x, y, z>>
  <2>1. s \in Seq(S) /\ Len(s) = 3 /\ s[1] = x /\ s[2] = y /\ s[3] = z
    BY <1>1, AppendProperties
  <2>2. t \in Seq(S) /\ Len(t) = 3 /\ t[1] = x /\ t[2] = y /\ t[3] = z
    OBVIOUS
  <2> HIDE DEF s, t, S
  <2>3. \A i \in 1..3 : i = 1 \/ i = 2 \/ i = 3
    OBVIOUS
  <2>4. Len(s) = Len(t) /\ \A i \in 1..Len(s) : s[i] = t[i]
    BY <2>1, <2>2, <2>3
  <2>5. s = t
    BY <2>1, <2>2, <2>4, SeqEqual, Zenon
  <2> QED
    BY <2>5 DEF s, t
<1> QED
  BY <1>2, <1>3

\* One pass of the loop appends the pieces of its item.
LEMMA ItemAppended ==
  ASSUME NEW format \in Seq(Items), NEW params \in Params, NEW n \in 0..Len(format) - 1,
         NEW pieces \in Seq(Seq(Nat)), NEW out, NEW argIndex,
         argIndex = IF Taken(format, n) < Len(params) THEN Taken(format, n) ELSE Len(params)
  PROVE  /\ Appends(out, pieces, FormatItem(format[n + 1], argIndex, params, out),
                    PiecesOf(format, params, n + 1))
         /\ argIndex + (IF TakesArgument(format[n + 1], argIndex, Len(params)) THEN 1 ELSE 0)
              = IF Taken(format, n + 1) < Len(params) THEN Taken(format, n + 1) ELSE Len(params)
<1> DEFINE item == format[n + 1]
           before == Taken(format, n)
           taken == Taken(format, n + 1)
           count == Len(params)
           list == PiecesOf(format, params, n + 1)
           new == FormatItem(item, argIndex, params, out)
<1>1. /\ item \in Items /\ n \in Nat /\ count \in Nat
  <2>1. n + 1 \in 1..Len(format) /\ params \in Seq(Argument)
    BY PrintfAssumption DEF PrintfAssumption, Argument
  <2> QED
    BY <2>1, ElementOfSeq
<1>2. /\ before \in Nat /\ taken = before + (IF item.spec \in Specifiers THEN 1 ELSE 0)
      /\ taken \in Nat
  <2>1. n \in Nat /\ n + 1 \in Nat
    BY <1>1
  <2>2. /\ \A k \in Nat : Taken(format, k) \in Nat
        /\ \A k \in Nat : Taken(format, k + 1) = Taken(format, k)
              + (IF format[k + 1].spec \in Specifiers THEN 1 ELSE 0)
    BY TakenIs, Zenon
  <2>3. /\ Taken(format, n) \in Nat /\ Taken(format, n + 1) \in Nat
        /\ Taken(format, n + 1) = Taken(format, n)
              + (IF format[n + 1].spec \in Specifiers THEN 1 ELSE 0)
    BY <2>1, <2>2, Zenon
  <2> QED
    BY <2>3, Zenon
<1> HIDE DEF before, taken, count
<1>3. argIndex + (IF TakesArgument(item, argIndex, count) THEN 1 ELSE 0)
        = IF taken < count THEN taken ELSE count
  BY <1>1, <1>2 DEF TakesArgument, before, count
<1>4. argIndex = IF before < count THEN before ELSE count
  BY DEF before, count
<1>5. CASE item.spec \notin Specifiers
  <2>1. item.spec \in {"literal", "%", "l", "?", "end"}
    BY <1>1, <1>5 DEF Items
  <2>2. /\ item.ch \in Nat /\ Percent \in Nat /\ 108 \in Nat
        /\ <<<<Percent>>>> \in Seq(Seq(Nat)) /\ <<108>> \in Seq(Nat)
    BY <1>1 DEF Items, Percent
  <2>3. CASE item.spec = "literal"
    <3>1. new = AppendChar(out, item.ch) /\ list = <<<<item.ch>>>>
      BY <2>3 DEF FormatItem, PiecesOf, Specifiers
    <3> QED
      BY <1>3, <2>2, <3>1, AppendsChar DEF taken, count
  <2>4. CASE item.spec = "%"
    <3>1. new = AppendChar(out, Percent) /\ list = <<<<Percent>>>>
      BY <2>4 DEF FormatItem, PiecesOf, Specifiers
    <3> QED
      BY <1>3, <2>2, <3>1, AppendsChar DEF taken, count
  <2>5. CASE item.spec = "l"
    <3> DEFINE mid == AppendChar(out, Percent)
    <3>1. new = AppendChar(mid, 108) /\ list = <<<<Percent>>, <<108>>>>
      BY <2>5 DEF FormatItem, PiecesOf, Specifiers
    <3>2. Appends(out, pieces, mid, <<<<Percent>>>>)
      BY <2>2, AppendsChar
    <3>3. pieces \o <<<<Percent>>>> \in Seq(Seq(Nat))
      BY <2>2, ConcatProperties
    <3> DEFINE l1 == <<<<Percent>>>>
               l2 == <<<<108>>>>
    <3>6. l1 \o l2 = list
      <4>1. l1 \o l2 = <<<<Percent>>, <<108>>>>
        BY TwoPieces, Zenon
      <4> QED
        BY <3>1, <4>1
    <3> HIDE DEF mid, new, list
    <3>4. Appends(mid, pieces \o <<<<Percent>>>>, new, <<<<108>>>>)
      BY <2>2, <3>1, <3>3, AppendsChar
    <3>5. Appends(out, pieces, new, <<<<Percent>>>> \o <<<<108>>>>)
      BY <2>2, <3>2, <3>4, AppendsBoth
    <3> QED
      BY <1>3, <3>5, <3>6 DEF taken, count, new, list
  <2>6. CASE item.spec \in {"?", "end"}
    <3>1. new = out /\ list = <<>>
      BY <2>6 DEF FormatItem, PiecesOf, Specifiers
    <3> QED
      BY <1>3, <3>1, AppendsNone DEF taken, count
  <2> QED
    BY <2>1, <2>3, <2>4, <2>5, <2>6
<1>6. CASE item.spec \in Specifiers /\ ~ (argIndex < count)
  <2>1. taken > count
    BY <1>1, <1>2, <1>4, <1>6
  <2>2. new = out
    BY <1>6 DEF FormatItem, TakesArgument, count
  <2>3. list = <<>>
    BY <1>6, <2>1 DEF PiecesOf, Specifiers, taken, count
  <2> QED
    BY <1>3, <2>2, <2>3, AppendsNone DEF taken, count
<1>7. CASE item.spec \in Specifiers /\ argIndex < count
  <2> DEFINE param == params[taken]
             text == SubSeq(param.text, 1, Len(param.text) - 1)
             num == param.number
  <2>1. taken = argIndex + 1 /\ taken \in 1..count /\ ~ (taken > count)
    BY <1>1, <1>2, <1>4, <1>7
  <2>2. new = Converted(item, param, out)
    BY <1>7, <2>1 DEF FormatItem, TakesArgument, count
  <2>3. num \in Int /\ text \in Seq(Nat) /\ param.text = Append(text, Nul)
    <3>1. taken \in 1..Len(params)
      BY <2>1 DEF count
    <3>2. param \in Argument /\ text \in Seq(Nat) /\ param.text = Append(text, Nul)
      BY <3>1, ArgumentIs
    <3> HIDE DEF param
    <3> QED
      BY <3>2 DEF Argument
  <2>4. list = CASE item.spec = "c" -> <<<<ToChar(num)>>>>
                 [] item.spec \in {"s", "g"} -> <<text>>
                 [] item.spec \in {"d", "ld"} -> <<SignedText(item, num)>>
                 [] item.spec = "u" -> <<UnsignedText(item, num)>>
                 [] item.spec = "x" -> <<HexText(item, num)>>
                 [] item.spec = "p" -> <<<<Char(0)>>, <<120>>, PointerDigits(num)>>
    BY <1>7, <2>1 DEF PiecesOf, Specifiers, taken, count
  <2>5. /\ ToChar(num) \in Nat
        /\ SignedText(item, num) \in Seq(Nat) /\ UnsignedText(item, num) \in Seq(Nat)
        /\ HexText(item, num) \in Seq(Nat) /\ PointerDigits(num) \in Seq(Nat)
    <3> HIDE DEF num, item
    <3> QED
      BY <1>1, <2>3, ConvertedType
  <2>6. Appends(out, pieces, new, list)
    <3> HIDE DEF new, list, item, param, text
    <3>1. CASE item.spec = "c"
      <4>1. new = AppendChar(out, ToChar(num)) /\ list = <<<<ToChar(num)>>>>
        BY <2>2, <2>4, <3>1 DEF Converted
      <4> QED
        BY <2>5, <4>1, AppendsChar
    <3>2. CASE item.spec \in {"s", "g"}
      <4>1. new = AppendCstring(out, Append(text, Nul)) /\ list = <<text>>
        BY <2>2, <2>3, <2>4, <3>2 DEF Converted
      <4> QED
        BY <2>3, <4>1, AppendsText
    <3>3. CASE item.spec \in {"d", "ld"}
      <4>1. new = AppendConverted(out, SignedText(item, num)) /\ list = <<SignedText(item, num)>>
        BY <2>2, <2>4, <3>3 DEF Converted
      <4> QED
        BY <2>5, <4>1, AppendsText
    <3>4. CASE item.spec = "u"
      <4>1. new = AppendConverted(out, UnsignedText(item, num))
            /\ list = <<UnsignedText(item, num)>>
        BY <2>2, <2>4, <3>4 DEF Converted
      <4> QED
        BY <2>5, <4>1, AppendsText
    <3>5. CASE item.spec = "x"
      <4>1. new = AppendConverted(out, HexText(item, num)) /\ list = <<HexText(item, num)>>
        BY <2>2, <2>4, <3>5 DEF Converted
      <4> QED
        BY <2>5, <4>1, AppendsText
    <3>6. CASE item.spec = "p"
      <4> DEFINE digits == PointerDigits(num)
                 o1 == AppendChar(out, Char(0))
                 o2 == AppendChar(o1, 120)
                 l1 == <<<<Char(0)>>>>
                 l2 == <<<<120>>>>
      <4>1. new = AppendConverted(o2, digits) /\ list = <<<<Char(0)>>, <<120>>, digits>>
        BY <2>2, <2>4, <3>6 DEF Converted
      <4>2. Char(0) \in Nat /\ 120 \in Nat /\ digits \in Seq(Nat)
        BY <2>5, CharType
      <4>3. /\ l1 \in Seq(Seq(Nat)) /\ l1 \o l2 \in Seq(Seq(Nat)) /\ <<120>> \in Seq(Nat)
            /\ (l1 \o l2) \o <<digits>> = list
        <5>1. l1 \in Seq(Seq(Nat)) /\ l2 \in Seq(Seq(Nat)) /\ <<120>> \in Seq(Nat)
          BY <4>2
        <5>2. l1 \o l2 = <<<<Char(0)>>, <<120>>>>
          BY TwoPieces, Zenon
        <5>3. <<<<Char(0)>>, <<120>>>> \o <<digits>> = <<<<Char(0)>>, <<120>>, digits>>
          BY ThreePieces, Zenon
        <5>4. l1 \o l2 \in Seq(Seq(Nat))
          BY <5>1, ConcatProperties
        <5> QED
          BY <4>1, <5>1, <5>2, <5>3, <5>4
      <4>4. Appends(out, pieces, o1, l1)
        BY <4>2, AppendsChar
      <4> HIDE DEF digits, o1, l1
      <4>5. pieces \o l1 \in Seq(Seq(Nat)) /\ pieces \o (l1 \o l2) \in Seq(Seq(Nat))
        BY <4>3, ConcatProperties
      <4>6. Appends(o1, pieces \o l1, o2, l2)
        BY <4>2, <4>5, AppendsChar
      <4> HIDE DEF o2
      <4>7. Appends(out, pieces, o2, l1 \o l2)
        BY <4>3, <4>4, <4>6, AppendsBoth
      <4> HIDE DEF l2
      <4>8. Appends(o2, pieces \o (l1 \o l2), new, <<digits>>)
        BY <4>1, <4>2, <4>5, AppendsText
      <4>9. Appends(out, pieces, new, (l1 \o l2) \o <<digits>>)
        BY <4>2, <4>3, <4>7, <4>8, AppendsBoth
      <4> QED
        BY <4>3, <4>9
    <3> QED
      BY <1>7, <3>1, <3>2, <3>3, <3>4, <3>5, <3>6 DEF Specifiers
  <2> QED
    BY <1>3, <2>6 DEF taken, count
<1> QED
  BY <1>5, <1>6, <1>7

-----------------------------------------------------------------------------
(* The calls.                                                              *)

\* What the caller gets of the buffer.
Given ==
  IF printing.size > 0
  THEN SubSeq(Text([mem |-> outBuffer, length |-> outLength]), 1, Min({outLength, printing.size - 1}))
  ELSE IF g_m_printf_output_fn THEN Text([mem |-> outBuffer, length |-> outLength]) ELSE <<>>

FormatInv ==
  LET taken  == Taken(printing.format, progress.pos)
      count  == Len(printing.params)
      pieces == PiecesUpTo(printing.format, printing.params, progress.pos)
  IN  /\ progress.pos \in 0..Len(printing.format)
      /\ progress.argIndex = IF taken < count THEN taken ELSE count
      /\ pieces \in Seq(Seq(Nat))
      /\ Clean(Whole(pieces)) => Holds([mem |-> outBuffer, length |-> outLength], pieces)

PrintInv ==
  /\ printing = [step |-> printing.step, format |-> printing.format,
                 params |-> printing.params, size |-> printing.size]
  /\ printing.step \in {"idle", "format", "returned"}
  /\ printing.step = "idle" =>
       /\ progress = [pos |-> 0, argIndex |-> 0]
       /\ outBuffer \in Seq(Nat) /\ Len(outBuffer) = BufferSize /\ outLength = 0
  /\ printing.step # "idle" =>
       /\ printing.format \in PrintFormats /\ printing.params \in Params
       /\ printing.size \in DestSizes \union {-1}
       /\ printing.step = "format" => printing.size # 0
       /\ printing.size # 0 => FormatInv
  /\ printing.step = "returned" /\ printing.size # 0 =>
       /\ progress.pos = Len(printing.format)
       /\ Clean(Whole(PiecesUpTo(printing.format, printing.params, progress.pos))) =>
            delivered = Given

LEMMA PrintInitInv == PrintfInit => PrintInv
<1> SUFFICES ASSUME PrintfInit PROVE PrintInv
  OBVIOUS
<1>1. /\ printing.step = "idle" /\ progress = [pos |-> 0, argIndex |-> 0] /\ outLength = 0
      /\ outBuffer = [n \in 1..BufferSize |-> Garbage]
  BY DEF PrintfInit, NoPrint
<1>4. printing = [step |-> printing.step, format |-> printing.format,
                  params |-> printing.params, size |-> printing.size]
  BY DEF PrintfInit, NoPrint
<1>2. BufferSize \in Nat /\ outBuffer \in [1..BufferSize -> Nat]
  BY <1>1, BufferLimits DEF Garbage
<1>3. outBuffer \in Seq(Nat) /\ Len(outBuffer) = BufferSize
  BY <1>2, RowIsSeq
<1> QED
  BY <1>1, <1>3, <1>4 DEF PrintInv

\* Before the first pass the buffer holds no piece.
LEMMA CallKeepsInv ==
  ASSUME PrintInv, NEW format \in PrintFormats, NEW params \in Params,
         NEW size \in DestSizes \union {-1}, CallPrintf(format, params, size)
  PROVE  PrintInv'
<1>1. /\ printing.step = "idle"
      /\ printing' = [step |-> IF size = 0 THEN "returned" ELSE "format",
                      format |-> format, params |-> params, size |-> size]
      /\ outBuffer' = IF size = 0 THEN outBuffer ELSE [outBuffer EXCEPT ![1] = Nul]
      /\ progress' = progress /\ outLength' = outLength
  BY DEF CallPrintf
<1>2. /\ progress = [pos |-> 0, argIndex |-> 0] /\ outLength = 0
      /\ outBuffer \in Seq(Nat) /\ Len(outBuffer) = BufferSize
  BY <1>1 DEF PrintInv
<1>3. format \in Seq(Items) /\ params \in Seq(Argument) /\ Len(params) \in Nat
      /\ Len(format) \in Nat
  BY PrintfAssumption DEF PrintfAssumption, Argument
<1>4. CASE size = 0
  BY <1>1, <1>4 DEF PrintInv
<1>5. CASE size # 0
  <2>1. PiecesUpTo(format, params, 0) = <<>> /\ Taken(format, 0) = 0
    BY <1>3, PiecesGrow, TakenIs
  <2> DEFINE out == [mem |-> outBuffer', length |-> outLength']
             none == <<>>
  <2>2. out.mem \in Seq(Nat) /\ Len(out.mem) = BufferSize /\ out.mem[1] = Nul /\ out.length = 0
    <3>1. BufferSize \in Nat \ {0} /\ DOMAIN outBuffer = 1..BufferSize
      BY <1>2, BufferLimits
    <3>2. outBuffer' = [outBuffer EXCEPT ![1] = Nul]
      BY <1>1, <1>5
    <3>3. outBuffer' \in [1..BufferSize -> Nat] /\ outBuffer'[1] = Nul
      <4>1. \A n \in 1..BufferSize : outBuffer[n] \in Nat
        BY <1>2, <3>1, ElementOfSeq
      <4>2. outBuffer \in [1..BufferSize -> Nat]
        BY <3>1, <4>1, <1>2
      <4>3. 1 \in 1..BufferSize /\ Nul \in Nat
        BY <3>1 DEF Nul
      <4> QED
        BY <3>2, <4>2, <4>3
    <3>4. outBuffer' \in Seq(Nat) /\ Len(outBuffer') = BufferSize
      BY <3>1, <3>3, RowIsSeq
    <3> QED
      BY <1>1, <1>2, <3>3, <3>4
  <2> HIDE DEF out
  <2>3. Sound(out)
    BY <2>2, BufferLimits DEF Sound
  <2>4. Text(out) = <<>>
    <3>1. Text(out) \in Seq(Nat) /\ Len(Text(out)) = 0
      BY <2>2, <2>3, TextType
    <3> QED
      BY <3>1, EmptySeq
  <2>5. Joined(none, {}) = <<>> /\ DOMAIN none = {} /\ Whole(none) = <<>>
    <3>1. Joined(none, {}) = <<>>
      BY DEF Joined, FlattenSeq
    <3> QED
      BY <3>1 DEF Whole
  <2>6. Holds(out, none)
    BY <2>3, <2>4, <2>5 DEF Holds, Sound
  <2>7. 0 = IF Taken(format, 0) < Len(params) THEN Taken(format, 0) ELSE Len(params)
    BY <1>3, <2>1
  <2>8. /\ printing'.format = format /\ printing'.params = params /\ printing'.size = size
        /\ printing'.step = "format" /\ progress'.pos = 0 /\ progress'.argIndex = 0
        /\ printing' = [step |-> printing'.step, format |-> printing'.format,
                        params |-> printing'.params, size |-> printing'.size]
    BY <1>1, <1>2, <1>5
  <2>9. none \in Seq(Seq(Nat)) /\ 0 \in 0..Len(format)
    BY <1>3
  <2>10. FormatInv'
    BY <2>1, <2>6, <2>7, <2>8, <2>9 DEF FormatInv, out
  <2> QED
    BY <1>5, <2>8, <2>10 DEF PrintInv
<1> QED
  BY <1>4, <1>5

LEMMA PassKeepsInv ==
  ASSUME PrintInv, FormatPass
  PROVE  PrintInv'
<1> DEFINE format == printing.format
           params == printing.params
           n == progress.pos
           out == [mem |-> outBuffer, length |-> outLength]
           item == format[n + 1]
           new == FormatItem(item, progress.argIndex, params, out)
           pieces == PiecesUpTo(format, params, n)
           list == PiecesOf(format, params, n + 1)
<1>1. /\ printing.step = "format" /\ n < Len(format) /\ printing' = printing
      /\ outBuffer' = new.mem /\ outLength' = new.length
      /\ progress' = [pos |-> n + 1,
                      argIndex |-> progress.argIndex
                        + IF TakesArgument(item, progress.argIndex, Len(params)) THEN 1 ELSE 0]
  BY DEF FormatPass
<1>2. /\ format \in PrintFormats /\ params \in Params /\ printing.size # 0
      /\ printing.size \in DestSizes \union {-1} /\ FormatInv
  BY <1>1 DEF PrintInv
<1>3. format \in Seq(Items) /\ Len(format) \in Nat
  BY <1>2, PrintfAssumption DEF PrintfAssumption
<1>4. /\ n \in 0..Len(format) - 1 /\ pieces \in Seq(Seq(Nat))
      /\ progress.argIndex = IF Taken(format, n) < Len(params) THEN Taken(format, n) ELSE Len(params)
      /\ Clean(Whole(pieces)) => Holds(out, pieces)
  BY <1>1, <1>2, <1>3 DEF FormatInv
<1>5. /\ Appends(out, pieces, new, list)
      /\ progress.argIndex + (IF TakesArgument(item, progress.argIndex, Len(params)) THEN 1 ELSE 0)
           = IF Taken(format, n + 1) < Len(params) THEN Taken(format, n + 1) ELSE Len(params)
  <2> HIDE DEF format, params, n, out, pieces
  <2> QED
    BY <1>2, <1>3, <1>4, ItemAppended
<1>6. PiecesUpTo(format, params, n + 1) = pieces \o list /\ list \in Seq(Seq(Nat))
  <2>1. n + 1 \in 1..Len(format)
    BY <1>3, <1>4
  <2> HIDE DEF format, params, n
  <2> QED
    BY <1>2, <1>3, <1>4, <2>1, PiecesGrow, PiecesOfType
<1>7. pieces \o list \in Seq(Seq(Nat))
  BY <1>4, <1>6, ConcatProperties
<1>8. Clean(Whole(pieces \o list)) => Holds(new, pieces \o list)
  BY <1>4, <1>5 DEF Appends
<1>9. n + 1 \in 0..Len(format)
  BY <1>3, <1>4
<1> DEFINE out2 == [mem |-> outBuffer', length |-> outLength']
<1>10. Holds(new, pieces \o list) => Holds(out2, pieces \o list)
  <2>1. out2.mem = new.mem /\ out2.length = new.length
    BY <1>1
  <2> HIDE DEF out2, new, pieces, list
  <2> QED
    BY <2>1 DEF Holds, Text
<1> HIDE DEF new, out, list, pieces, item
<1>11. FormatInv'
  BY <1>1, <1>5, <1>6, <1>7, <1>8, <1>9, <1>10 DEF FormatInv
<1> QED
  BY <1>1, <1>2, <1>11 DEF PrintInv

LEMMA Beginning ==
  ASSUME NEW mem \in Seq(Nat), NEW n \in 0..Len(mem), NEW k \in 0..n
  PROVE  SubSeq(SubSeq(mem, 1, n), 1, k) = SubSeq(mem, 1, k)
<1>1. CASE k = 0
  <2>1. \A s : SubSeq(s, 1, 0) = <<>>
    BY SubSeqEmpty
  <2> QED
    BY <1>1, <2>1
<1>2. CASE k # 0
  <2>1. /\ 1 \in 1..Len(mem) /\ n \in 1..Len(mem) /\ 1 \in 1..n - 1 + 1 /\ k \in 1..n - 1 + 1
        /\ 1 + 1 - 1 = 1 /\ 1 + k - 1 = k
    BY <1>2
  <2>2. SubSeq(SubSeq(mem, 1, n), 1, k) = SubSeq(mem, 1 + 1 - 1, 1 + k - 1)
    BY <2>1, SubSeqOfSubSeq
  <2> QED
    BY <2>1, <2>2
<1> QED
  BY <1>1, <1>2

LEMMA MinOfTwo ==
  ASSUME NEW a \in Nat, NEW b \in Nat
  PROVE  Min({a, b}) \in 0..a
<1>1. \E x \in {a, b} : \A y \in {a, b} : x =< y
  BY SMT
<1>2. Min({a, b}) \in {a, b} /\ \A y \in {a, b} : Min({a, b}) =< y
  BY <1>1 DEF Min
<1> QED
  BY <1>2

\* The last step of a call gives the caller the text of the buffer.
LEMMA DeliveryKeepsInv ==
  ASSUME PrintInv, StreamOut \/ CopyToDest
  PROVE  PrintInv'
<1> DEFINE out == [mem |-> outBuffer, length |-> outLength]
           pieces == PiecesUpTo(printing.format, printing.params, progress.pos)
<1>1. /\ printing.step = "format" /\ progress.pos = Len(printing.format)
      /\ printing' = [printing EXCEPT !.step = "returned"]
      /\ g_m_printf_output_fn' = g_m_printf_output_fn /\ progress' = progress
      /\ outBuffer' = outBuffer /\ outLength' = outLength
  BY DEF StreamOut, CopyToDest, Formatted
<1>2. /\ printing.format \in PrintFormats /\ printing.params \in Params
      /\ printing.size \in DestSizes \union {-1} /\ printing.size # 0 /\ FormatInv
      /\ printing = [step |-> printing.step, format |-> printing.format,
                     params |-> printing.params, size |-> printing.size]
  BY <1>1 DEF PrintInv
<1>3. /\ printing' = [step |-> "returned", format |-> printing.format,
                      params |-> printing.params, size |-> printing.size]
      /\ printing'.step = "returned" /\ printing'.format = printing.format
      /\ printing'.params = printing.params /\ printing'.size = printing.size
  BY <1>1, <1>2
<1>4. FormatInv'
  BY <1>1, <1>2, <1>3 DEF FormatInv
<1>5. Given' = Given
  BY <1>1, <1>3 DEF Given, Text
<1>6. ASSUME Clean(Whole(pieces)) PROVE delivered' = Given
  <2>1. out.mem = outBuffer /\ out.length = outLength
    OBVIOUS
  <2>2. Holds(out, pieces)
    BY <1>2, <1>6 DEF FormatInv
  <2> HIDE DEF out, pieces
  <2>3. /\ outBuffer \in Seq(Nat) /\ Len(outBuffer) = BufferSize
        /\ outLength \in 0..BufferSize - 1 /\ Text(out) = SubSeq(outBuffer, 1, outLength)
    BY <2>1, <2>2 DEF Holds, Text
  <2>4. CASE StreamOut
    <3>1. printing.size = -1 /\ delivered' = IF g_m_printf_output_fn THEN Text(out) ELSE <<>>
      BY <2>3, <2>4 DEF StreamOut
    <3> QED
      BY <3>1 DEF Given, out
  <2>5. CASE CopyToDest
    <3> DEFINE k == Min({outLength, printing.size - 1})
    <3>1. printing.size > 0 /\ delivered' = SubSeq(outBuffer, 1, k)
      BY <2>5 DEF CopyToDest
    <3>2. printing.size - 1 \in Nat /\ outLength \in Nat /\ outLength \in 0..Len(outBuffer)
      BY <1>2, <2>3, <3>1, BufferLimits, PrintfAssumption DEF PrintfAssumption
    <3>3. k \in 0..outLength
      BY <3>2, MinOfTwo
    <3>4. SubSeq(Text(out), 1, k) = SubSeq(outBuffer, 1, k)
      <4> HIDE DEF k
      <4> QED
        BY <2>3, <3>2, <3>3, Beginning
    <3> QED
      BY <3>1, <3>4 DEF Given, out
  <2> QED
    BY <2>4, <2>5
<1> HIDE DEF out
<1>7. /\ progress'.pos = Len(printing'.format)
      /\ PiecesUpTo(printing'.format, printing'.params, progress'.pos) = pieces
  BY <1>1, <1>3
<1> HIDE DEF pieces
<1> QED
  BY <1>2, <1>3, <1>4, <1>5, <1>6, <1>7 DEF PrintInv

LEMMA PrintNextInv == PrintInv /\ [PrintfNext]_printfVars => PrintInv'
<1> SUFFICES ASSUME PrintInv, [PrintfNext]_printfVars PROVE PrintInv'
  OBVIOUS
<1>1. CASE UNCHANGED printfVars
  <2>1. /\ printing' = printing /\ progress' = progress /\ outBuffer' = outBuffer
        /\ outLength' = outLength /\ delivered' = delivered
        /\ g_m_printf_output_fn' = g_m_printf_output_fn
    BY <1>1 DEF printfVars
  <2>2. FormatInv' = FormatInv /\ Given' = Given
    BY <2>1 DEF FormatInv, Given
  <2> QED
    BY <2>1, <2>2 DEF PrintInv
<1>2. ASSUME NEW set \in BOOLEAN, SetOutput(set)
      PROVE  PrintInv'
  <2>1. /\ printing.step = "idle" /\ printing' = printing /\ progress' = progress
        /\ outBuffer' = outBuffer /\ outLength' = outLength
    BY <1>2 DEF SetOutput
  <2> QED
    BY <2>1 DEF PrintInv
<1>3. ASSUME NEW format \in PrintFormats, NEW params \in Params,
             NEW size \in DestSizes \union {-1}, CallPrintf(format, params, size)
      PROVE  PrintInv'
  BY <1>3, CallKeepsInv
<1>4. CASE FormatPass
  BY <1>4, PassKeepsInv
<1>5. CASE StreamOut \/ CopyToDest
  BY <1>5, DeliveryKeepsInv
<1> QED
  BY <1>1, <1>2, <1>3, <1>4, <1>5 DEF PrintfNext

LEMMA PrintInvImplies == PrintInv => PrintsWholePieces
<1> DEFINE pieces == Pieces(printing.format, printing.params)
           whole == Joined(pieces, DOMAIN pieces)
           out == [mem |-> outBuffer, length |-> outLength]
           text == SubSeq(outBuffer, 1, outLength)
<1> SUFFICES ASSUME PrintInv, printing.step = "returned", printing.size # 0,
                    Nul \notin Range(whole)
             PROVE  /\ outLength < BufferSize /\ outBuffer[outLength + 1] = Nul
                    /\ IF Len(whole) < BufferSize THEN text = whole
                       ELSE \E kept \in SUBSET DOMAIN pieces : text = Joined(pieces, kept)
                    /\ delivered =
                         IF printing.size > 0
                         THEN SubSeq(text, 1, Min({outLength, printing.size - 1}))
                         ELSE IF g_m_printf_output_fn THEN text ELSE <<>>
  BY Zenon DEF PrintsWholePieces
<1>1. /\ FormatInv /\ progress.pos = Len(printing.format)
      /\ printing.format \in PrintFormats /\ printing.params \in Params
  BY DEF PrintInv
<1>2. printing.format \in Seq(Items)
  BY <1>1, PrintfAssumption DEF PrintfAssumption
<1>3. pieces = PiecesUpTo(printing.format, printing.params, progress.pos)
  BY <1>1, <1>2, PiecesGrow
<1>4. /\ pieces \in Seq(Seq(Nat)) /\ (Clean(Whole(pieces)) => Holds(out, pieces))
      /\ (Clean(Whole(pieces)) => delivered = Given)
  <2> HIDE DEF pieces
  <2> QED
    BY <1>1, <1>3 DEF FormatInv, PrintInv
<1>5. out.mem = outBuffer /\ out.length = outLength /\ text = Text(out) /\ whole = Whole(pieces)
  BY DEF Text, Whole
<1> HIDE DEF pieces
<1>6. Clean(Whole(pieces))
  <2>1. <<>> \in Seq(Nat)
    OBVIOUS
  <2>2. Whole(pieces) \in Seq(Nat)
    BY <1>4, <2>1, WholeIs
  <2> HIDE DEF whole
  <2>3. \A i \in DOMAIN whole : whole[i] # Nul
    BY DEF Range
  <2> QED
    BY <1>5, <2>2, <2>3 DEF Clean
<1>7. Holds(out, pieces) /\ delivered = Given
  BY <1>4, <1>6
<1> HIDE DEF whole
<1>8. delivered = IF printing.size > 0
                  THEN SubSeq(text, 1, Min({outLength, printing.size - 1}))
                  ELSE IF g_m_printf_output_fn THEN text ELSE <<>>
  BY <1>5, <1>7 DEF Given, out
<1> HIDE DEF out, text
<1>9. outLength \in 0..BufferSize - 1 /\ outBuffer[outLength + 1] = Nul
  BY <1>5, <1>7 DEF Holds
<1>10. outLength < BufferSize
  BY <1>9, BufferLimits
<1>11. IF Len(whole) < BufferSize THEN text = whole
       ELSE \E kept \in SUBSET DOMAIN pieces : text = Joined(pieces, kept)
  BY <1>5, <1>7 DEF Holds
<1> QED
  BY <1>8, <1>9, <1>10, <1>11

\* For every buffer, every list of arguments, every number of bits and every
\* format whose zero padding is no wider than the arrays it is made in
\* (PadFits in PrintfAssumption: the code checks that too late), what
\* m_printf_n and m_snprintf_n deliver is made of whole pieces, one for each
\* conversion, in order and with its own argument; all of them if they fit,
\* and cut only at the room the caller of m_snprintf gave
\* (mPrintf_formatToBuffer, mPrintf_streamOut, mPrintf_cpToDest).
THEOREM PrintsAreWhole == PrintfSpec => []PrintsWholePieces
<1>1. PrintfSpec => []PrintInv
  BY PrintInitInv, PrintNextInv, PTL DEF PrintfSpec
<1> QED
  BY <1>1, PrintInvImplies, PTL
=============================================================================
