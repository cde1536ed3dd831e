------------------------------ MODULE PasNumber ------------------------------
(***************************************************************************)
(* Numbers, dates and characters as they are written (runtime/pasrt.c),    *)
(* integer exponentiation, and the buffer of a writestr.                   *)
(*                                                                         *)
(* A finite real is its exact decimal expansion: a sign, digits of which   *)
(* the first is not zero (or the one digit zero), and the decimal exponent *)
(* of the first.  What is written is a record of the parts it is made of.  *)
(***************************************************************************)
EXTENDS Integers, Sequences, SequencesExt, FiniteSetsExt

CONSTANTS
  PasMaxInt,   \* PAS_MAXINT
  ExpCost,     \* the exponent from which three digits are written: 100
  FirstRoom,   \* what a writestr's buffer is grown to first: 128
  RealBuf,     \* PAS_REALBUF: the bytes of the fixed-point form's buffer
  ExactFrac,   \* PAS_EXACT_FRAC: the digits after the point of a double at most
  ExactSig     \* PAS_EXACT_SIG: its significant digits at most

Zeros(n) == [i \in 1 .. n |-> 0]
Natural(digits) ==
  LET Of[i \in 0 .. Len(digits)] == IF i = 0 THEN 0 ELSE 10 * Of[i - 1] + digits[i]
  IN Of[Len(digits)]
IsZero(r) == r.digits = <<0>>

\* The digits before and after the point, and as many as are asked for.
IntDigits(r) ==
  IF r.exp < 0 THEN <<0>>
  ELSE SubSeq(r.digits \o Zeros(r.exp + 1), 1, r.exp + 1)
FracDigits(r, want) ==
  LET all == IF r.exp < 0 THEN Zeros(-r.exp - 1) \o r.digits
             ELSE SubSeq(r.digits, r.exp + 2, Len(r.digits))
  IN SubSeq(all \o Zeros(want), 1, want)

-----------------------------------------------------------------------------
(* Reals.                                                                  *)

\* As C's printf rounds: a half goes to the even digit.
Mutantpas_round_half_up(d, keep) ==
  LET up == keep < Len(d) /\ (d[keep + 1] > 5 \/ (d[keep + 1] = 5 /\ keep > 0 /\ d[keep] % 2 = 1))
      rises == {i \in 1 .. keep : d[i] # 9}
      last == IF rises = {} THEN 0 ELSE Max(rises)
      kept == SubSeq(d, 1, IF keep < Len(d) THEN keep ELSE Len(d))
  IN [carry |-> up /\ rises = {},
      d |-> IF ~up THEN kept
            ELSE [i \in 1 .. keep |-> IF i > last THEN 0 ELSE IF i = last THEN d[i] + 1 ELSE d[i]]]

\* Half up at position keep; the nines before it become zeros, and a carry
\* out of the top is reported.
pas_round_half_up(d, keep) ==
  LET up == keep < Len(d) /\ d[keep + 1] >= 5
      rises == {i \in 1 .. keep : d[i] # 9}
      last == IF rises = {} THEN 0 ELSE Max(rises)
      kept == SubSeq(d, 1, IF keep < Len(d) THEN keep ELSE Len(d))
  IN [carry |-> up /\ rises = {},
      d |-> IF ~up THEN kept
            ELSE [i \in 1 .. keep |-> IF i > last THEN 0 ELSE IF i = last THEN d[i] + 1 ELSE d[i]]]

pas_digits_all_zero(d) == \A i \in DOMAIN d : d[i] = 0

\* The n bytes after the first ones of d, as they are found in its buffer: what
\* lies past the digits is some byte, and no digit of the value.
Stray == 10
Found(d, first, n) ==
  [i \in 1 .. n |-> IF first + i <= Len(d) THEN d[first + i] ELSE Stray]

\* The fixed-point form.  A spare digit in front takes the carry; the buffer
\* holds it, the digits before the point, the point, a NUL, and as many of the
\* digits after the point as there is room for.
WriteFixed(r, width, prec) ==
  LET ilen == 1 + Len(IntDigits(r))
      want == Max({prec + 1, ExactFrac})
      flen == Min({want, RealBuf - 3 - Len(IntDigits(r))})
      d == pas_round_half_up(<<0>> \o IntDigits(r) \o FracDigits(r, flen), ilen + prec).d
      first == Min({i \in 1 .. ilen : d[i] # 0} \cup {ilen})
      negative == r.negative /\ ~pas_digits_all_zero(d)
      chars == (ilen - first + 1) + prec + 1 + (IF negative THEN 1 ELSE 0)
  IN [pad |-> Max({0, width - chars}), minus |-> negative,
      int |-> SubSeq(d, first, ilen), frac |-> Found(d, ilen, prec)]

Magnitude(n) == IF n < 0 THEN -n ELSE n
ExpDigits(e) == IF Magnitude(e) >= ExpCost THEN 3 ELSE 2
NumDigits(n) == IF n < 10 THEN 1 ELSE IF n < 100 THEN 2 ELSE 3

\* The floating-point form.  The buffer holds one digit more than a double
\* has.  The digits after the point are counted before the rounding, the digits
\* of the exponent after it.
WriteFloat(r, width) ==
  LET e == IF IsZero(r) THEN 0 ELSE r.exp
      actWidth == Max({ExpDigits(e) + 6, IF width < 0 THEN ExpDigits(e) + 17 ELSE width})
      decPlaces == actWidth - ExpDigits(e) - 5
      buf == SubSeq(r.digits \o Zeros(ExactSig + 1), 1, ExactSig + 1)
      rounded == pas_round_half_up(buf, 1 + decPlaces)
      d == IF rounded.carry THEN <<1>> \o rounded.d ELSE rounded.d
      exp == IF rounded.carry THEN e + 1 ELSE e
      expDigits == IF rounded.carry THEN Max({ExpDigits(e), ExpDigits(exp)}) ELSE ExpDigits(e)
  IN [minus |-> r.negative /\ ~pas_digits_all_zero(d), lead |-> d[1],
      frac |-> Found(d, 1, decPlaces), exp |-> exp,
      expDigits |-> Max({expDigits, NumDigits(Magnitude(exp))}), actWidth |-> actWidth]

-----------------------------------------------------------------------------
(* The other values, as the spaces stored one at a time and the characters *)
(* stored at once: an integer or a character goes with its padding.        *)

pas_write_padded(len, width) ==
  IF width < 0 THEN [pad |-> 0, chars |-> len]
  ELSE IF width > len THEN [pad |-> width - len, chars |-> len]
  ELSE [pad |-> 0, chars |-> width]
pas_write_bool(val, width) == pas_write_padded(IF val THEN 4 ELSE 5, width)
pas_write_int(len, width) == [pad |-> 0, chars |-> Max({len, width})]
pas_write_char(width) ==
  [pad |-> 0, chars |-> IF width = 0 THEN 0 ELSE Max({1, width})]

\* No room for the NUL that follows what is put.
Mutantpas_mem_room(cap, len, n) ==
  LET want == len + n
      Grown[c \in Nat] == IF c < want THEN Grown[c * 2] ELSE c
  IN IF want <= cap THEN cap ELSE Grown[Max({cap, FirstRoom})]

\* A writestr's buffer of cap bytes that hold len, before n more are put.
pas_mem_room(cap, len, n) ==
  LET want == len + n + 1
      Grown[c \in Nat] == IF c < want THEN Grown[c * 2] ELSE c
  IN IF want <= cap THEN cap ELSE Grown[Max({cap, FirstRoom})]

\* The buffer of a new writestr: none yet.
pas_str_write_begin == [cap |-> 0, len |-> 0, nul |-> 0]

\* The bytes go after those that are there, and a NUL after them.
pas_swrite(mem, n) ==
  [cap |-> pas_mem_room(mem.cap, mem.len, n), len |-> mem.len + n, nul |-> mem.len + n + 1]

-----------------------------------------------------------------------------
(* Exponentiation, and the calendar.                                       *)

Answer(n) == [error |-> "", n |-> n]
Refused(why) == [error |-> why, n |-> 0]

\* Repeated multiplication, tested after each; a negative exponent takes the
\* integer quotient of 1 by the base first.
pas_pow_int(x, y) ==
  LET base == IF y < 0 THEN (IF Magnitude(x) = 1 THEN x ELSE 0) ELSE x
      Overflow == PasMaxInt + 1
      Acc[i \in 0 .. Magnitude(y)] ==
        IF i = 0 THEN 1
        ELSE LET acc == Acc[i - 1] * base
             IN IF Acc[i - 1] = Overflow \/ Magnitude(acc) > PasMaxInt THEN Overflow ELSE acc
  IN IF x = 0 /\ y <= 0 THEN Refused("undefined")
     ELSE IF x = 0 THEN Answer(0)
     ELSE IF y = 0 THEN Answer(1)
     ELSE IF base = 0 THEN Answer(0)
     ELSE IF Acc[Magnitude(y)] = Overflow THEN Refused("overflow")
     ELSE Answer(Acc[Magnitude(y)])

\* 0 ** y and 0 pow y, and a negative base of **.
pas_pow_real(x, y) ==
  IF x = 0 /\ y <= 0 THEN "undefined" ELSE IF x < 0 THEN "negative" ELSE ""
pas_pow_realint(x, y) == IF x = 0 /\ y <= 0 THEN "undefined" ELSE ""

pas_days_in_month(y, m) ==
  IF m = 2 /\ y % 4 = 0 /\ (y % 100 # 0 \/ y % 400 = 0) THEN 29
  ELSE <<31, 28, 31, 30, 31, 30, 31, 31, 30, 31, 30, 31>>[m]

\* The years that can be written; ten characters: year, month, day; <<>> is the
\* error.
Years == 1 .. 9999
pas_date(y, m, d) ==
  IF y \notin Years \/ m \notin 1 .. 12 \/ d < 1 THEN <<>>
  ELSE IF d > pas_days_in_month(y, m) THEN <<>>
  ELSE <<y \div 1000, (y \div 100) % 10, (y \div 10) % 10, y % 10,
         m \div 10, m % 10, d \div 10, d % 10>>
pas_time(h, m, s) == <<h \div 10, h % 10, m \div 10, m % 10, s \div 10, s % 10>>

\* The fields of a time stamp: from the instant SOURCE_DATE_EPOCH names when
\* it names one, and otherwise from the clock; NoTime is what the calendar
\* cannot express, and what a clock that fails answers.
NoTime == <<>>
pas_gettimestamp(named, calendar, clock) ==
  LET t == IF named THEN calendar ELSE clock
  IN IF t = NoTime THEN <<FALSE, FALSE, 1, 1, 1, 0, 0, 0>>
     ELSE <<TRUE, TRUE, t[1] + 1900, t[2] + 1, t[3], t[4], t[5],
            IF t[6] > 59 THEN 59 ELSE t[6]>>
=============================================================================
