---------------------------- MODULE MCPasValues ----------------------------
(***************************************************************************)
(* Values: PasUnicode against UnicodeSpec, the strings and numbers of      *)
(* PasString and PasNumber against what they stand for, over every short   *)
(* input of an alphabet chosen for each question; the text-variables of    *)
(* PasString and the arena of PasArena, whose state the operations change. *)
(***************************************************************************)
EXTENDS UnicodeSpec, ArenaState

CONSTANTS
  MaxScalars, MaxElements, MaxBytes, MaxChars, MaxDigits,
  MaxInt,      \* PAS_MAXINT
  FirstRoom,   \* what a writestr's buffer is grown to first
  RealBuf, ExactFrac, ExactSig,  \* the buffers of pas_write_real
  varX, varY

ASSUME ValuesAssumption ==
  /\ MaxBytes \in Nat /\ MaxChars \in Nat
  /\ MaxInt \in Nat \ {0} /\ FirstRoom \in Nat \ {0}
  /\ RealBuf \in Nat /\ ExactFrac \in Nat /\ ExactSig \in Nat

VARIABLES
  about,                  \* the question
  given,                  \* bytes, code points, characters or digits
  text, failed            \* PasString's
vars == <<about, given, text, failed, arenaVars>>

\* Two text-variables, one of which some values do not fit, and what they are
\* given: a base, a mark, a letter that is not yet composed, one whose upper
\* case is two letters, and bytes that are no text.
TextVars == {varX, varY}
Capacities == [x \in TextVars |-> IF x = varX THEN 5 ELSE 2]
Given == {Encode(cps) : cps \in {<<\h73>>, <<\h323>>, <<\h61, \h30A>>, <<\hDF>>}}
         \cup {<<\hE0, \h80>>}

Str == INSTANCE PasString WITH TextVar <- TextVars, Capacity <- Capacities, Literals <- Given
Num == INSTANCE PasNumber WITH PasMaxInt <- MaxInt, ExpCost <- 100
Arena == INSTANCE PasArena

\* The ends of the ranges of the table of well-formed byte sequences.
Leads == {\h41, \h7F, \h80, \hBF, \hC0, \hC1, \hC2, \hDF, \hE0, \hE1, \hEC, \hED, \hEE,
          \hEF, \hF0, \hF1, \hF3, \hF4, \hF5, \hFF}
Trails == {\h41, \h7F, \h80, \h8F, \h90, \h9F, \hA0, \hBF, \hC0}

Normal == {\h73, \h307, \h323, \h344, \h1E69, \h212B, \h958, \h93C, \h9C7, \h9BE, \h1100,
           \h1161, \h11A7, \h11A8, \hAC00, \h1D160}
Elements == {\h1, \hD, \hA, \h61, \h93C, \h94D, \h915, \h200D, \h1F1E6, \h600, \h903,
             \h1F600, \h1100, \h1161, \h11A8, \hAC01}

\* Characters for strings, the space and the NUL among them.
Chars == {0, 32, 65}

Questions == {"bytes", "normal", "elements", "strings", "reals", "writes", "texts", "arena"}
Init == about \in Questions /\ given = <<>> /\ Str!TextInit /\ Arena!Init

Lengthen(S, max) ==
  /\ Len(given) < max /\ (\E c \in S : given' = Append(given, c))
  /\ UNCHANGED <<text, failed, arenaVars>>

Next ==
  /\ UNCHANGED about
  /\ \/ about = "bytes" /\ given = <<>> /\ Lengthen(Leads, MaxBytes)
     \/ about = "bytes" /\ given # <<>> /\ Lengthen(Trails, MaxBytes)
     \/ about = "normal" /\ Lengthen(Normal, MaxScalars)
     \/ about = "elements" /\ Lengthen(Elements, MaxElements)
     \/ about = "strings" /\ Lengthen(Chars, MaxChars)
     \/ about = "reals" /\ Lengthen(IF given = <<>> THEN 1 .. 9 ELSE {0, 4, 5, 9}, MaxDigits)
     \/ about = "writes" /\ Lengthen(0 .. 5, MaxDigits)
     \/ about = "texts" /\ Str!TextNext /\ UNCHANGED <<given, arenaVars>>
     \/ about = "arena" /\ Arena!CarefulNext /\ UNCHANGED <<given, text, failed>>

Spec == Init /\ [][Next]_vars

Room(s) == 3 * Len(s) + 4

\* The decoder takes exactly the encodings of scalars: no overlong one, no
\* surrogate, nothing past 10FFFF, although each has an ordinary lead byte
\* (u8dec), and validation names the first byte that is in none.
DecoderIsExact ==
  about = "bytes" /\ given # <<>> =>
    LET k == u8dec(given, 0).k
        lengths == {n \in 1 .. Len(given) : IsEncoding(SubSeq(given, 1, n))}
    IN /\ k = (IF lengths = {} THEN 0 ELSE Max(lengths))
       /\ k # 0 => u8enc(u8dec(given, 0).cp) = SubSeq(given, 1, k)
       /\ (pas_text_validate(given) = 0) = (lengths = {})

\* Normalizing one segment at a time gives the normal form of the whole text,
\* whatever starters combine backwards (pas_text_nfc), in three times the bytes
\* and four (as pas_text_cmp sizes its scratch), unless one starter carries more
\* than a segment holds.
SegmentsGiveNormalForm ==
  about = "normal" =>
    LET s == Encode(given)
        r == pas_text_nfc(s, Room(s))
    IN \/ r.n = PAS_TEXT_SEGMENT /\ Len(Decompose(given)) > SegmentMax
       \/ r.n = Len(r.dst) /\ r.dst = Encode(NFC(given))

\* Normalizing twice is normalizing once, and canonically equivalent texts
\* have one normal form: the text decomposed, and two marks of different
\* classes the other way round.
NormalFormIsCanonical ==
  about = "normal" =>
    LET Form(cps) == pas_text_nfc(Encode(cps), Room(Encode(cps)))
        form == Form(given)
        swappable == {i \in 1 .. Len(given) - 1 :
                        /\ u_ccc(given[i]) # 0 /\ u_ccc(given[i + 1]) # 0
                        /\ u_ccc(given[i]) # u_ccc(given[i + 1])}
    IN form.n >= 0 =>
         /\ pas_text_nfc(form.dst, Room(form.dst)).dst = form.dst
         /\ Form(Decompose(given)).dst = form.dst
         /\ \A i \in swappable :
              Form([given EXCEPT ![i] = given[i + 1], ![i + 1] = given[i]]).dst = form.dst

\* Scanning anew from each boundary finds the boundaries of the whole text:
\* the flags before it, the joined pictographs and the conjuncts, which look
\* further back than one character (pas_text_next), and a text is as wide
\* as the first characters of its elements (pas_text_columns).
ElementsAreClusters ==
  about = "elements" =>
    LET s == Encode(given)
        first == {j \in DOMAIN given : j = 1 \/ Boundary(given, j)}
        offset(i) == ByteLength(SubSeq(given, 1, i - 1))
        width(i) == range_lookup_or(pas_u_width, given[i], 1)
    IN /\ Starts(s) = {offset(i) : i \in first}
       /\ pas_text_columns(s) = MapThenSumSet(width, first)

\* Whatever is assigned, joined, mapped or taken as an element, a text-variable
\* holds well-formed bytes in normal form that fit it: pas_text_take does not
\* normalize, and a case mapping undoes compositions (pas_text_store is the
\* only door that does).
TextsInNormalForm ==
  about = "texts" =>
    \A x \in TextVars :
      /\ pas_text_validate(text[x]) = -1 /\ Len(text[x]) <= Capacities[x]
      /\ pas_text_nfc(text[x], Room(text[x])).dst = text[x]

\* What those that are texts have as their normal form, and whether a library is
\* told beforehand what an assignment of each does.
FormOf ==
  [s \in {t \in Given : pas_text_validate(t) = -1} |-> Encode(NFC(Decoded(s, 0)))]
ChecksAgree ==
  \A s \in Given, x \in TextVars :
    (Str!pasx_text_check(s, Capacities[x]) = 0)
      = (Str!pas_text_store(Capacities[x], s).error = "")

\* A join that is made is the normal form of the whole, so how its parts were
\* bracketed makes no difference; a text taken apart into its elements and
\* joined again is itself; a text compares equal to exactly the strings that
\* are canonically equivalent to it (pas_text_concat, pas_text_cmp); and what a
\* library is told before it assigns, and the elements and characters it walks,
\* are those of the language (pasx_text_check, pasx_text_element).
JoinsAreOfTheWhole ==
  about = "texts" /\ failed = "" =>
      LET a == text[varX]
          b == text[varY]
          joined == Str!pas_text_concat(a, b, 0)
          Element(s, i) == SubSeq(s, i + 1, Str!pas_text_boundary(s, i))
          Rejoined(s) ==
            LET starts == Starts(s)
            IN FoldLeft(LAMBDA acc, i :
                          IF i - 1 \in starts
                            THEN Str!pas_text_concat(acc, Element(s, i - 1), 0).value ELSE acc,
                        <<>>, [i \in 1 .. Len(s) |-> i])
      IN /\ joined.error = "" =>
              /\ joined.value = Encode(NFC(Decoded(a \o b, 0)))
              /\ Rejoined(joined.value) = joined.value
         /\ \A s \in DOMAIN FormOf :
              (Str!pas_text_cmp(a, s, TRUE).value = <<0>>) = (FormOf[s] = a)
         /\ ChecksAgree
         /\ Str!pas_text_length(a) = Cardinality(Starts(a))
         /\ a # <<>> /\ u_ccc(Decoded(a, 0)[1]) = 0 =>
              Str!pas_text_length(Str!pas_write_text(a, 3)) = Max({3, Str!pas_text_length(a)})
         /\ \A i \in Starts(a) :
              /\ Str!pasx_text_element(a, i + 1) = Str!pas_text_boundary(a, i) + 1
              /\ Str!pasx_text_columns(a) >= Str!pasx_text_columns(Element(a, i))
              /\ u8enc(Str!pasx_text_scalar(a, i + 1).cp)
                   = SubSeq(a, i + 1, Str!pasx_text_scalar(a, i + 1).next - 1)

\* "composition removes code points and never adds any -- so la + lb is an
\* upper bound on the result": joining two texts never fails.
JoinsFit == failed # "join"

\* The operators order strings as though all were extended with spaces: values
\* compare equal exactly when they are equal trimmed, whichever way the string
\* was stored or padded, and for values of one length as EQ and LT do
\* (pas_str_cmp_pad, pas_str_cmp_exact); index finds the first occurrence and
\* substr cuts it out, wherever s[lo..hi] would; and a string crosses to a
\* foreign routine and back, in the room it took, or is refused (pas_str_cstr).
StringsCompareTrimmed ==
  about = "strings" =>
    /\ \A lo, hi \in -1 .. Len(given) + 1 :
         /\ Str!pas_slice_check(lo, hi, Len(given))
              = Str!pas_str_slice_check(lo, hi - lo + 1, Len(given))
         /\ \A emptyok \in BOOLEAN :
              Str!pas_str_substr_check(lo, hi, Len(given), emptyok)
                = (Str!pas_slice_check(lo, hi, Len(given)) /\ (hi >= lo \/ emptyok))
    /\ \A k \in 0 .. Len(given) :
      LET a == SubSeq(given, 1, k)
          b == SubSeq(given, k + 1, Len(given))
          Trimmed(s) == SubSeq(s, 1, Str!pas_str_trimlen(s))
          padded == Str!pas_str_pad(MaxChars, a)
          at == Str!pas_str_index(given, b)
          foreign == Str!pas_str_cstr(a)
      IN /\ (Str!pas_str_cmp_pad(a, b) = 0) = (Trimmed(a) = Trimmed(b))
         /\ Str!pas_str_cmp_pad(a, b) = -Str!pas_str_cmp_pad(b, a)
         /\ Len(a) <= 1 => Str!pas_str_cmp_pad(Str!pas_str_store_char(a).value, a) = 0
         /\ Len(a) = 1 => Str!pas_str_concat(Str!pas_str_char(a[1]).value, b).value = given
         /\ Str!pas_str_cmp_pad(padded.value, b) = Str!pas_str_cmp_pad(a, b)
         /\ Len(a) = Len(b) => Str!pas_str_cmp_pad(a, b) = Str!pas_str_cmp_exact(a, b)
         /\ at \in 1 .. k + 1 /\ Str!pas_str_slice_check(at, Len(b), Len(given))
         /\ b # <<>> => ~Str!pas_str_slice_check(at + k + 1, Len(b), Len(given))
         /\ SubSeq(given, at, at + Len(b) - 1) = b
         /\ foreign.error = "" => Len(foreign.value) = foreign.takes
                                  /\ Str!pas_cstr_take(MaxChars, foreign.value).value = a

\* The months of each year make the Gregorian calendar, whose count of days
\* before a year leaves out one leap day in a hundred years but not in four
\* hundred; and what GetTimeStamp answers, whatever instant the clock or
\* SOURCE_DATE_EPOCH names, is a day of that calendar and a time whose second is
\* one of 0..59.  The day need not be one that date can write: the stamp of a
\* year outside 1..9999 is as valid as any, and date refuses exactly those
\* (pas_days_in_month, pas_gettimestamp, pas_date).
Days(y) ==
  LET To[m \in 0 .. 12] == IF m = 0 THEN 0 ELSE To[m - 1] + Num!pas_days_in_month(y, m)
  IN To[12]
DaysBefore(y) ==
  365 * (y - 1) + ((y - 1) \div 4) - ((y - 1) \div 100) + ((y - 1) \div 400)
\* hhmmss.
TimeOfDay(n) ==
  /\ n \in Nat /\ (n \div 100) \div 100 < 24 /\ (n \div 100) % 100 < 60 /\ n % 100 < 60
StampIsDate(named, calendar, clock) ==
  LET s == Num!pas_gettimestamp(named, calendar, clock)
  IN /\ s[4] \in 1 .. 12 /\ s[5] \in 1 .. Num!pas_days_in_month(s[3], s[4])
     /\ (Num!pas_date(s[3], s[4], s[5]) # <<>>) = (s[3] \in Num!Years)
     /\ s[8] \in 0 .. 59
     /\ TimeOfDay(Num!Natural(Num!pas_time(s[6], s[7], s[8])))
     /\ s[1] = ((IF named THEN calendar ELSE clock) # Num!NoTime)
StampsAreDates ==
  /\ \A y \in 1 .. 401 : Days(y) = DaysBefore(y + 1) - DaysBefore(y)
  /\ \A named \in BOOLEAN :
       \A calendar, clock \in {Num!NoTime, <<70, 0, 1, 0, 0, 60>>, <<100, 1, 29, 23, 59, 59>>,
                               <<8100, 0, 1, 0, 0, 0>>, <<-1900, 11, 31, 23, 59, 59>>} :
         StampIsDate(named, calendar, clock)

Power(x, n) == LET P[i \in 0 .. n] == IF i = 0 THEN 1 ELSE x * P[i - 1] IN P[n]
Ten(k) == Power(10, k)

\* n over the k-th power of ten, rounded half up.
Rounded(n, k) == IF k <= 0 THEN n * Ten(-k) ELSE (n + 5 * Ten(k - 1)) \div Ten(k)
RealOf(digits, e) == [negative |-> TRUE, digits |-> digits, exp |-> e]

\* The digits before the point, and what a double can be: its digits, and those
\* on either side of the point.
IntPlaces(e) == IF e < 0 THEN 1 ELSE e + 1
IsExact(digits, e) ==
  /\ Len(digits) <= ExactSig /\ Len(digits) - 1 - e <= ExactFrac
  /\ IntPlaces(e) + ExactFrac + 3 <= RealBuf

FixedIsRounded(digits, e, prec, width) ==
  LET w == Num!WriteFixed(RealOf(digits, e), width, prec)
      m == Rounded(Num!Natural(digits), Len(digits) - 1 - e - prec)
      fits == IntPlaces(e) + prec + 3 <= RealBuf
  IN IsExact(digits, e) =>
       /\ Len(w.frac) = prec /\ fits = (\A i \in 1 .. prec : w.frac[i] # Num!Stray)
       /\ fits => /\ Num!Natural(w.int \o w.frac) = m
                  /\ (Len(w.int) > 1 => w.int[1] # 0)
                  /\ w.minus = (m # 0)

FloatIsRounded(digits, e, width) ==
  LET w == Num!WriteFloat(RealOf(digits, e), width)
      places == Len(w.frac)
      m == Rounded(Num!Natural(digits), Len(digits) - 1 - places)
      over == m = Ten(places + 1)
      fits == places <= ExactSig
  IN Len(digits) <= ExactSig =>
       /\ places > 0 /\ fits = (\A i \in 1 .. places : w.frac[i] # Num!Stray)
       /\ fits => /\ Num!Natural(<<w.lead>> \o w.frac) = IF over THEN Ten(places) ELSE m
                  /\ w.exp = IF over THEN e + 1 ELSE e
                  /\ w.lead # 0
                  /\ ~(over /\ e = 99) => places + w.expDigits + 5 = w.actWidth

\* A negative power is that of the integer quotient of 1 by the base.
PowerIsExact(x, y) ==
  LET p == Num!pas_pow_int(x, y)
      Quotient == IF x = 1 THEN 1 ELSE IF x # -1 THEN 0 ELSE IF y % 2 = 0 THEN 1 ELSE -1
  IN IF x = 0 /\ y <= 0
       THEN /\ p.error = "undefined" /\ Num!pas_pow_real(x, y) = "undefined"
            /\ Num!pas_pow_realint(x, y) = "undefined"
     ELSE IF y < 0 THEN p = Num!Answer(Quotient)
     ELSE IF Num!Magnitude(Power(x, y)) <= MaxInt THEN p = Num!Answer(Power(x, y))
     ELSE p.error = "overflow"

\* A real is written rounded half away from zero from its exact expansion, in
\* either form, as long as the digits asked for are no more than the form's
\* buffer holds, past which come bytes that are no digits; the floating-point
\* form has a digit that is not zero before the point and is exactly as wide as
\* was asked for, unless the rounding itself carries into an exponent of three
\* digits (pas_write_real); an integer power is exact or refused, never wrapped
\* (pas_pow_int); and stamps are days of the calendar.
NumbersAreRounded ==
  /\ about = "reals" /\ given = <<>> => StampsAreDates
  /\ about = "reals" /\ given # <<>> =>
       /\ \A e \in -2 .. 1, prec \in {0, 1, 2, 5, 6, 7}, width \in {0, 5} :
            FixedIsRounded(given, e, prec, width)
       /\ \A e \in {-101, -100, -99, -1, 0, 98, 99, 100}, width \in {-1, 0, 9, 11, 12} :
            FloatIsRounded(given, e, width)
       /\ \A y \in -3 .. 4 : PowerIsExact(given[1] - 5, y)

\* One store into a writestr's buffer, and whether it and every one before it
\* was inside it; a value is put after the spaces that go one at a time.
Stored(mem, n) ==
  [to |-> Num!pas_swrite(mem.to, n),
   ok |-> mem.ok /\ Num!pas_swrite(mem.to, n).nul <= Num!pas_swrite(mem.to, n).cap]
Put(mem, w) ==
  LET Spaces[j \in 0 .. w.pad] == IF j = 0 THEN mem ELSE Stored(Spaces[j - 1], 1)
  IN Stored(Spaces[w.pad], w.chars)
Fresh == [to |-> Num!pas_str_write_begin, ok |-> TRUE]

\* A character, an integer of three digits, the Booleans, and strings; and the
\* characters that each is in all.
Value(n, width) ==
  IF n = 1 THEN Num!pas_write_char(width)
  ELSE IF n = 3 THEN Num!pas_write_int(n, width)
  ELSE IF n \in {4, 5} THEN Num!pas_write_bool(n = 4, width)
  ELSE Num!pas_write_padded(n, width)
Wide(n, width) == IF width < 0 \/ (n = 3 /\ width < n) THEN n ELSE width

\* However the values of a writestr and their widths follow each other, be they
\* strings, characters, integers or Booleans, each store is inside the buffer as
\* it was last grown, the NUL included, and the buffer ends holding what was
\* written (pas_mem_room, pas_swrite).
WritestrFits ==
  about = "writes" =>
    \A width \in {-1, 0, 3, 4} :
      LET Width(i) == IF i % 2 = 0 THEN width ELSE -1
          Written[i \in 0 .. Len(given)] ==
            IF i = 0 THEN Fresh ELSE Put(Written[i - 1], Value(given[i], Width(i)))
          Total[i \in 0 .. Len(given)] ==
            IF i = 0 THEN 0 ELSE Total[i - 1] + Wide(given[i], Width(i))
      IN /\ Written[Len(given)].ok
         /\ Written[Len(given)].to.len = Total[Len(given)]
=============================================================================
