---------------------------- MODULE PasTextProofs ----------------------------
(***************************************************************************)
(* Proofs about PasText, for every text, every limit of an integer and     *)
(* every capacity of a string: the two cells of give-back are enough, and  *)
(* the lookahead, the give-back and the loops that read lines, strings and *)
(* numbers implement the text of the standard (TextSpec).                  *)
(*                                                                         *)
(* The argument follows the C code: what one step of the lookahead does to *)
(* the place in the text (Fill, Consumed, Unread), then what each loop     *)
(* comes to, then what the parts of a number come to, and last that this   *)
(* is the longest prefix that the grammar admits.                          *)
(***************************************************************************)
EXTENDS PasText, TLAPS, SequenceTheorems, WellFoundedInduction

-----------------------------------------------------------------------------
(* Natural numbers and functions defined by recursion.                     *)

\* A set of natural numbers that is not empty has a least member.
LEMMA LeastNatural ==
  ASSUME NEW T, T \subseteq Nat, T # {}
  PROVE  \E x \in T : \A y \in T : x <= y
<1>1. PICK x \in T : \A y \in T : <<y, x>> \notin OpToRel(<, Nat)
  BY WFMin, NatLessThanWellFounded
<1>2. \A y \in T : ~(y < x)
  BY <1>1 DEF OpToRel
<1>. QED BY <1>2

\* What holds at 0 and passes from each turn to the next holds at the last.
LEMMA TurnInduction ==
  ASSUME NEW n \in Nat, NEW P, 0 \in P, \A i \in 1 .. n : i - 1 \in P => i \in P
  PROVE  \A i \in 0 .. n : i \in P
<1>. DEFINE bad == {i \in 0 .. n : i \notin P}
<1>. SUFFICES ASSUME bad # {} PROVE FALSE
  OBVIOUS
<1>1. bad \subseteq Nat
  OBVIOUS
<1>2. PICK x \in bad : \A y \in bad : x <= y
  BY <1>1, LeastNatural
<1>3. x \in 1 .. n /\ x - 1 \in 0 .. n
  BY <1>2
<1>4. x - 1 \in P
  BY <1>2, <1>3
<1>. QED BY <1>2, <1>3, <1>4

\* A function on 0 .. n may be defined by its first value and by what makes each
\* value out of the one before.
IsRun(t, n, S, a, G) ==
  t \in [0 .. n -> S] /\ t[0] = a /\ \A i \in 1 .. n : t[i] = G[i][t[i - 1]]

LEMMA RunExists ==
  ASSUME NEW n \in Nat, NEW S, NEW a \in S, NEW G \in [1 .. n -> [S -> S]]
  PROVE  \E t : IsRun(t, n, S, a, G)
<1>. DEFINE Run(t, k) == t[0] = a /\ \A i \in 1 .. k : t[i] = G[i][t[i - 1]]
            P == {k \in 0 .. n : \E t \in [0 .. k -> S] : Run(t, k)}
<1>1. 0 \in P
  <2>. DEFINE t == [i \in 0 .. 0 |-> a]
  <2>1. t \in [0 .. 0 -> S] /\ Run(t, 0)
    OBVIOUS
  <2>2. \E u \in [0 .. 0 -> S] : Run(u, 0)
    BY <2>1, Zenon
  <2>. HIDE DEF Run
  <2>. QED BY <2>2
<1>2. ASSUME NEW k \in 1 .. n, k - 1 \in P PROVE k \in P
  <2>1. PICK t \in [0 .. k - 1 -> S] : Run(t, k - 1)
    BY <1>2
  <2>. DEFINE u == [i \in 0 .. k |-> IF i = k THEN G[k][t[k - 1]] ELSE t[i]]
  <2>2. t[k - 1] \in S /\ G[k] \in [S -> S]
    BY <1>2, <2>1
  <2>3. G[k][t[k - 1]] \in S
    BY <2>2
  <2>4. u \in [0 .. k -> S]
    BY <1>2, <2>1, <2>3
  <2>5. u[0] = a
    BY <1>2, <2>1
  <2>6. \A i \in 1 .. k : u[i] = G[i][u[i - 1]]
    BY <1>2, <2>1
  <2>7. \E w \in [0 .. k -> S] : Run(w, k)
    BY <2>4, <2>5, <2>6, Zenon
  <2>. HIDE DEF Run
  <2>. QED BY <1>2, <2>7
<1>. HIDE DEF P
<1>3. \A i \in 1 .. n : i - 1 \in P => i \in P
  BY <1>2
<1>4. \A i \in 0 .. n : i \in P
  BY ONLY n \in Nat, <1>1, <1>3, TurnInduction
<1>5. n \in P
  BY <1>4
<1>6. PICK t \in [0 .. n -> S] : Run(t, n)
  BY <1>5 DEF P
<1>. QED BY <1>6, Zenon DEF IsRun

\* The largest and the least of a set of numbers that has one.
LEMMA LargestIs ==
  ASSUME NEW S, S \subseteq Int, NEW m \in S, \A x \in S : x <= m
  PROVE  Std!Max(S) = m
<1>1. \E x \in S : \A y \in S : x >= y
  OBVIOUS
<1>2. Std!Max(S) \in S /\ \A y \in S : Std!Max(S) >= y
  BY <1>1, Zenon DEF Std!Max
<1>3. Std!Max(S) >= m /\ Std!Max(S) <= m /\ Std!Max(S) \in Int /\ m \in Int
  BY <1>2, Zenon
<1>. QED BY <1>3

LEMMA LeastIs ==
  ASSUME NEW S, S \subseteq Int, NEW m \in S, \A x \in S : m <= x
  PROVE  Std!Min(S) = m
<1>1. Std!Min(S) \in S /\ \A y \in S : Std!Min(S) <= y
  BY Zenon DEF Std!Min
<1>2. Std!Min(S) <= m /\ m <= Std!Min(S) /\ Std!Min(S) \in Int /\ m \in Int
  BY <1>1, Zenon
<1>. QED BY <1>2

-----------------------------------------------------------------------------
(* The characters, and the components of a text.                           *)

C == Std!TextComponent

\* The classes of characters that the loops tell apart do not overlap, and the
\* two modules name the same ones.
LEMMA Classes ==
  /\ EOF \notin C /\ NL \in C /\ " " \in C /\ "." \in C /\ "e" \in C /\ FF \in C
  /\ Digit \subseteq C /\ Sign \subseteq C /\ Std!Char \subseteq C
  /\ NL \notin Std!Char /\ FF \notin Std!Char /\ " " \in Std!Char
  /\ Digit \cap Sign = {} /\ NL \notin Digit \cup Sign /\ " " \notin Digit \cup Sign
  /\ "." \notin Digit \cup Sign /\ "e" \notin Digit \cup Sign /\ EOF \notin Digit \cup Sign
  /\ NL # " " /\ "." # "e" /\ NL # FF
BY DEF C, Std!TextComponent, Std!Char, Std!Digit, Std!Sign, Std!NL, Std!FF, Digit, Sign, NL, FF, EOF

LEMMA SameClasses ==
  /\ Std!Digit = Digit /\ Std!Sign = Sign /\ Std!NL = NL /\ Std!FF = FF
  /\ Std!Blank = {" ", NL}
BY DEF Std!Digit, Std!Sign, Std!NL, Std!FF, Digit, Sign, NL, FF, Std!Blank

LEMMA DigitValues == Std!DigitValue = DigitValue /\ DigitValue \in [Digit -> 0 .. 9]
<1>1. Std!DigitValue = DigitValue
  BY DEF Std!DigitValue, DigitValue, Std!Digit, Digit
<1>2. DigitValue \in [Digit -> 0 .. 9]
  BY DEF DigitValue, Digit
<1>. QED BY <1>1, <1>2

\* The components of a text being read: those that are stored, and the line
\* marker that ends a text whose last line was not ended.
Total == Len(text) + (IF Unended THEN 1 ELSE 0)
Comp(i) == IF i <= Len(text) THEN text[i] ELSE NL

LEMMA TotalIs ==
  ASSUME text \in Seq(C)
  PROVE  /\ Len(text) \in Nat /\ Total \in Nat /\ Len(text) <= Total /\ Total <= Len(text) + 1
         /\ \A i \in 1 .. Total : Comp(i) \in C
         /\ \A i \in 1 .. Len(text) : Comp(i) = text[i]
<1>1. Len(text) \in Nat /\ \A i \in 1 .. Len(text) : text[i] \in C
  BY LenProperties, ElementOfSeq
<1>2. Total \in Nat /\ Len(text) <= Total /\ Total <= Len(text) + 1
  BY <1>1 DEF Total
<1>3. \A i \in 1 .. Len(text) : Comp(i) = text[i]
  BY <1>1 DEF Comp
<1>4. NL \in C
  BY Classes
<1>5. \A i \in 1 .. Total : Comp(i) \in C
  BY <1>1, <1>2, <1>4 DEF Comp
<1>. QED BY <1>1, <1>2, <1>3, <1>5

\* The part of a text between two places.
Span(a, b) == [i \in 1 .. b - a |-> Comp(a + i)]

LEMMA SpanIs ==
  ASSUME text \in Seq(C), NEW a \in Nat, NEW b \in a .. Total
  PROVE  /\ Span(a, b) \in Seq(C) /\ Len(Span(a, b)) = b - a
         /\ \A i \in 1 .. b - a : Span(a, b)[i] = Comp(a + i)
<1>1. b - a \in Nat
  BY TotalIs
<1>2. \A i \in 1 .. b - a : Comp(a + i) \in C
  BY TotalIs
<1>3. Span(a, b) \in [1 .. b - a -> C]
  BY <1>2 DEF Span
<1>4. Span(a, b) \in Seq(C) /\ Len(Span(a, b)) = b - a
  BY <1>1, <1>3
<1>. QED BY <1>4 DEF Span

LEMMA TerminatedIs ==
  ASSUME text \in Seq(C)
  PROVE  Std!Terminated(text) = Span(0, Total)
<1>1. /\ Len(text) \in Nat /\ Total \in Nat /\ 0 \in Nat /\ Total \in 0 .. Total
      /\ \A i \in 1 .. Len(text) : Comp(i) = text[i]
  BY TotalIs
<1>2. /\ Span(0, Total) \in Seq(C) /\ Len(Span(0, Total)) = Total
      /\ \A i \in 1 .. Total : Span(0, Total)[i] = Comp(i)
  <2>1. /\ Span(0, Total) \in Seq(C) /\ Len(Span(0, Total)) = Total - 0
        /\ \A i \in 1 .. Total - 0 : Span(0, Total)[i] = Comp(0 + i)
    BY ONLY <1>1, text \in Seq(C), SpanIs
  <2>. QED BY <1>1, <2>1
<1>3. CASE Unended
  <2>1. Std!Terminated(text) = Append(text, NL)
    BY <1>3, SameClasses DEF Std!Terminated, Unended, NL, Std!Last, Last
  <2>2. /\ Append(text, NL) \in Seq(C) /\ Len(Append(text, NL)) = Len(text) + 1
        /\ \A i \in 1 .. Len(text) : Append(text, NL)[i] = text[i]
        /\ Append(text, NL)[Len(text) + 1] = NL
    <3>1. NL \in C
      BY Classes
    <3>. QED BY <3>1, AppendProperties
  <2>3. Total = Len(text) + 1 /\ Comp(Len(text) + 1) = NL
    BY <1>1, <1>3 DEF Total, Comp
  <2>4. \A i \in 1 .. Total : Append(text, NL)[i] = Span(0, Total)[i]
    BY <1>1, <1>2, <2>2, <2>3
  <2>5. Append(text, NL) = Span(0, Total)
    BY <1>2, <2>2, <2>3, <2>4, SeqEqual
  <2>. QED BY <2>1, <2>5
<1>4. CASE ~Unended
  <2>1. Std!Terminated(text) = text
    BY <1>4, SameClasses DEF Std!Terminated, Unended, NL, Std!Last, Last
  <2>2. Total = Len(text)
    BY <1>1, <1>4 DEF Total
  <2>3. \A i \in 1 .. Len(text) : text[i] = Span(0, Total)[i]
    BY <1>1, <1>2, <2>2
  <2>4. text = Span(0, Total)
    BY <1>2, <2>2, <2>3, SeqEqual
  <2>. QED BY <2>1, <2>4
<1>. QED BY <1>3, <1>4

\* Parts of parts.
LEMMA SpanParts ==
  ASSUME text \in Seq(C), NEW a \in Nat, NEW b \in a .. Total
  PROVE  /\ \A m \in 1 .. b - a + 1, n \in 0 .. b - a :
              m <= n + 1 => SubSeq(Span(a, b), m, n) = Span(a + m - 1, a + n)
         /\ b < Total => Append(Span(a, b), Comp(b + 1)) = Span(a, b + 1)
         /\ a < b => Tail(Span(a, b)) = Span(a + 1, b)
         /\ Span(a, a) = <<>> /\ (Span(a, b) = <<>> <=> a = b)
<1>1. Total \in Nat /\ b \in Nat
  BY TotalIs
<1>2. /\ Span(a, b) \in Seq(C) /\ Len(Span(a, b)) = b - a
      /\ \A i \in 1 .. b - a : Span(a, b)[i] = Comp(a + i)
  BY SpanIs
<1>3. ASSUME NEW m \in 1 .. b - a + 1, NEW n \in 0 .. b - a, m <= n + 1
      PROVE  SubSeq(Span(a, b), m, n) = Span(a + m - 1, a + n)
  <2>. DEFINE s == Span(a, b)  t == Span(a + m - 1, a + n)
  <2>1. a + m - 1 \in Nat /\ a + n \in a + m - 1 .. Total
    BY <1>1, <1>3
  <2>2. t \in Seq(C) /\ Len(t) = n - m + 1 /\ \A i \in 1 .. n - m + 1 : t[i] = Comp(a + m - 1 + i)
    <3>1. /\ t \in Seq(C) /\ Len(t) = (a + n) - (a + m - 1)
          /\ \A i \in 1 .. (a + n) - (a + m - 1) : t[i] = Comp((a + m - 1) + i)
      BY ONLY <2>1, text \in Seq(C), SpanIs
    <3>2. (a + n) - (a + m - 1) = n - m + 1
      BY <1>1
    <3>. QED BY <3>1, <3>2
  <2>3. \A i \in m .. n : s[i] \in C
    BY <1>1, <1>2, ElementOfSeq
  <2>4. m \in Int /\ n \in Int
    BY <1>1
  <2>. HIDE DEF s, t
  <2>5. /\ SubSeq(s, m, n) \in Seq(C) /\ Len(SubSeq(s, m, n)) = IF m <= n THEN n - m + 1 ELSE 0
        /\ \A i \in 1 .. n - m + 1 : SubSeq(s, m, n)[i] = s[m + i - 1]
    BY <2>3, <2>4, SubSeqProperties
  <2>6. Len(SubSeq(s, m, n)) = n - m + 1
    BY <2>4, <2>5, <1>3
  <2>7. \A i \in 1 .. n - m + 1 : SubSeq(s, m, n)[i] = t[i]
    BY <1>1, <1>2, <1>3, <2>2, <2>4, <2>5 DEF s
  <2>8. SubSeq(s, m, n) = t
    BY <2>2, <2>5, <2>6, <2>7, SeqEqual
  <2>. QED BY <2>8 DEF s, t
<1>4. ASSUME b < Total PROVE Append(Span(a, b), Comp(b + 1)) = Span(a, b + 1)
  <2>1. Comp(b + 1) \in C
    BY <1>1, <1>4, TotalIs
  <2>. DEFINE s == Span(a, b)  t == Span(a, b + 1)  c == Comp(b + 1)
  <2>2. t \in Seq(C) /\ Len(t) = b + 1 - a /\ \A i \in 1 .. b + 1 - a : t[i] = Comp(a + i)
    BY <1>1, <1>4, SpanIs
  <2>3. s \in Seq(C) /\ c \in C
    BY <1>2, <2>1
  <2>4. Len(s) = b - a /\ \A i \in 1 .. b - a : s[i] = Comp(a + i)
    BY <1>2
  <2>. HIDE DEF s, t, c
  <2>5. /\ Append(s, c) \in Seq(C) /\ Len(Append(s, c)) = Len(s) + 1
        /\ \A i \in 1 .. Len(s) : Append(s, c)[i] = s[i]
        /\ Append(s, c)[Len(s) + 1] = c
    BY <2>3, AppendProperties
  <2>6. \A i \in 1 .. b + 1 - a : Append(s, c)[i] = t[i]
    <3>. SUFFICES ASSUME NEW i \in 1 .. b + 1 - a PROVE Append(s, c)[i] = t[i]
      OBVIOUS
    <3>1. CASE i \in 1 .. b - a
      BY <3>1, <2>2, <2>4, <2>5
    <3>2. CASE i = b - a + 1
      <4>1. a + i = b + 1
        BY <3>2, <1>1
      <4>. QED BY <3>2, <4>1, <2>2, <2>4, <2>5 DEF c
    <3>3. i \in 1 .. b - a \/ i = b - a + 1
      BY <1>1
    <3>. QED BY <3>1, <3>2, <3>3
  <2>7. Len(Append(s, c)) = b + 1 - a
    BY <1>1, <2>4, <2>5
  <2>8. Append(s, c) = t
    BY <2>2, <2>5, <2>6, <2>7, SeqEqual
  <2>. QED BY <2>8 DEF s, t, c
<1>5. Span(a, a) = <<>>
  <2>1. Span(a, a) \in Seq(C) /\ Len(Span(a, a)) = 0
    BY <1>1, SpanIs
  <2>. QED BY <2>1, EmptySeq
<1>6. Span(a, b) = <<>> <=> a = b
  BY <1>1, <1>2, <1>5, EmptySeq
<1>7. ASSUME a < b PROVE Tail(Span(a, b)) = Span(a + 1, b)
  <2>1. Span(a, b) # <<>>
    BY <1>1, <1>6, <1>7
  <2>2. Tail(Span(a, b)) = SubSeq(Span(a, b), 2, Len(Span(a, b)))
    BY <1>2, <2>1, TailIsSubSeq
  <2>3. 2 \in 1 .. b - a + 1 /\ b - a \in 0 .. b - a /\ 2 <= (b - a) + 1
    BY <1>1, <1>7
  <2>4. SubSeq(Span(a, b), 2, b - a) = Span(a + 2 - 1, a + (b - a))
    BY <1>3, <2>3
  <2>. QED BY <1>1, <1>2, <2>2, <2>4
<1>. QED BY <1>3, <1>4, <1>5, <1>6, <1>7

-----------------------------------------------------------------------------
(* The lookahead.                                                          *)

File == [at : Nat, have : BOOLEAN, lookahead : C \cup {EOF}, ch : C, ateof : BOOLEAN,
         pushback : Seq(C), atbol : BOOLEAN]

\* How many components the stream has delivered, whether one of them is in the
\* lookahead, and how many the program has read.
Delivered(g) == g.at + (IF g.at = Len(text) /\ Unended /\ g.atbol THEN 1 ELSE 0)
Shows(g) == g.have /\ g.lookahead # EOF
Place(g) == Delivered(g) - Len(g.pushback) - (IF Shows(g) THEN 1 ELSE 0)

\* What is delivered and not yet read is in the lookahead and, the last one
\* first, in the cells of give-back; atbol says whether a line has just ended.
HoldsTheText(g) ==
  /\ Place(g) >= 0
  /\ \A i \in 1 .. Len(g.pushback) : g.pushback[i] = Comp(Delivered(g) - i + 1)
  /\ Shows(g) => g.lookahead = Comp(Place(g) + 1)
  /\ Delivered(g) > 0 => g.atbol = (Comp(Delivered(g)) = NL)
  /\ Delivered(g) = 0 /\ ~g.atbol => text # <<>>

\* The lookahead is at the end only where the text is, and f^ shows it.
ShowsTheText(g) ==
  /\ g.have => g.ateof = (g.lookahead = EOF)
  /\ g.have /\ g.lookahead = EOF => g.pushback = <<>> /\ Delivered(g) = Total
  /\ Shows(g) => g.ch = g.lookahead \/ (g.lookahead = NL /\ g.ch = " ")

\* Something is in the cells of give-back only after a number was read up to
\* what is no part of it, and then there is no digit before the end of it: a
\* later number cannot give back more while it is there.
GivesBackNoDigit(g) ==
  /\ Len(g.pushback) <= 2
  /\ g.pushback # <<>> =>
       /\ g.have => g.lookahead \notin Digit
       /\ \A i \in 1 .. Len(g.pushback) : g.pushback[i] \notin Digit

Sound(g) ==
  /\ g \in File /\ g.at <= Len(text)
  /\ HoldsTheText(g) /\ ShowsTheText(g) /\ GivesBackNoDigit(g)


LEMMA SoundTypes ==
  ASSUME text \in Seq(C), NEW g, Sound(g)
  PROVE  /\ g.at \in 0 .. Len(text) /\ g.have \in BOOLEAN /\ g.lookahead \in C \cup {EOF}
         /\ g.ch \in C /\ g.ateof \in BOOLEAN /\ g.pushback \in Seq(C) /\ g.atbol \in BOOLEAN
         /\ Len(g.pushback) \in 0 .. 2 /\ Len(text) \in Nat /\ Total \in Nat
         /\ Delivered(g) \in 0 .. Total
         /\ Place(g) = Delivered(g) - Len(g.pushback) - (IF Shows(g) THEN 1 ELSE 0)
         /\ Place(g) \in 0 .. Total
<1>1. /\ g.at \in Nat /\ g.have \in BOOLEAN /\ g.lookahead \in C \cup {EOF}
      /\ g.ch \in C /\ g.ateof \in BOOLEAN /\ g.pushback \in Seq(C) /\ g.atbol \in BOOLEAN
  BY DEF Sound, File
<1>2. Len(text) \in Nat /\ Total \in Nat /\ Len(g.pushback) \in Nat
  BY <1>1, TotalIs, LenProperties
<1>3. g.at \in 0 .. Len(text) /\ Len(g.pushback) \in 0 .. 2
  <2>1. g.at <= Len(text) /\ GivesBackNoDigit(g)
    BY DEF Sound
  <2>2. Len(g.pushback) <= 2
    BY <2>1 DEF GivesBackNoDigit
  <2>3. g.at \in 0 .. Len(text)
    BY <1>1, <1>2, <2>1
  <2>4. PICK n \in Nat : n = Len(g.pushback)
    BY <1>2, Zenon
  <2>5. n <= 2
    BY <2>2, <2>4, Zenon
  <2>6. n \in 0 .. 2
    BY <2>5
  <2>7. Len(g.pushback) \in 0 .. 2
    BY <2>4, <2>6, Zenon
  <2>. QED BY <2>3, <2>7
<1>4. Delivered(g) \in 0 .. Total
  BY <1>2, <1>3 DEF Delivered, Total
<1>5. Place(g) >= 0
  BY DEF Sound, HoldsTheText
<1>6. Place(g) = Delivered(g) - Len(g.pushback) - (IF Shows(g) THEN 1 ELSE 0)
  BY DEF Place
<1>7. Place(g) \in 0 .. Total
  BY <1>2, <1>3, <1>4, <1>5, <1>6
<1>. QED BY <1>1, <1>2, <1>3, <1>4, <1>6, <1>7

\* Filling the lookahead reads nothing, and shows the next component or the end.
LEMMA FillShows ==
  ASSUME text \in Seq(C), NEW g, Sound(g)
  PROVE  /\ Sound(Fill(g)) /\ Fill(g).have /\ Place(Fill(g)) = Place(g)
         /\ Fill(g).lookahead = IF Place(g) < Total THEN Comp(Place(g) + 1) ELSE EOF
         /\ g.pushback = <<>> => Fill(g).pushback = <<>>
<1>. DEFINE h == Fill(g)
<1>1. /\ g.at \in 0 .. Len(text) /\ g.have \in BOOLEAN /\ g.lookahead \in C \cup {EOF}
      /\ g.ch \in C /\ g.ateof \in BOOLEAN /\ g.pushback \in Seq(C) /\ g.atbol \in BOOLEAN
      /\ Len(g.pushback) \in 0 .. 2 /\ Len(text) \in Nat /\ Total \in Nat
      /\ Delivered(g) \in 0 .. Total
      /\ Place(g) = Delivered(g) - Len(g.pushback) - (IF Shows(g) THEN 1 ELSE 0)
      /\ Place(g) \in 0 .. Total
  BY SoundTypes
<1>2. HoldsTheText(g) /\ ShowsTheText(g) /\ GivesBackNoDigit(g) /\ g \in File
  BY DEF Sound
<1>3. EOF \notin C
  BY Classes
<1>4. CASE g.have
  <2>1. Fill(g) = g
    BY <1>4 DEF Fill
  <2>2. CASE g.lookahead = EOF
    <3>1. ~Shows(g) /\ g.pushback = <<>> /\ Delivered(g) = Total
      BY <1>2, <1>4, <2>2 DEF ShowsTheText, Shows
    <3>2. Len(g.pushback) = 0
      BY <3>1
    <3>. QED BY <1>1, <1>4, <2>1, <2>2, <3>1, <3>2
  <2>3. CASE g.lookahead # EOF
    <3>1. Shows(g) /\ g.lookahead = Comp(Place(g) + 1)
      BY <1>2, <1>4, <2>3 DEF Shows, HoldsTheText
    <3>2. Place(g) < Total
      BY <1>1, <3>1
    <3>. QED BY <1>4, <2>1, <3>1, <3>2
  <2>. QED BY <2>2, <2>3
<1>5. CASE ~g.have /\ g.pushback # <<>>
  <2>. DEFINE n == Len(g.pushback)  c == g.pushback[n]
  <2>1. n \in 1 .. 2
    BY <1>1, <1>5, EmptySeq
  <2>2. c \in C /\ c = Comp(Delivered(g) - n + 1) /\ c \notin Digit
    BY <1>1, <1>2, <1>5, <2>1, ElementOfSeq DEF HoldsTheText, GivesBackNoDigit
  <2>3. Fill(g) = [g EXCEPT !.have = TRUE, !.ateof = FALSE, !.pushback = Front(g.pushback),
                            !.lookahead = c, !.ch = c]
    BY <1>5 DEF Fill, Last
  <2>4. /\ Front(g.pushback) \in Seq(C) /\ Len(Front(g.pushback)) = n - 1
        /\ \A i \in 1 .. n - 1 : Front(g.pushback)[i] = g.pushback[i]
    <3>1. \A i \in 1 .. n - 1 : g.pushback[i] \in C
      BY <1>1, <2>1, ElementOfSeq
    <3>2. 1 \in Int /\ n - 1 \in Int
      BY <2>1
    <3>3. /\ SubSeq(g.pushback, 1, n - 1) \in Seq(C)
          /\ Len(SubSeq(g.pushback, 1, n - 1)) = IF 1 <= n - 1 THEN (n - 1) - 1 + 1 ELSE 0
          /\ \A i \in 1 .. (n - 1) - 1 + 1 : SubSeq(g.pushback, 1, n - 1)[i] = g.pushback[1 + i - 1]
      BY <3>1, <3>2, SubSeqProperties
    <3>4. Front(g.pushback) = SubSeq(g.pushback, 1, n - 1)
      BY DEF Front
    <3>. HIDE DEF n
    <3>. QED BY <2>1, <3>3, <3>4
  <2>. HIDE DEF n, c
  <2>5. /\ h.have = TRUE /\ h.ateof = FALSE /\ h.pushback = Front(g.pushback)
        /\ h.lookahead = c /\ h.ch = c /\ h.at = g.at /\ h.atbol = g.atbol /\ h \in File
    BY <1>2, <2>2, <2>3, <2>4 DEF File
  <2>. HIDE DEF h
  <2>6. Delivered(h) = Delivered(g)
    BY <2>5 DEF Delivered
  <2>7. Shows(h) /\ ~Shows(g)
    BY <1>3, <1>5, <2>2, <2>5 DEF Shows
  <2>8. Place(h) = Delivered(g) - (n - 1) - 1 /\ Place(g) = Delivered(g) - n
    BY <1>1, <2>4, <2>5, <2>6, <2>7 DEF Place, n
  <2>9. Place(h) = Place(g) /\ Place(g) + 1 = Delivered(g) - n + 1 /\ Place(g) < Total
    BY <1>1, <2>1, <2>8
  <2>10. HoldsTheText(h)
    <3>1. \A i \in 1 .. Len(h.pushback) : h.pushback[i] = Comp(Delivered(h) - i + 1)
      BY <1>2, <2>1, <2>4, <2>5, <2>6 DEF HoldsTheText, n
    <3>2. h.lookahead = Comp(Place(h) + 1)
      BY <2>2, <2>5, <2>9
    <3>3. Place(h) >= 0
      BY <1>1, <2>9
    <3>. QED BY <1>2, <2>5, <2>6, <3>1, <3>2, <3>3 DEF HoldsTheText
  <2>11. ShowsTheText(h)
    BY <1>3, <2>2, <2>5 DEF ShowsTheText
  <2>12. GivesBackNoDigit(h)
    BY <1>2, <1>5, <2>1, <2>2, <2>4, <2>5 DEF GivesBackNoDigit, n
  <2>13. h.at <= Len(text)
    BY <1>1, <2>5
  <2>. QED BY <1>5, <2>2, <2>5, <2>9, <2>10, <2>11, <2>12, <2>13 DEF Sound, h
<1>6. CASE ~g.have /\ g.pushback = <<>>
  <2>. DEFINE raw == IF g.at < Len(text) THEN text[g.at + 1] ELSE EOF
              c == IF raw = EOF /\ ~g.atbol THEN NL ELSE raw
              shown == IF c \in {NL, EOF} THEN " " ELSE c
              past == IF raw = EOF THEN g.at ELSE g.at + 1
              bol == IF c = EOF THEN g.atbol ELSE c = NL
  <2>1. Fill(g) = [g EXCEPT !.have = TRUE, !.lookahead = c, !.ateof = c = EOF, !.ch = shown,
                            !.at = past, !.atbol = bol]
    BY <1>6 DEF Fill
  <2>2. raw \in C \cup {EOF} /\ (raw = EOF <=> g.at = Len(text))
    BY <1>1, <1>3, ElementOfSeq
  <2>3. /\ c \in C \cup {EOF} /\ shown \in C /\ past \in Nat /\ past <= Len(text)
        /\ bol \in BOOLEAN /\ (shown = c \/ (c = NL /\ shown = " ") \/ c = EOF)
    <3>1. NL \in C /\ " " \in C
      BY Classes
    <3>2. c \in C \cup {EOF}
      BY <2>2, <3>1
    <3>3. shown \in C /\ (shown = c \/ (c = NL /\ shown = " ") \/ c = EOF)
      BY <3>1, <3>2
    <3>4. past \in Nat /\ past <= Len(text)
      BY <1>1, <2>2
    <3>5. bol \in BOOLEAN
      BY <1>1
    <3>. QED BY <3>2, <3>3, <3>4, <3>5
  <2>4. Len(g.pushback) = 0 /\ ~Shows(g) /\ Place(g) = Delivered(g)
    BY <1>1, <1>6 DEF Shows
  <2>5. /\ c # EOF => past + (IF past = Len(text) /\ Unended /\ bol THEN 1 ELSE 0)
                        = Delivered(g) + 1
        /\ c # EOF => Delivered(g) < Total /\ c = Comp(Delivered(g) + 1)
        /\ c = EOF => Delivered(g) = Total /\ past = g.at /\ bol = g.atbol
    <3>1. CASE g.at < Len(text)
      <4>1. Delivered(g) = g.at /\ raw = text[g.at + 1] /\ raw # EOF /\ past = g.at + 1 /\ c = raw
        BY <1>1, <2>2, <3>1 DEF Delivered
      <4>2. past = Len(text) /\ Unended => c # NL
        BY <1>1, <3>1, <4>1 DEF Unended, NL, Last
      <4>3. c = Comp(Delivered(g) + 1) /\ Delivered(g) < Total
        BY <1>1, <3>1, <4>1, TotalIs
      <4>. QED BY <1>1, <4>1, <4>2, <4>3
    <3>2. CASE g.at = Len(text) /\ g.atbol
      <4>1. c = EOF /\ raw = EOF
        BY <1>1, <2>2, <3>2
      <4>2. Delivered(g) = Total
        BY <1>1, <3>2 DEF Delivered, Total
      <4>. QED BY <4>1, <4>2
    <3>3. CASE g.at = Len(text) /\ ~g.atbol
      <4>1. c = NL /\ raw = EOF /\ past = g.at /\ c # EOF /\ bol
        BY <1>1, <1>3, <2>2, <3>3, Classes
      <4>2. Delivered(g) = Len(text)
        BY <1>1, <3>3 DEF Delivered
      <4>3. Unended
        <5>1. text # <<>>
          BY <1>1, <1>2, <3>3, <4>2 DEF HoldsTheText
        <5>2. Len(text) > 0
          BY <1>1, <5>1, EmptySeq
        <5>3. Comp(Len(text)) # NL
          BY <1>2, <3>3, <4>2, <5>2 DEF HoldsTheText
        <5>4. Comp(Len(text)) = text[Len(text)]
          BY <1>1, <5>2, TotalIs
        <5>. QED BY <5>1, <5>3, <5>4 DEF Unended, Last, NL
      <4>4. Total = Len(text) + 1 /\ Comp(Len(text) + 1) = NL
        BY <1>1, <4>3 DEF Total, Comp
      <4>5. past + (IF past = Len(text) /\ Unended /\ bol THEN 1 ELSE 0) = Delivered(g) + 1
        BY <1>1, <3>3, <4>1, <4>2, <4>3
      <4>6. Delivered(g) < Total /\ c = Comp(Delivered(g) + 1)
        BY <1>1, <4>1, <4>2, <4>4
      <4>. QED BY <4>1, <4>5, <4>6
    <3>. QED BY <1>1, <3>1, <3>2, <3>3
  <2>. HIDE DEF raw, c, shown, past, bol
  <2>6. /\ h.have = TRUE /\ h.ateof = (c = EOF) /\ h.pushback = <<>>
        /\ h.lookahead = c /\ h.ch = shown /\ h.at = past /\ h.atbol = bol /\ h \in File
    BY <1>1, <1>2, <1>6, <2>1, <2>3 DEF File
  <2>. HIDE DEF h
  <2>7. Len(h.pushback) = 0 /\ (Shows(h) <=> c # EOF)
    BY <2>6 DEF Shows
  <2>8. Delivered(h) = past + (IF past = Len(text) /\ Unended /\ bol THEN 1 ELSE 0)
    BY <2>6 DEF Delivered
  <2>9. Place(h) = Delivered(h) - 0 - (IF c # EOF THEN 1 ELSE 0)
    BY <2>7 DEF Place
  <2>10. CASE c = EOF
    <3>1. Delivered(h) = Delivered(g)
      BY <2>5, <2>8, <2>10 DEF Delivered
    <3>2. Place(h) = Place(g) /\ Place(g) = Total
      BY <1>1, <2>4, <2>5, <2>9, <2>10, <3>1
    <3>3. HoldsTheText(h)
      <4>1. Place(h) >= 0
        BY <1>1, <3>2
      <4>2. ~Shows(h) /\ Len(h.pushback) = 0
        BY <2>7, <2>10
      <4>3. h.atbol = g.atbol
        BY <2>5, <2>6, <2>10
      <4>4. \A i \in 1 .. Len(h.pushback) : h.pushback[i] = Comp(Delivered(h) - i + 1)
        BY <4>2
      <4>. QED BY <1>2, <3>1, <4>1, <4>2, <4>3, <4>4 DEF HoldsTheText
    <3>4. ShowsTheText(h)
      BY <2>5, <2>6, <2>7, <2>10, <3>1 DEF ShowsTheText
    <3>5. GivesBackNoDigit(h)
      BY <2>6, <2>7 DEF GivesBackNoDigit
    <3>6. h.at <= Len(text)
      BY <1>1, <2>3, <2>6
    <3>. QED BY <1>1, <2>6, <2>10, <3>2, <3>3, <3>4, <3>5, <3>6 DEF Sound, h
  <2>11. CASE c # EOF
    <3>1. Delivered(h) = Delivered(g) + 1 /\ Delivered(h) > 0
      BY <1>1, <2>5, <2>8, <2>11
    <3>2. Place(h) = Place(g) /\ Place(g) < Total
      BY <1>1, <2>4, <2>5, <2>9, <2>11, <3>1
    <3>3. h.lookahead = Comp(Place(g) + 1) /\ h.lookahead = Comp(Delivered(h))
      BY <2>4, <2>5, <2>6, <2>11, <3>1
    <3>4. h.atbol = (h.lookahead = NL)
      BY <2>6, <2>11 DEF bol
    <3>5. HoldsTheText(h)
      <4>1. Place(h) >= 0
        BY <1>1, <3>2
      <4>2. \A i \in 1 .. Len(h.pushback) : h.pushback[i] = Comp(Delivered(h) - i + 1)
        BY <2>7
      <4>. QED BY <1>1, <3>1, <3>2, <3>3, <3>4, <4>1, <4>2 DEF HoldsTheText
    <3>6. ShowsTheText(h)
      BY <2>3, <2>6, <2>11 DEF ShowsTheText
    <3>7. GivesBackNoDigit(h)
      BY <2>6, <2>7 DEF GivesBackNoDigit
    <3>8. h.at <= Len(text)
      BY <1>1, <2>3, <2>6
    <3>. QED BY <2>6, <2>11, <3>2, <3>3, <3>5, <3>6, <3>7, <3>8 DEF Sound, h
  <2>. QED BY <2>10, <2>11
<1>. QED BY <1>1, <1>4, <1>5, <1>6

\* Taking what the lookahead shows reads one component.
LEMMA ConsumedMoves ==
  ASSUME text \in Seq(C), NEW g, Sound(g), Shows(g)
  PROVE  /\ Sound(Consumed(g)) /\ Place(Consumed(g)) = Place(g) + 1 /\ Place(g) < Total
         /\ Consumed(g).pushback = g.pushback /\ g.lookahead = Comp(Place(g) + 1)
<1>. DEFINE h == Consumed(g)
<1>1. /\ g.at \in 0 .. Len(text) /\ Len(g.pushback) \in 0 .. 2 /\ Len(text) \in Nat /\ Total \in Nat
      /\ Delivered(g) \in 0 .. Total
      /\ Place(g) = Delivered(g) - Len(g.pushback) - (IF Shows(g) THEN 1 ELSE 0)
      /\ Place(g) \in 0 .. Total
  BY SoundTypes
<1>2. HoldsTheText(g) /\ ShowsTheText(g) /\ GivesBackNoDigit(g) /\ g \in File /\ g.at <= Len(text)
  BY DEF Sound
<1>3. /\ h.have = FALSE /\ h.ateof = g.ateof /\ h.pushback = g.pushback /\ h.ch = g.ch
      /\ h.lookahead = g.lookahead /\ h.at = g.at /\ h.atbol = g.atbol /\ h \in File
  BY <1>2 DEF File, Consumed
<1>. HIDE DEF h
<1>4. Delivered(h) = Delivered(g) /\ ~Shows(h)
  BY <1>3 DEF Delivered, Shows
<1>5. Place(h) = Delivered(g) - Len(g.pushback) - 0
  BY <1>3, <1>4 DEF Place
<1>6. Place(h) = Place(g) + 1 /\ Place(g) < Total /\ Place(h) >= 0
  BY <1>1, <1>5
<1>7. HoldsTheText(h)
  BY <1>2, <1>3, <1>4, <1>6 DEF HoldsTheText
<1>8. ShowsTheText(h)
  BY <1>3, <1>4 DEF ShowsTheText
<1>9. GivesBackNoDigit(h)
  BY <1>2, <1>3 DEF GivesBackNoDigit
<1>10. g.lookahead = Comp(Place(g) + 1)
  BY <1>2 DEF HoldsTheText
<1>. QED BY <1>2, <1>3, <1>6, <1>7, <1>8, <1>9, <1>10 DEF Sound, h

LEMMA AdvanceMoves ==
  ASSUME text \in Seq(C), NEW g, Sound(g), Shows(g)
  PROVE  /\ Sound(Advance(g)) /\ Advance(g).have /\ Place(Advance(g)) = Place(g) + 1
         /\ Place(g) < Total /\ g.lookahead = Comp(Place(g) + 1)
         /\ Advance(g).lookahead
              = IF Place(g) + 1 < Total THEN Comp(Place(g) + 2) ELSE EOF
         /\ g.pushback = <<>> => Advance(g).pushback = <<>>
<1>. DEFINE h == Consumed(g)
<1>1. /\ Sound(h) /\ Place(h) = Place(g) + 1 /\ Place(g) < Total
      /\ h.pushback = g.pushback /\ g.lookahead = Comp(Place(g) + 1)
  BY ConsumedMoves
<1>2. Place(g) \in Nat
  BY SoundTypes
<1>. HIDE DEF h
<1>3. /\ Sound(Fill(h)) /\ Fill(h).have /\ Place(Fill(h)) = Place(h)
      /\ Fill(h).lookahead = IF Place(h) < Total THEN Comp(Place(h) + 1) ELSE EOF
      /\ h.pushback = <<>> => Fill(h).pushback = <<>>
  BY <1>1, FillShows
<1>4. Advance(g) = Fill(h)
  BY DEF Advance, h
<1>5. Place(h) + 1 = Place(g) + 2
  BY <1>1, <1>2
<1>. QED BY <1>1, <1>3, <1>4, <1>5

\* What a lookahead that was filled shows.
LEMMA LookaheadIs ==
  ASSUME text \in Seq(C), NEW g, Sound(g), g.have
  PROVE  /\ g.lookahead = IF Place(g) < Total THEN Comp(Place(g) + 1) ELSE EOF
         /\ Shows(g) <=> Place(g) < Total
         /\ g.lookahead \in Digit => g.pushback = <<>>
<1>1. Fill(g) = g
  BY DEF Fill
<1>2. g.lookahead = IF Place(g) < Total THEN Comp(Place(g) + 1) ELSE EOF
  BY <1>1, FillShows
<1>3. Place(g) \in 0 .. Total /\ Total \in Nat
  BY SoundTypes
<1>4. EOF \notin C
  BY Classes
<1>5. Place(g) < Total => Comp(Place(g) + 1) \in C
  BY <1>3, TotalIs
<1>6. g.lookahead \in Digit => g.pushback = <<>>
  BY DEF Sound, GivesBackNoDigit
<1>. QED BY <1>2, <1>4, <1>5, <1>6 DEF Shows

\* Giving back the component before the place goes back by one, when neither
\* that component nor the one after it is a digit and a cell is free.
LEMMA UnreadReturns ==
  ASSUME text \in Seq(C), NEW g, Sound(g), g.have, NEW c \in C, c \notin Digit,
         g.lookahead \notin Digit, Place(g) > 0, c = Comp(Place(g)), Len(g.pushback) <= 1
  PROVE  /\ Sound(Unread(g, c)) /\ Unread(g, c).have /\ Place(Unread(g, c)) = Place(g) - 1
         /\ Unread(g, c).lookahead = c /\ Len(Unread(g, c).pushback) <= Len(g.pushback) + 1
<1>. DEFINE h == Unread(g, c)
            cells == IF Shows(g) THEN Append(g.pushback, g.lookahead) ELSE g.pushback
<1>1. /\ g.at \in 0 .. Len(text) /\ g.lookahead \in C \cup {EOF} /\ g.pushback \in Seq(C)
      /\ Len(g.pushback) \in 0 .. 2 /\ Len(text) \in Nat /\ Total \in Nat
      /\ Delivered(g) \in 0 .. Total
      /\ Place(g) = Delivered(g) - Len(g.pushback) - (IF Shows(g) THEN 1 ELSE 0)
      /\ Place(g) \in 0 .. Total
  BY SoundTypes
<1>2. HoldsTheText(g) /\ ShowsTheText(g) /\ GivesBackNoDigit(g) /\ g \in File /\ g.at <= Len(text)
  BY DEF Sound
<1>3. EOF \notin C
  BY Classes
<1>4. h = [g EXCEPT !.pushback = cells, !.lookahead = c, !.ch = c, !.have = TRUE, !.ateof = FALSE]
  <2>1. Len(g.pushback) < 2
    BY <1>1
  <2>. QED BY <2>1, Zenon DEF Unread, Shows
<1>5. /\ cells \in Seq(C) /\ Len(cells) = Len(g.pushback) + (IF Shows(g) THEN 1 ELSE 0)
      /\ \A i \in 1 .. Len(cells) : cells[i] = Comp(Delivered(g) - i + 1) /\ cells[i] \notin Digit
  <2>1. CASE Shows(g)
    <3>1. g.lookahead \in C /\ cells = Append(g.pushback, g.lookahead)
      BY <1>1, <2>1 DEF Shows
    <3>2. /\ Append(g.pushback, g.lookahead) \in Seq(C)
          /\ Len(Append(g.pushback, g.lookahead)) = Len(g.pushback) + 1
          /\ \A i \in 1 .. Len(g.pushback) : Append(g.pushback, g.lookahead)[i] = g.pushback[i]
          /\ Append(g.pushback, g.lookahead)[Len(g.pushback) + 1] = g.lookahead
      BY <1>1, <3>1, AppendProperties
    <3>3. g.lookahead = Comp(Place(g) + 1) /\ Place(g) + 1 = Delivered(g) - (Len(g.pushback) + 1) + 1
      BY <1>1, <1>2, <2>1 DEF HoldsTheText
    <3>. HIDE DEF cells
    <3>4. \A i \in 1 .. Len(g.pushback) :
            cells[i] = Comp(Delivered(g) - i + 1) /\ cells[i] \notin Digit
      <4>1. \A i \in 1 .. Len(g.pushback) : g.pushback[i] = Comp(Delivered(g) - i + 1)
        BY <1>2 DEF HoldsTheText
      <4>2. \A i \in 1 .. Len(g.pushback) : g.pushback[i] \notin Digit
        BY <1>1, <1>2, EmptySeq DEF GivesBackNoDigit
      <4>. QED BY <3>1, <3>2, <4>1, <4>2
    <3>5. cells[Len(g.pushback) + 1] = Comp(Delivered(g) - (Len(g.pushback) + 1) + 1)
      BY <3>1, <3>2, <3>3
    <3>6. cells[Len(g.pushback) + 1] \notin Digit
      BY <3>1, <3>2
    <3>7. Len(cells) = Len(g.pushback) + 1
      BY <3>1, <3>2
    <3>8. ASSUME NEW i \in 1 .. Len(cells)
          PROVE  i \in 1 .. Len(g.pushback) \/ i = Len(g.pushback) + 1
      BY <1>1, <3>7
    <3>9. \A i \in 1 .. Len(cells) : cells[i] = Comp(Delivered(g) - i + 1) /\ cells[i] \notin Digit
      BY <3>4, <3>5, <3>6, <3>8
    <3>. QED BY <2>1, <3>1, <3>2, <3>7, <3>9
  <2>2. CASE ~Shows(g)
    <3>1. g.pushback = <<>> /\ cells = g.pushback
      BY <1>2, <2>2 DEF Shows, ShowsTheText
    <3>2. Len(cells) = 0
      BY <3>1
    <3>. QED BY <1>1, <2>2, <3>1, <3>2
  <2>. QED BY <2>1, <2>2
<1>. HIDE DEF cells
<1>6. /\ h.have = TRUE /\ h.ateof = FALSE /\ h.pushback = cells /\ h.ch = c
      /\ h.lookahead = c /\ h.at = g.at /\ h.atbol = g.atbol /\ h \in File
  BY <1>2, <1>4, <1>5 DEF File
<1>. HIDE DEF h
<1>7. Delivered(h) = Delivered(g) /\ Shows(h)
  BY <1>3, <1>6 DEF Delivered, Shows
<1>8. Place(h) = Delivered(g) - Len(cells) - 1
  BY <1>6, <1>7 DEF Place
<1>. DEFINE n == Len(g.pushback)  d == Delivered(g)  k == Len(cells)
<1>20. n \in 0 .. 1
  <2>1. n \in 0 .. 2 /\ n <= 1
    BY <1>1, Zenon
  <2>. HIDE DEF n
  <2>. QED BY <2>1
<1>21. d \in Nat /\ Place(g) = d - n - (IF Shows(g) THEN 1 ELSE 0) /\ Place(g) \in Nat
  BY <1>1
<1>22. k = n + (IF Shows(g) THEN 1 ELSE 0) /\ Place(h) = d - k - 1
  BY <1>5, <1>8
<1>. HIDE DEF n, d, k
<1>9. Place(h) = Place(g) - 1 /\ Place(h) >= 0 /\ Place(h) + 1 = Place(g)
  BY <1>20, <1>21, <1>22
<1>23. k <= 2 /\ k <= n + 1
  BY <1>20, <1>22
<1>10. HoldsTheText(h)
  <2>1. h.lookahead = Comp(Place(h) + 1)
    BY <1>6, <1>9
  <2>2. \A i \in 1 .. Len(h.pushback) : h.pushback[i] = Comp(Delivered(h) - i + 1)
    BY <1>5, <1>6, <1>7
  <2>. QED BY <1>2, <1>6, <1>7, <1>9, <2>1, <2>2 DEF HoldsTheText
<1>11. ShowsTheText(h)
  BY <1>3, <1>6 DEF ShowsTheText
<1>12. GivesBackNoDigit(h)
  <2>1. Len(h.pushback) <= 2
    BY <1>6, <1>23 DEF k
  <2>. QED BY <1>5, <1>6, <2>1 DEF GivesBackNoDigit
<1>13. Len(h.pushback) <= Len(g.pushback) + 1
  BY <1>6, <1>23 DEF k, n
<1>. QED BY <1>2, <1>6, <1>9, <1>10, <1>11, <1>12, <1>13 DEF Sound, h


-----------------------------------------------------------------------------
(* The loops.  Each is a run of Repeat: the set S of a proof says what every *)
(* turn of the loop keeps, D which states end it.                          *)

\* A run of n turns by a step G that stays in S, and takes the place (pl) on by
\* one in each turn that does not end the loop, has ended when there are fewer
\* than n places.
MovesOrEnds(S, D, G, pl) ==
  \A x \in S : G[x] \in D \/ (x \notin D /\ pl[G[x]] = pl[x] + 1)
Follows(t, n, S, G) ==
  t[0] \in S /\ \A i \in 1 .. n : t[i - 1] \in S => t[i] = G[t[i - 1]]

LEMMA RunEnds ==
  ASSUME NEW n \in Nat, NEW S, NEW D, NEW G, G \in [S -> S], NEW pl, pl \in [S -> 0 .. n - 1],
         MovesOrEnds(S, D, G, pl), NEW t, Follows(t, n, S, G)
  PROVE  t[n] \in S /\ t[n] \in D
<1>. USE DEF MovesOrEnds, Follows
<1>. DEFINE P == {i \in 0 .. n : t[i] \in S /\ (t[i] \in D \/ pl[t[i]] >= i)}
<1>1. 0 \in P
  OBVIOUS
<1>2. \A i \in 1 .. n : i - 1 \in P => i \in P
  <2>. SUFFICES ASSUME NEW i \in 1 .. n, i - 1 \in P PROVE i \in P
    OBVIOUS
  <2>1. i \in 0 .. n /\ t[i - 1] \in S /\ t[i] = G[t[i - 1]] /\ t[i] \in S
    OBVIOUS
  <2>2. CASE t[i - 1] \in D
    BY <2>1, <2>2
  <2>3. CASE t[i - 1] \notin D
    <3>1. pl[t[i - 1]] >= i - 1 /\ pl[t[i - 1]] \in Int
      BY <2>1, <2>3
    <3>2. t[i] \in D \/ pl[t[i]] = pl[t[i - 1]] + 1
      BY <2>1, <2>3
    <3>. QED BY <2>1, <3>1, <3>2
  <2>. QED BY <2>2, <2>3
<1>. HIDE DEF P
<1>3. \A i \in 0 .. n : i \in P
  BY ONLY n \in Nat, <1>1, <1>2, TurnInduction
<1>4. n \in P
  BY <1>3
<1>. QED BY <1>4 DEF P

\* The run of a loop from a by a step G that stays in S.
IsLoop(t, n, a, G) == t = [i \in 0 .. n |-> IF i = 0 THEN a ELSE G[t[i - 1]]]

LEMMA RunIs ==
  ASSUME NEW n \in Nat, NEW S, NEW a \in S, NEW G \in [S -> S]
  PROVE  \E t : t \in [0 .. n -> S] /\ IsLoop(t, n, a, G)
<1>. DEFINE H == [i \in 1 .. n |-> G]
<1>1. H \in [1 .. n -> [S -> S]]
  OBVIOUS
<1>. HIDE DEF H
<1>2. PICK t : IsRun(t, n, S, a, H)
  BY <1>1, RunExists
<1>3. t \in [0 .. n -> S] /\ t[0] = a /\ \A i \in 1 .. n : t[i] = G[t[i - 1]]
  BY <1>2 DEF IsRun, H
<1>4. \A i \in 0 .. n : t[i] = IF i = 0 THEN a ELSE G[t[i - 1]]
  BY <1>3
<1>5. IsLoop(t, n, a, G)
  BY <1>3, <1>4 DEF IsLoop
<1>. QED BY <1>3, <1>5

\* The components between two places are of the class K.
AllIn(K, a, b) == \A j \in a + 1 .. b : Comp(j) \in K

LEMMA AllInGrows ==
  ASSUME NEW K, NEW a \in Int, NEW b \in Int
  PROVE  AllIn(K, a, a) /\ (AllIn(K, a, b) /\ Comp(b + 1) \in K => AllIn(K, a, b + 1))
<1>1. \A j \in a + 1 .. a : FALSE
  OBVIOUS
<1>2. \A j \in a + 1 .. b + 1 : j \in a + 1 .. b \/ j = b + 1
  OBVIOUS
<1>. QED BY <1>1, <1>2, Zenon DEF AllIn

LEMMA TurnsAre ==
  ASSUME text \in Seq(C)
  PROVE  Turns \in Nat /\ Total <= Turns - 3
BY TotalIs DEF Turns

\* SkipBlanks comes to the next component that is not a blank, or to the end.
LEMMA SkipBlanksIs ==
  ASSUME text \in Seq(C), NEW g, Sound(g)
  PROVE  /\ Sound(SkipBlanks(g)) /\ SkipBlanks(g).have
         /\ Place(SkipBlanks(g)) \in Place(g) .. Total
         /\ AllIn({" ", NL}, Place(g), Place(SkipBlanks(g)))
         /\ ~AtBlank(SkipBlanks(g))
<1>. DEFINE p0 == Place(g)  a == Fill(g)
            Step(h) == IF AtBlank(h) THEN Advance(h) ELSE h
            S == {h \in File : /\ Sound(h) /\ h.have /\ Place(h) \in p0 .. Total
                               /\ AllIn({" ", NL}, p0, Place(h))}
            G == [h \in S |-> Step(h)]
            pl == [h \in S |-> Place(h)]
            D == {h \in S : ~AtBlank(h)}
            Turn == CHOOSE u : u = [n \in 0 .. Turns |-> IF n = 0 THEN a ELSE Step(u[n - 1])]
<1>1. p0 \in 0 .. Total /\ Total \in Nat /\ Turns \in Nat /\ Total <= Turns - 3
  BY SoundTypes, TurnsAre
<1>2. a \in S
  <2>1. Sound(a) /\ a.have /\ Place(a) = p0
    BY FillShows
  <2>2. a \in File
    BY <2>1 DEF Sound
  <2>. HIDE DEF a, p0
  <2>3. p0 \in p0 .. Total
    BY <1>1
  <2>4. AllIn({" ", NL}, p0, p0)
    <3>1. p0 \in Int
      BY <1>1
    <3>. QED BY <3>1, AllInGrows
  <2>. QED BY <2>1, <2>2, <2>3, <2>4
<1>. HIDE DEF p0
<1>3. ASSUME NEW h \in S, AtBlank(h) PROVE Step(h) \in S /\ Place(Step(h)) = Place(h) + 1
  <2>1. Sound(h) /\ h.have /\ Place(h) \in p0 .. Total
    OBVIOUS
  <2>2. Shows(h) /\ h.lookahead \in {" ", NL}
    BY <1>3, <2>1 DEF AtBlank, At, Shows, EOF, NL
  <2>3. /\ Sound(Advance(h)) /\ Advance(h).have /\ Place(Advance(h)) = Place(h) + 1
        /\ Place(h) < Total /\ h.lookahead = Comp(Place(h) + 1)
    BY <2>1, <2>2, AdvanceMoves
  <2>4. Advance(h) \in File
    BY <2>3 DEF Sound
  <2>5. AllIn({" ", NL}, p0, Place(h))
    OBVIOUS
  <2>6. Place(h) + 1 \in p0 .. Total /\ AllIn({" ", NL}, p0, Place(h) + 1)
    <3>. HIDE DEF S
    <3>1. Place(h) \in Int /\ p0 \in Int
      BY <1>1, <2>1
    <3>2. AllIn({" ", NL}, p0, Place(h) + 1)
      BY <2>2, <2>3, <2>5, <3>1, AllInGrows
    <3>3. Place(h) + 1 \in p0 .. Total
      BY <1>1, <2>1, <2>3
    <3>. QED BY <3>2, <3>3
  <2>7. Step(h) = Advance(h)
    BY <1>3
  <2>. QED BY <2>3, <2>4, <2>6, <2>7
<1>4. ASSUME NEW h \in S, ~AtBlank(h) PROVE Step(h) = h
  BY <1>4
<1>. HIDE DEF Step
<1>5. \A h \in S : Step(h) \in S
  BY <1>3, <1>4
<1>6. pl \in [S -> 0 .. Turns - 1]
  <2>1. \A h \in S : Place(h) \in p0 .. Total
    OBVIOUS
  <2>. HIDE DEF S
  <2>2. \A h \in S : Place(h) \in 0 .. Turns - 1
    BY <1>1, <2>1
  <2>. QED BY <2>2
<1>7. SkipBlanks(g) = Turn[Turns]
  BY Zenon DEF SkipBlanks, Repeat, Step
<1>. HIDE DEF S, a
<1>8. G \in [S -> S]
  BY <1>5
<1>9. PICK t : t \in [0 .. Turns -> S] /\ IsLoop(t, Turns, a, G)
  <2>. HIDE DEF G
  <2>. QED BY <1>1, <1>2, <1>8, RunIs
<1>10. t = [n \in 0 .. Turns |-> IF n = 0 THEN a ELSE Step(t[n - 1])]
  <2>1. \A n \in 0 .. Turns : t[n] = IF n = 0 THEN a ELSE G[t[n - 1]]
    BY <1>9 DEF IsLoop
  <2>2. ASSUME NEW n \in 0 .. Turns, n # 0 PROVE t[n - 1] \in S
    <3>1. n - 1 \in 0 .. Turns
      BY <1>1, <2>2
    <3>. QED BY <1>9, <3>1
  <2>3. \A n \in 0 .. Turns : t[n] = IF n = 0 THEN a ELSE Step(t[n - 1])
    BY <2>1, <2>2
  <2>. QED BY <1>9, <2>3
<1>11. Turn = [n \in 0 .. Turns |-> IF n = 0 THEN a ELSE Step(Turn[n - 1])]
  BY <1>10, Zenon
<1>. HIDE DEF Turn
<1>12. Turn[0] = a /\ \A i \in 1 .. Turns : Turn[i] = Step(Turn[i - 1])
  BY <1>1, <1>11
<1>13. \A x \in S : x \in D => G[x] \in D
  BY <1>4
<1>14. \A x \in S : x \notin D => pl[G[x]] = pl[x] + 1
  BY <1>3, <1>5
<1>15. MovesOrEnds(S, D, G, pl)
  BY <1>13, <1>14, Zenon DEF MovesOrEnds
<1>16. Follows(Turn, Turns, S, G)
  BY <1>2, <1>12 DEF Follows
<1>17. Turn[Turns] \in S /\ Turn[Turns] \in D
  <2>. HIDE DEF D, pl, G
  <2>. QED BY <1>1, <1>6, <1>8, <1>15, <1>16, RunEnds
<1>. QED BY <1>7, <1>17, Zenon DEF S, p0

\* The last component of a text that has any is a line marker.
LEMMA EndsInMarker ==
  ASSUME text \in Seq(C), Total > 0
  PROVE  Comp(Total) = NL
<1>1. Len(text) \in Nat /\ \A i \in 1 .. Len(text) : Comp(i) = text[i]
  BY TotalIs
<1>2. CASE Unended
  BY <1>1, <1>2 DEF Total, Comp
<1>3. CASE ~Unended
  <2>1. Total = Len(text) /\ Len(text) > 0
    BY <1>1, <1>3 DEF Total
  <2>2. text # <<>>
    BY <2>1
  <2>3. text[Len(text)] = NL
    BY <1>3, <2>2 DEF Unended, NL, Last
  <2>. QED BY <1>1, <2>1, <2>3
<1>. QED BY <1>2, <1>3

\* readln's loop comes to the end of the line.
LEMMA SkipLineIs ==
  ASSUME text \in Seq(C), NEW g, Sound(g), g.have
  PROVE  /\ Sound(SkipLine(g)) /\ SkipLine(g).have
         /\ Place(SkipLine(g)) \in Place(g) .. Total
         /\ AllIn(C \ {NL}, Place(g), Place(SkipLine(g)))
         /\ SkipLine(g).lookahead \in {NL, EOF}
<1>. DEFINE p0 == Place(g)
            Step(h) == IF At({NL, EOF}, h) THEN h ELSE Advance(h)
            S == {h \in File : /\ Sound(h) /\ h.have /\ Place(h) \in p0 .. Total
                               /\ AllIn(C \ {NL}, p0, Place(h))}
            G == [h \in S |-> Step(h)]
            pl == [h \in S |-> Place(h)]
            D == {h \in S : At({NL, EOF}, h)}
            Turn == CHOOSE u : u = [n \in 0 .. Turns |-> IF n = 0 THEN g ELSE Step(u[n - 1])]
<1>1. p0 \in 0 .. Total /\ Total \in Nat /\ Turns \in Nat /\ Total <= Turns - 3
  BY SoundTypes, TurnsAre
<1>2. g \in S
  <2>1. g \in File
    BY DEF Sound
  <2>2. Place(g) = p0
    OBVIOUS
  <2>. HIDE DEF p0
  <2>3. p0 \in p0 .. Total /\ p0 \in Int
    BY <1>1
  <2>4. AllIn(C \ {NL}, p0, p0)
    BY <2>3, AllInGrows
  <2>. QED BY <2>1, <2>2, <2>3, <2>4
<1>. HIDE DEF p0
<1>3. ASSUME NEW h \in S, ~At({NL, EOF}, h) PROVE Step(h) \in S /\ Place(Step(h)) = Place(h) + 1
  <2>1. Sound(h) /\ h.have /\ Place(h) \in p0 .. Total
    OBVIOUS
  <2>2. Shows(h) /\ h.lookahead # NL
    BY <1>3, <2>1 DEF At, Shows
  <2>3. /\ Sound(Advance(h)) /\ Advance(h).have /\ Place(Advance(h)) = Place(h) + 1
        /\ Place(h) < Total /\ h.lookahead = Comp(Place(h) + 1)
    BY <2>1, <2>2, AdvanceMoves
  <2>4. Advance(h) \in File
    BY <2>3 DEF Sound
  <2>5. AllIn(C \ {NL}, p0, Place(h)) /\ h.lookahead \in C \cup {EOF} /\ h.lookahead # EOF
    BY <2>2 DEF File, Shows
  <2>6. Place(h) + 1 \in p0 .. Total /\ AllIn(C \ {NL}, p0, Place(h) + 1)
    <3>. HIDE DEF S
    <3>1. Place(h) \in Int /\ p0 \in Int
      BY <1>1, <2>1
    <3>2. h.lookahead \in C \ {NL}
      BY <2>2, <2>5
    <3>3. Comp(Place(h) + 1) \in C \ {NL}
      BY <2>3, <3>2, Zenon
    <3>4. AllIn(C \ {NL}, p0, Place(h) + 1)
      BY <2>5, <3>1, <3>3, AllInGrows
    <3>5. Place(h) + 1 \in p0 .. Total
      BY <1>1, <2>1, <2>3
    <3>. QED BY <3>4, <3>5
  <2>7. Step(h) = Advance(h)
    BY <1>3
  <2>. QED BY <2>3, <2>4, <2>6, <2>7
<1>4. ASSUME NEW h \in S, At({NL, EOF}, h) PROVE Step(h) = h
  BY <1>4
<1>. HIDE DEF Step
<1>5. \A h \in S : Step(h) \in S
  BY <1>3, <1>4
<1>6. pl \in [S -> 0 .. Turns - 1]
  <2>1. \A h \in S : Place(h) \in p0 .. Total
    OBVIOUS
  <2>. HIDE DEF S
  <2>2. \A h \in S : Place(h) \in 0 .. Turns - 1
    BY <1>1, <2>1
  <2>. QED BY <2>2
<1>7. SkipLine(g) = Turn[Turns]
  BY Zenon DEF SkipLine, Repeat, Step
<1>. HIDE DEF S
<1>8. G \in [S -> S]
  BY <1>5
<1>9. PICK t : t \in [0 .. Turns -> S] /\ IsLoop(t, Turns, g, G)
  <2>. HIDE DEF G
  <2>. QED BY <1>1, <1>2, <1>8, RunIs
<1>10. t = [n \in 0 .. Turns |-> IF n = 0 THEN g ELSE Step(t[n - 1])]
  <2>1. \A n \in 0 .. Turns : t[n] = IF n = 0 THEN g ELSE G[t[n - 1]]
    BY <1>9 DEF IsLoop
  <2>2. ASSUME NEW n \in 0 .. Turns, n # 0 PROVE t[n - 1] \in S
    <3>1. n - 1 \in 0 .. Turns
      BY <1>1, <2>2
    <3>. QED BY <1>9, <3>1
  <2>3. \A n \in 0 .. Turns : t[n] = IF n = 0 THEN g ELSE Step(t[n - 1])
    BY <2>1, <2>2
  <2>. QED BY <1>9, <2>3
<1>11. Turn = [n \in 0 .. Turns |-> IF n = 0 THEN g ELSE Step(Turn[n - 1])]
  BY <1>10, Zenon
<1>. HIDE DEF Turn
<1>12. Turn[0] = g /\ \A i \in 1 .. Turns : Turn[i] = Step(Turn[i - 1])
  BY <1>1, <1>11
<1>13. \A x \in S : x \in D => G[x] \in D
  BY <1>4
<1>14. \A x \in S : x \notin D => pl[G[x]] = pl[x] + 1
  BY <1>3, <1>5
<1>15. MovesOrEnds(S, D, G, pl)
  BY <1>13, <1>14, Zenon DEF MovesOrEnds
<1>16. Follows(Turn, Turns, S, G)
  BY <1>2, <1>12 DEF Follows
<1>17. Turn[Turns] \in S /\ Turn[Turns] \in D
  <2>. HIDE DEF D, pl, G
  <2>. QED BY <1>1, <1>6, <1>8, <1>15, <1>16, RunEnds
<1>. QED BY <1>7, <1>17, Zenon DEF S, p0, At

-----------------------------------------------------------------------------
(* The parts of a number.                                                  *)

\* What was taken of a number that begins after the place b: the characters
\* from there on, the lookahead filled.
Taken(r, b) ==
  /\ r \in [g : File, num : Seq(C)] /\ Sound(r.g) /\ r.g.have
  /\ Place(r.g) \in b .. Total /\ r.num = Span(b, Place(r.g))

LEMMA TakeOneIs ==
  ASSUME text \in Seq(C), NEW b \in Nat, NEW r, Taken(r, b), Shows(r.g)
  PROVE  /\ Taken(TakeOne(r), b) /\ Place(TakeOne(r).g) = Place(r.g) + 1
         /\ Place(r.g) < Total /\ r.g.lookahead = Comp(Place(r.g) + 1)
         /\ r.g.pushback = <<>> => TakeOne(r).g.pushback = <<>>
<1>1. /\ r \in [g : File, num : Seq(C)] /\ Sound(r.g) /\ r.g.have
      /\ Place(r.g) \in b .. Total /\ r.num = Span(b, Place(r.g))
  BY DEF Taken
<1>. DEFINE g == r.g  h == Advance(g)
<1>2. Sound(g) /\ Shows(g)
  BY <1>1
<1>3. /\ Sound(h) /\ h.have /\ Place(h) = Place(g) + 1
      /\ Place(g) < Total /\ g.lookahead = Comp(Place(g) + 1)
      /\ g.pushback = <<>> => h.pushback = <<>>
  <2>. HIDE DEF g
  <2>. QED BY <1>2, AdvanceMoves
<1>4. TakeOne(r) = [g |-> h, num |-> Append(r.num, g.lookahead)]
  BY DEF TakeOne
<1>5. Place(g) \in b .. Total /\ r.num = Span(b, Place(g)) /\ r.num \in Seq(C)
  BY <1>1
<1>6. h \in File /\ g.lookahead \in C
  <2>1. g.lookahead \in C \cup {EOF}
    BY <1>2, SoundTypes
  <2>2. g.lookahead # EOF
    BY <1>2 DEF Shows
  <2>3. h \in File
    BY <1>3 DEF Sound
  <2>. HIDE DEF g, h
  <2>. QED BY <2>1, <2>2, <2>3
<1>. HIDE DEF g, h
<1>7. Append(r.num, g.lookahead) = Span(b, Place(h)) /\ Place(h) \in b .. Total
  <2>. DEFINE q == Place(g)
  <2>1. q \in b .. Total /\ q < Total /\ Total \in Nat
    BY <1>3, <1>5, TotalIs
  <2>. HIDE DEF q
  <2>2. Append(Span(b, q), Comp(q + 1)) = Span(b, q + 1)
    BY <2>1, SpanParts
  <2>3. q + 1 \in b .. Total
    BY <2>1
  <2>. QED BY <1>3, <1>5, <2>2, <2>3, Zenon DEF q
<1>8. Append(r.num, g.lookahead) \in Seq(C)
  BY <1>5, <1>6, AppendProperties
<1>9. TakeOne(r).g = h /\ TakeOne(r).num = Append(r.num, g.lookahead)
  BY <1>4
<1>10. TakeOne(r) \in [g : File, num : Seq(C)]
  BY <1>4, <1>6, <1>8
<1>. QED BY <1>3, <1>7, <1>9, <1>10 DEF Taken, g

\* The loop over digits comes to the next component that is no digit; when it
\* has taken one there is nothing in the cells of give-back.
LEMMA TakeDigitsIs ==
  ASSUME text \in Seq(C), NEW b \in Nat, NEW r, Taken(r, b)
  PROVE  LET q == TakeDigits(r) IN
         /\ Taken(q, b) /\ Place(q.g) \in Place(r.g) .. Total
         /\ AllIn(Digit, Place(r.g), Place(q.g)) /\ ~AtDigit(q.g)
         /\ r.g.pushback = <<>> \/ Place(q.g) > Place(r.g) => q.g.pushback = <<>>
<1>. DEFINE p0 == Place(r.g)
            Step(q) == IF AtDigit(q.g) THEN TakeOne(q) ELSE q
            S == {q \in [g : File, num : Seq(C)] :
                    /\ Taken(q, b) /\ Place(q.g) \in p0 .. Total
                    /\ AllIn(Digit, p0, Place(q.g))
                    /\ r.g.pushback = <<>> \/ Place(q.g) > p0 => q.g.pushback = <<>>}
            G == [q \in S |-> Step(q)]
            pl == [q \in S |-> Place(q.g)]
            D == {q \in S : ~AtDigit(q.g)}
            Turn == CHOOSE u : u = [n \in 0 .. Turns |-> IF n = 0 THEN r ELSE Step(u[n - 1])]
<1>1. p0 \in 0 .. Total /\ Total \in Nat /\ Turns \in Nat /\ Total <= Turns - 3
  BY SoundTypes, TurnsAre DEF Taken
<1>2. r \in S
  <2>1. r \in [g : File, num : Seq(C)]
    BY DEF Taken
  <2>2. Place(r.g) = p0
    OBVIOUS
  <2>. HIDE DEF p0
  <2>3. p0 \in p0 .. Total /\ p0 \in Int /\ ~(p0 > p0)
    BY <1>1
  <2>4. AllIn(Digit, p0, p0)
    BY <2>3, AllInGrows
  <2>. QED BY <2>1, <2>2, <2>3, <2>4
<1>. HIDE DEF p0
<1>3. ASSUME NEW q \in S, AtDigit(q.g) PROVE Step(q) \in S /\ Place(Step(q).g) = Place(q.g) + 1
  <2>1. Taken(q, b) /\ Place(q.g) \in p0 .. Total /\ AllIn(Digit, p0, Place(q.g))
    OBVIOUS
  <2>2. q.g.lookahead \in Digit /\ Sound(q.g) /\ q.g.have
    BY <1>3, <2>1 DEF AtDigit, At, Taken
  <2>3. Shows(q.g) /\ q.g.pushback = <<>>
    <3>1. EOF \notin Digit
      BY Classes
    <3>. DEFINE g == q.g
    <3>2. g.lookahead \in Digit /\ Sound(g) /\ g.have
      BY <2>2
    <3>. HIDE DEF g
    <3>3. g.pushback = <<>>
      BY <3>2, LookaheadIs
    <3>. QED BY <3>1, <3>2, <3>3 DEF Shows, g
  <2>. DEFINE o == TakeOne(q)
  <2>. HIDE DEF S
  <2>4. /\ Taken(o, b) /\ Place(o.g) = Place(q.g) + 1
        /\ Place(q.g) < Total /\ q.g.lookahead = Comp(Place(q.g) + 1)
        /\ o.g.pushback = <<>>
    BY <2>1, <2>3, TakeOneIs
  <2>5. o \in [g : File, num : Seq(C)]
    BY <2>4 DEF Taken
  <2>. HIDE DEF o
  <2>6. Place(q.g) + 1 \in p0 .. Total /\ AllIn(Digit, p0, Place(q.g) + 1)
    <3>. DEFINE k == Place(q.g)
    <3>1. k \in p0 .. Total /\ p0 \in Int /\ Total \in Int /\ k < Total
      BY <1>1, <2>1, <2>4
    <3>2. AllIn(Digit, p0, k) /\ Comp(k + 1) \in Digit
      BY <2>1, <2>2, <2>4, Zenon
    <3>. HIDE DEF k
    <3>3. AllIn(Digit, p0, k + 1)
      <4>1. k \in Int
        BY <3>1
      <4>. QED BY <3>1, <3>2, <4>1, AllInGrows
    <3>4. k + 1 \in p0 .. Total
      BY <3>1
    <3>. QED BY <3>3, <3>4 DEF k
  <2>7. Step(q) = o
    BY <1>3 DEF o
  <2>. HIDE DEF Step
  <2>. QED BY <2>4, <2>5, <2>6, <2>7 DEF S
<1>4. ASSUME NEW q \in S, ~AtDigit(q.g) PROVE Step(q) = q
  BY <1>4
<1>. HIDE DEF Step
<1>5. \A q \in S : Step(q) \in S
  BY <1>3, <1>4
<1>6. pl \in [S -> 0 .. Turns - 1]
  <2>1. \A q \in S : Place(q.g) \in p0 .. Total
    OBVIOUS
  <2>. HIDE DEF S
  <2>2. \A q \in S : Place(q.g) \in 0 .. Turns - 1
    BY <1>1, <2>1
  <2>. QED BY <2>2
<1>7. TakeDigits(r) = Turn[Turns]
  BY Zenon DEF TakeDigits, Repeat, Step
<1>. HIDE DEF S
<1>8. G \in [S -> S]
  BY <1>5
<1>9. PICK t : t \in [0 .. Turns -> S] /\ IsLoop(t, Turns, r, G)
  <2>. HIDE DEF G
  <2>. QED BY <1>1, <1>2, <1>8, RunIs
<1>10. t = [n \in 0 .. Turns |-> IF n = 0 THEN r ELSE Step(t[n - 1])]
  <2>1. \A n \in 0 .. Turns : t[n] = IF n = 0 THEN r ELSE G[t[n - 1]]
    BY <1>9 DEF IsLoop
  <2>2. ASSUME NEW n \in 0 .. Turns, n # 0 PROVE t[n - 1] \in S
    <3>1. n - 1 \in 0 .. Turns
      BY <1>1, <2>2
    <3>. QED BY <1>9, <3>1
  <2>3. \A n \in 0 .. Turns : t[n] = IF n = 0 THEN r ELSE Step(t[n - 1])
    BY <2>1, <2>2
  <2>. QED BY <1>9, <2>3
<1>11. Turn = [n \in 0 .. Turns |-> IF n = 0 THEN r ELSE Step(Turn[n - 1])]
  BY <1>10, Zenon
<1>. HIDE DEF Turn
<1>12. Turn[0] = r /\ \A i \in 1 .. Turns : Turn[i] = Step(Turn[i - 1])
  BY <1>1, <1>11
<1>13. \A x \in S : x \in D => G[x] \in D
  BY <1>4
<1>14. \A x \in S : x \notin D => pl[G[x]] = pl[x] + 1
  BY <1>3, <1>5
<1>15. MovesOrEnds(S, D, G, pl)
  BY <1>13, <1>14, Zenon DEF MovesOrEnds
<1>16. Follows(Turn, Turns, S, G)
  BY <1>2, <1>12 DEF Follows
<1>17. Turn[Turns] \in S /\ Turn[Turns] \in D
  <2>. HIDE DEF D, pl, G
  <2>. QED BY <1>1, <1>6, <1>8, <1>15, <1>16, RunEnds
<1>. QED BY <1>7, <1>17, Zenon DEF S, p0

\* The loop of read(s) comes to the capacity, to the end of the line or to the
\* end of the text.
LEMMA TakeStringIs ==
  ASSUME text \in Seq(C), NEW cap \in Nat, NEW g, Sound(g)
  PROVE  LET q == TakeString(g, cap) IN
         /\ Sound(q.g) /\ Place(q.g) \in Place(g) .. Total
         /\ q.num = Span(Place(g), Place(q.g)) /\ AllIn(C \ {NL}, Place(g), Place(q.g))
         /\ Place(q.g) - Place(g) <= cap
         /\ \/ Place(q.g) - Place(g) = cap
            \/ Place(q.g) = Total \/ Comp(Place(q.g) + 1) = NL
<1>. DEFINE p0 == Place(g)  a == [g |-> g, num |-> <<>>]
            Step(r) == TakeChar(r, cap)
            S == {q \in [g : File, num : Seq(C)] :
                    /\ Sound(q.g) /\ Place(q.g) \in p0 .. Total
                    /\ q.num = Span(p0, Place(q.g)) /\ AllIn(C \ {NL}, p0, Place(q.g))
                    /\ Place(q.g) - p0 <= cap}
            G == [q \in S |-> Step(q)]
            pl == [q \in S |-> Place(q.g)]
            D == {q \in S : Len(q.num) >= cap \/ (q.g.have /\ ~InLine(q.g))}
            Turn == CHOOSE u : u = [n \in 0 .. Turns |-> IF n = 0 THEN a ELSE Step(u[n - 1])]
<1>1. p0 \in 0 .. Total /\ Total \in Nat /\ Turns \in Nat /\ Total <= Turns - 3
  BY SoundTypes, TurnsAre
<1>2. a \in S
  <2>1. g \in File /\ <<>> \in Seq(C)
    BY DEF Sound
  <2>2. a \in [g : File, num : Seq(C)] /\ a.g = g /\ a.num = <<>>
    BY <2>1
  <2>3. Place(a.g) = p0 /\ Sound(a.g)
    BY <2>2
  <2>. HIDE DEF p0, a
  <2>4. p0 \in p0 .. Total /\ p0 \in Nat /\ p0 \in Int /\ p0 - p0 <= cap
    BY <1>1
  <2>5. AllIn(C \ {NL}, p0, p0)
    BY <2>4, AllInGrows
  <2>6. Span(p0, p0) = <<>>
    BY <2>4, SpanParts
  <2>. QED BY <2>2, <2>3, <2>4, <2>5, <2>6
<1>. HIDE DEF p0
<1>3. ASSUME NEW q \in S, q \notin D
      PROVE  Step(q) \in S /\ (Step(q) \in D \/ Place(Step(q).g) = Place(q.g) + 1)
  <2>. DEFINE k == Place(q.g)  h == Fill(q.g)
  <2>1. /\ Sound(q.g) /\ k \in p0 .. Total /\ q.num = Span(p0, k)
        /\ AllIn(C \ {NL}, p0, k) /\ k - p0 <= cap /\ q \in [g : File, num : Seq(C)]
    OBVIOUS
  <2>2. ~(Len(q.num) >= cap) /\ ~(q.g.have /\ ~InLine(q.g))
    BY <1>3
  <2>3. p0 \in Nat /\ Total \in Nat /\ k \in Nat /\ p0 \in Int /\ k \in Int
    <3>. HIDE DEF S, k
    <3>. QED BY <1>1, <2>1
  <2>4. /\ Sound(h) /\ h.have /\ Place(h) = k
        /\ h.lookahead = IF k < Total THEN Comp(k + 1) ELSE EOF
    <3>. HIDE DEF S
    <3>. QED BY <2>1, FillShows
  <2>. HIDE DEF S, D, k, h
  <2>5. Len(q.num) = k - p0
    BY <2>1, <2>3, SpanIs
  <2>6. Len(q.num) < cap /\ k - p0 < cap
    BY <2>2, <2>3, <2>5
  <2>7. h \in File /\ h.ateof = (h.lookahead = EOF) /\ (h.lookahead # EOF => Shows(h))
    BY <2>4 DEF Sound, ShowsTheText, Shows
  <2>8. CASE InLine(h)
    <3>1. h.lookahead # EOF /\ h.lookahead # NL
      BY <2>7, <2>8 DEF InLine
    <3>2. Shows(h) /\ h.ch = h.lookahead
      BY <2>4, <2>7, <3>1 DEF Sound, ShowsTheText
    <3>3. Sound(Consumed(h)) /\ Place(Consumed(h)) = k + 1 /\ k < Total
      BY <2>4, <3>2, ConsumedMoves
    <3>4. h.lookahead = Comp(k + 1)
      BY <2>4, <3>3
    <3>5. Comp(k + 1) \in C \ {NL} /\ h.ch = Comp(k + 1)
      <4>1. h.lookahead \in C \cup {EOF}
        BY <2>7 DEF File
      <4>. QED BY <3>1, <3>2, <3>4, <4>1, Zenon
    <3>6. AllIn(C \ {NL}, p0, k + 1)
      BY <2>1, <2>3, <3>5, AllInGrows
    <3>7. k + 1 \in p0 .. Total /\ (k + 1) - p0 <= cap
      BY <2>1, <2>3, <2>6, <3>3
    <3>8. Append(q.num, h.ch) = Span(p0, k + 1)
      <4>1. Append(Span(p0, k), Comp(k + 1)) = Span(p0, k + 1)
        BY <2>1, <2>3, <3>3, SpanParts
      <4>. QED BY <2>1, <3>5, <4>1, Zenon
    <3>9. Span(p0, k + 1) \in Seq(C)
      BY <2>3, <3>7, SpanIs
    <3>10. Step(q) = [g |-> Consumed(h), num |-> Append(q.num, h.ch)]
      <4>1. ~(Len(q.num) >= cap)
        BY <2>2
      <4>. QED BY <2>6, <2>8, <4>1 DEF TakeChar, h
    <3>. HIDE DEF Step
    <3>11. Step(q).g = Consumed(h) /\ Step(q).num = Span(p0, k + 1)
      BY <3>8, <3>10
    <3>12. Step(q) \in [g : File, num : Seq(C)]
      <4>1. Consumed(h) \in File
        BY <3>3 DEF Sound
      <4>. QED BY <3>8, <3>9, <3>10, <4>1
    <3>. QED BY <3>3, <3>6, <3>7, <3>11, <3>12 DEF S, k
  <2>9. CASE ~InLine(h)
    <3>1. Step(q) = [q EXCEPT !.g = h]
      <4>1. ~(Len(q.num) >= cap)
        BY <2>2
      <4>. QED BY <2>9, <4>1 DEF TakeChar, h
    <3>. HIDE DEF Step
    <3>2. Step(q).g = h /\ Step(q).num = q.num /\ Step(q) \in [g : File, num : Seq(C)]
      BY <2>1, <2>7, <3>1
    <3>3. Step(q) \in S
      BY <2>1, <2>4, <3>2 DEF S
    <3>. QED BY <2>4, <2>9, <3>2, <3>3 DEF D
  <2>. QED BY <2>8, <2>9
<1>4. ASSUME NEW q \in S, q \in D PROVE Step(q) = q
  <2>1. q \in [g : File, num : Seq(C)] /\ (Len(q.num) >= cap \/ (q.g.have /\ ~InLine(q.g)))
    BY <1>4
  <2>. HIDE DEF S, D
  <2>2. CASE Len(q.num) >= cap
    BY <2>2 DEF TakeChar
  <2>3. CASE ~(Len(q.num) >= cap)
    <3>1. Fill(q.g) = q.g /\ ~InLine(q.g)
      BY <2>1, <2>3 DEF Fill
    <3>2. Step(q) = [q EXCEPT !.g = q.g]
      BY <2>3, <3>1 DEF TakeChar
    <3>. QED BY <2>1, <3>2
  <2>. QED BY <2>2, <2>3
<1>. HIDE DEF Step
<1>5. \A q \in S : Step(q) \in S
  BY <1>3, <1>4
<1>6. pl \in [S -> 0 .. Turns - 1]
  <2>1. \A q \in S : Place(q.g) \in p0 .. Total
    OBVIOUS
  <2>. HIDE DEF S
  <2>2. \A q \in S : Place(q.g) \in 0 .. Turns - 1
    BY <1>1, <2>1
  <2>. QED BY <2>2
<1>7. TakeString(g, cap) = Turn[Turns]
  BY Zenon DEF TakeString, Repeat, Step
<1>. HIDE DEF S, a
<1>8. G \in [S -> S]
  BY <1>5
<1>9. PICK t : t \in [0 .. Turns -> S] /\ IsLoop(t, Turns, a, G)
  <2>. HIDE DEF G
  <2>. QED BY <1>1, <1>2, <1>8, RunIs
<1>10. t = [n \in 0 .. Turns |-> IF n = 0 THEN a ELSE Step(t[n - 1])]
  <2>1. \A n \in 0 .. Turns : t[n] = IF n = 0 THEN a ELSE G[t[n - 1]]
    BY <1>9 DEF IsLoop
  <2>2. ASSUME NEW n \in 0 .. Turns, n # 0 PROVE t[n - 1] \in S
    <3>1. n - 1 \in 0 .. Turns
      BY <1>1, <2>2
    <3>. QED BY <1>9, <3>1
  <2>3. \A n \in 0 .. Turns : t[n] = IF n = 0 THEN a ELSE Step(t[n - 1])
    BY <2>1, <2>2
  <2>. QED BY <1>9, <2>3
<1>11. Turn = [n \in 0 .. Turns |-> IF n = 0 THEN a ELSE Step(Turn[n - 1])]
  BY <1>10, Zenon
<1>. HIDE DEF Turn
<1>12. Turn[0] = a /\ \A i \in 1 .. Turns : Turn[i] = Step(Turn[i - 1])
  BY <1>1, <1>11
<1>. HIDE DEF D
<1>13. \A x \in S : x \in D => G[x] \in D
  BY <1>4
<1>14. \A x \in S : x \notin D => G[x] \in D \/ pl[G[x]] = pl[x] + 1
  BY <1>3, <1>5
<1>15. MovesOrEnds(S, D, G, pl)
  BY <1>13, <1>14, Zenon DEF MovesOrEnds
<1>16. Follows(Turn, Turns, S, G)
  BY <1>2, <1>12 DEF Follows
<1>17. Turn[Turns] \in S /\ Turn[Turns] \in D
  <2>. HIDE DEF pl, G
  <2>. QED BY <1>1, <1>6, <1>8, <1>15, <1>16, RunEnds
<1>18. ASSUME NEW q \in S, q \in D
       PROVE  Place(q.g) - p0 = cap \/ Place(q.g) = Total \/ Comp(Place(q.g) + 1) = NL
  <2>. DEFINE k == Place(q.g)  h == q.g
  <2>1. /\ Sound(h) /\ k \in p0 .. Total /\ q.num = Span(p0, k) /\ k - p0 <= cap
        /\ Len(q.num) >= cap \/ (h.have /\ ~InLine(h))
    BY <1>18 DEF S, D
  <2>2. p0 \in Nat /\ Total \in Nat /\ k \in Nat
    <3>. HIDE DEF k
    <3>. QED BY <1>1, <2>1
  <2>3. Place(h) = k
    OBVIOUS
  <2>. HIDE DEF k, h
  <2>4. Len(q.num) = k - p0
    BY <2>1, <2>2, SpanIs
  <2>5. CASE Len(q.num) >= cap
    BY <2>1, <2>2, <2>4, <2>5 DEF k
  <2>6. CASE h.have /\ ~InLine(h)
    <3>1. h.ateof = (h.lookahead = EOF)
      BY <2>1, <2>6 DEF Sound, ShowsTheText
    <3>2. h.lookahead = IF k < Total THEN Comp(k + 1) ELSE EOF
      BY <2>1, <2>3, <2>6, LookaheadIs
    <3>3. h.lookahead = EOF \/ h.lookahead = NL
      BY <2>6, <3>1 DEF InLine
    <3>4. CASE k < Total
      <4>1. k + 1 \in 1 .. Total
        BY <2>2, <3>4
      <4>2. Comp(k + 1) \in C
        BY <4>1, TotalIs
      <4>3. Comp(k + 1) # EOF
        BY <4>2, Classes
      <4>. QED BY <3>2, <3>3, <3>4, <4>3 DEF k
    <3>5. CASE ~(k < Total)
      <4>1. k = Total
        BY <2>1, <2>2, <3>5
      <4>. QED BY <4>1 DEF k
    <3>. QED BY <3>4, <3>5
  <2>. QED BY <2>1, <2>5, <2>6
<1>. QED BY <1>7, <1>17, <1>18, Zenon DEF S, p0

\* The digits from the place a run up to d.
DigitsTo(a, d) == d \in a .. Total /\ AllIn(Digit, a, d) /\ (d < Total => Comp(d + 1) \notin Digit)

\* What the lookahead of a number shows, and when its last character is a digit.
LEMMA TakenShows ==
  ASSUME text \in Seq(C), NEW b \in Nat, NEW r, Taken(r, b)
  PROVE  /\ Place(r.g) \in b .. Total /\ Place(r.g) \in Nat /\ Total \in Nat
         /\ Sound(r.g) /\ r.g.have /\ r \in [g : File, num : Seq(C)]
         /\ r.g.lookahead = (IF Place(r.g) < Total THEN Comp(Place(r.g) + 1) ELSE EOF)
         /\ (Shows(r.g) <=> Place(r.g) < Total)
         /\ (HasDigits(r) <=> b < Place(r.g) /\ Comp(Place(r.g)) \in Digit)
<1>1. /\ r \in [g : File, num : Seq(C)] /\ Sound(r.g) /\ r.g.have
      /\ Place(r.g) \in b .. Total /\ r.num = Span(b, Place(r.g))
  BY DEF Taken
<1>. DEFINE g == r.g  k == Place(g)
<1>2. Sound(g) /\ g.have /\ k \in b .. Total /\ r.num = Span(b, k) /\ Total \in Nat
  BY <1>1, TotalIs
<1>. HIDE DEF g
<1>3. g.lookahead = (IF k < Total THEN Comp(k + 1) ELSE EOF) /\ (Shows(g) <=> k < Total)
  BY <1>2, LookaheadIs
<1>. HIDE DEF k
<1>4. k \in Nat
  BY <1>2
<1>5. HasDigits(r) <=> b < k /\ Comp(k) \in Digit
  <2>1. Len(r.num) = k - b /\ \A i \in 1 .. k - b : r.num[i] = Comp(b + i)
    BY <1>2, SpanIs
  <2>2. r.num = <<>> <=> b = k
    BY <1>2, SpanParts
  <2>3. CASE b < k
    <3>1. k - b \in 1 .. k - b /\ b + (k - b) = k
      BY <1>4, <2>3
    <3>2. r.num[k - b] = Comp(b + (k - b))
      BY <2>1, <3>1
    <3>3. Last(r.num) = Comp(k)
      BY <2>1, <3>1, <3>2 DEF Last
    <3>4. r.num # <<>>
      BY <2>2, <2>3, <1>4
    <3>. QED BY <2>3, <3>3, <3>4 DEF HasDigits
  <2>4. CASE ~(b < k)
    <3>1. b = k
      BY <1>2, <1>4, <2>4
    <3>. QED BY <2>2, <2>4, <3>1 DEF HasDigits
  <2>. QED BY <2>3, <2>4
<1>. QED BY <1>1, <1>2, <1>3, <1>4, <1>5 DEF g, k

\* A sign is taken if there is one.
LEMMA TakeSignIs ==
  ASSUME text \in Seq(C), NEW b \in Nat, NEW r, Taken(r, b), Place(r.g) = b
  PROVE  /\ Taken(TakeSign(r), b)
         /\ Place(TakeSign(r).g) = IF b < Total /\ Comp(b + 1) \in Sign THEN b + 1 ELSE b
<1>1. /\ r.g.lookahead = (IF Place(r.g) < Total THEN Comp(Place(r.g) + 1) ELSE EOF)
      /\ (Shows(r.g) <=> Place(r.g) < Total)
  BY TakenShows
<1>2. EOF \notin Sign
  BY Classes
<1>3. CASE At(Sign, r.g)
  <2>1. b < Total /\ Comp(b + 1) \in Sign /\ Shows(r.g)
    BY <1>1, <1>2, <1>3 DEF At
  <2>2. Taken(TakeOne(r), b) /\ Place(TakeOne(r).g) = Place(r.g) + 1
    BY <2>1, TakeOneIs
  <2>. QED BY <1>3, <2>1, <2>2 DEF TakeSign
<1>4. CASE ~At(Sign, r.g)
  BY <1>1, <1>4 DEF TakeSign, At
<1>. QED BY <1>3, <1>4

\* The loop over digits takes all there are.
LEMMA TakeDigitsTo ==
  ASSUME text \in Seq(C), NEW b \in Nat, NEW r, Taken(r, b)
  PROVE  LET q == TakeDigits(r) IN
         /\ Taken(q, b) /\ DigitsTo(Place(r.g), Place(q.g)) /\ q.g.lookahead \notin Digit
         /\ r.g.pushback = <<>> \/ Place(q.g) > Place(r.g) => q.g.pushback = <<>>
<1>. DEFINE q == TakeDigits(r)
<1>1. /\ Taken(q, b) /\ Place(q.g) \in Place(r.g) .. Total
      /\ AllIn(Digit, Place(r.g), Place(q.g)) /\ ~AtDigit(q.g)
      /\ r.g.pushback = <<>> \/ Place(q.g) > Place(r.g) => q.g.pushback = <<>>
  BY TakeDigitsIs, Zenon
<1>. HIDE DEF q
<1>2. q.g.lookahead = (IF Place(q.g) < Total THEN Comp(Place(q.g) + 1) ELSE EOF)
  BY <1>1, TakenShows
<1>3. q.g.lookahead \notin Digit
  BY <1>1 DEF AtDigit, At
<1>4. DigitsTo(Place(r.g), Place(q.g))
  BY <1>1, <1>2, <1>3, Zenon DEF DigitsTo
<1>. QED BY <1>1, <1>3, <1>4 DEF q

\* What follows the digits up to d: a point and a digit, ...
HasFraction(d) ==
  d < Total /\ Comp(d + 1) = "." /\ d + 1 < Total /\ Comp(d + 2) \in Digit

\* A number whose place went back to d by a give-back is what it was.
LEMMA GivenBack ==
  ASSUME text \in Seq(C), NEW b \in Nat, NEW r, Taken(r, b), NEW h, Sound(h), h.have,
         Place(h) = Place(r.g)
  PROVE  Taken([r EXCEPT !.g = h], b) /\ [r EXCEPT !.g = h].g = h
<1>1. /\ r \in [g : File, num : Seq(C)] /\ h \in File
      /\ Place(r.g) \in b .. Total /\ r.num = Span(b, Place(r.g))
  BY DEF Taken, Sound
<1>. DEFINE q == [r EXCEPT !.g = h]
<1>2. q \in [g : File, num : Seq(C)] /\ q.g = h /\ q.num = r.num
  BY <1>1
<1>. HIDE DEF q
<1>3. Taken(q, b)
  BY <1>1, <1>2 DEF Taken
<1>. QED BY <1>2, <1>3 DEF q

LEMMA TakeFractionIs ==
  ASSUME text \in Seq(C), NEW b \in Nat, NEW r, Taken(r, b),
         HasDigits(r) => r.g.pushback = <<>>
  PROVE  LET q == TakeFraction(r)
             d == Place(r.g)
         IN /\ Taken(q, b)
            /\ HasDigits(r) /\ HasFraction(d) =>
                 DigitsTo(d + 1, Place(q.g)) /\ Place(q.g) > d + 1
            /\ ~(HasDigits(r) /\ HasFraction(d)) => Place(q.g) = d
            /\ HasDigits(q) /\ q.g.lookahead = "e" => q.g.pushback = <<>>
<1>. DEFINE q == TakeFraction(r)  d == Place(r.g)  h == Advance(r.g)
<1>1. /\ d \in b .. Total /\ d \in Nat /\ Total \in Nat /\ Sound(r.g) /\ r.g.have
      /\ r \in [g : File, num : Seq(C)]
      /\ r.g.lookahead = (IF d < Total THEN Comp(d + 1) ELSE EOF)
      /\ (Shows(r.g) <=> d < Total)
  BY TakenShows
<1>2. "." \notin Digit /\ "." \in C /\ "." # "e" /\ EOF # "." /\ EOF \notin Digit
  BY Classes DEF EOF
<1>3. CASE ~(At({"."}, r.g) /\ HasDigits(r))
  <2>1. q = r
    BY <1>3 DEF TakeFraction
  <2>2. ~(HasDigits(r) /\ HasFraction(d))
    BY <1>1, <1>3 DEF At, HasFraction
  <2>. HIDE DEF q, d
  <2>3. Place(q.g) = d
    BY <2>1 DEF d
  <2>. QED BY <2>1, <2>2, <2>3 DEF q, d
<1>4. CASE At({"."}, r.g) /\ HasDigits(r)
  <2>1. r.g.lookahead = "." /\ d < Total /\ Comp(d + 1) = "." /\ Shows(r.g) /\ r.g.pushback = <<>>
    <3>. HIDE DEF d
    <3>1. r.g.lookahead = "." /\ r.g.pushback = <<>>
      BY <1>4 DEF At
    <3>. QED BY <1>1, <1>2, <3>1
  <2>2. /\ Sound(h) /\ h.have /\ Place(h) = d + 1
        /\ h.lookahead = IF d + 1 < Total THEN Comp(d + 2) ELSE EOF
        /\ h.pushback = <<>>
    BY <1>1, <2>1, AdvanceMoves
  <2>3. AtDigit(h) <=> HasFraction(d)
    <3>. HIDE DEF d, h
    <3>. QED BY <1>2, <2>1, <2>2 DEF AtDigit, At, HasFraction
  <2>4. CASE AtDigit(h)
    <3>. DEFINE o == TakeOne(r)
    <3>1. Taken(o, b) /\ Place(o.g) = d + 1
      BY <2>1, TakeOneIs
    <3>2. o = [g |-> h, num |-> Append(r.num, ".")] /\ o.g = h
      BY <2>1 DEF TakeOne
    <3>3. q = TakeDigits(o)
      BY <1>4, <2>4, <3>2 DEF TakeFraction
    <3>. HIDE DEF o
    <3>4. Taken(q, b) /\ DigitsTo(d + 1, Place(q.g)) /\ q.g.pushback = <<>>
      <4>1. o.g.pushback = <<>>
        BY <2>2, <3>2
      <4>2. LET w == TakeDigits(o) IN
            /\ Taken(w, b) /\ DigitsTo(Place(o.g), Place(w.g)) /\ w.g.lookahead \notin Digit
            /\ o.g.pushback = <<>> \/ Place(w.g) > Place(o.g) => w.g.pushback = <<>>
        BY <3>1, TakeDigitsTo
      <4>. HIDE DEF q, d
      <4>. QED BY <3>1, <3>3, <4>1, <4>2, Zenon
    <3>5. Place(q.g) > d + 1
      <4>. DEFINE e == Place(q.g)
      <4>. HIDE DEF q, d, e, h
      <4>1. e \in d + 1 .. Total /\ (e < Total => Comp(e + 1) \notin Digit)
        BY <3>4, Zenon DEF DigitsTo, e
      <4>2. d + 1 < Total /\ Comp(d + 2) \in Digit
        BY <2>3, <2>4 DEF HasFraction
      <4>3. e # d + 1
        <5>. SUFFICES ASSUME e = d + 1 PROVE FALSE
          OBVIOUS
        <5>1. e + 1 = d + 2 /\ e < Total
          BY <1>1, <4>2
        <5>. QED BY <4>1, <4>2, <5>1, Zenon
      <4>4. e > d + 1
        BY <1>1, <4>1, <4>3
      <4>. QED BY <4>4 DEF e
    <3>. HIDE DEF q, d, h
    <3>6. HasFraction(d) /\ HasDigits(r)
      BY <1>4, <2>3, <2>4
    <3>. QED BY <3>4, <3>5, <3>6, Zenon DEF q, d
  <2>5. CASE ~AtDigit(h)
    <3>. DEFINE u == Unread(h, ".")
    <3>1. q = [r EXCEPT !.g = u]
      BY <1>4, <2>5 DEF TakeFraction
    <3>2. /\ Sound(u) /\ u.have /\ Place(u) = d /\ u.lookahead = "."
      <4>. HIDE DEF d, h
      <4>1. h.lookahead \notin Digit
        BY <2>5 DEF AtDigit, At
      <4>2. Place(h) > 0 /\ "." = Comp(Place(h)) /\ Len(h.pushback) <= 1
        <5>1. Place(h) > 0 /\ "." = Comp(Place(h))
          BY <1>1, <2>1, <2>2
        <5>2. Len(h.pushback) = 0
          BY <2>2
        <5>. QED BY <5>1, <5>2
      <4>3. Sound(u) /\ u.have /\ Place(u) = Place(h) - 1 /\ u.lookahead = "."
        BY <1>2, <2>2, <4>1, <4>2, UnreadReturns
      <4>. HIDE DEF u
      <4>. QED BY <1>1, <2>2, <4>3
    <3>. HIDE DEF u
    <3>3. Taken(q, b) /\ q.g = u
      BY <3>1, <3>2, GivenBack
    <3>4. ~HasFraction(d)
      BY <2>3, <2>5
    <3>. HIDE DEF q, d, h
    <3>5. Place(q.g) = d /\ q.g.lookahead # "e"
      BY <1>2, <3>2, <3>3
    <3>. QED BY <3>3, <3>4, <3>5 DEF q, d
  <2>. QED BY <2>4, <2>5
<1>. QED BY <1>3, <1>4

\* ... and an `e`, with or without a sign, and a digit.
Scale(d) == IF d + 1 < Total /\ Comp(d + 2) \in Sign THEN d + 2 ELSE d + 1
HasScale(d) ==
  d < Total /\ Comp(d + 1) = "e" /\ Scale(d) < Total /\ Comp(Scale(d) + 1) \in Digit

\* Digits that are there are taken: the loop goes on.
LEMMA DigitsGoOn ==
  ASSUME text \in Seq(C), NEW a \in Nat, NEW e, DigitsTo(a, e), a < Total, Comp(a + 1) \in Digit
  PROVE  e > a
<1>1. e \in a .. Total /\ (e < Total => Comp(e + 1) \notin Digit) /\ Total \in Nat
  BY TotalIs, Zenon DEF DigitsTo
<1>2. e # a
  BY <1>1, Zenon
<1>. QED BY <1>1, <1>2

LEMMA TakeScaleIs ==
  ASSUME text \in Seq(C), NEW b \in Nat, NEW r, Taken(r, b),
         HasDigits(r) /\ r.g.lookahead = "e" => r.g.pushback = <<>>
  PROVE  LET q == TakeScale(r)
             d == Place(r.g)
         IN /\ Taken(q, b)
            /\ HasDigits(r) /\ HasScale(d) =>
                 DigitsTo(Scale(d), Place(q.g)) /\ Place(q.g) > Scale(d)
            /\ ~(HasDigits(r) /\ HasScale(d)) => Place(q.g) = d
<1>. DEFINE q == TakeScale(r)  d == Place(r.g)  h == Advance(r.g)
            sign == IF At(Sign, h) THEN <<h.lookahead>> ELSE <<>>
            k == IF sign = <<>> THEN h ELSE Advance(h)
<1>1. /\ d \in b .. Total /\ d \in Nat /\ Total \in Nat /\ Sound(r.g) /\ r.g.have
      /\ r \in [g : File, num : Seq(C)]
      /\ r.g.lookahead = (IF d < Total THEN Comp(d + 1) ELSE EOF)
      /\ (Shows(r.g) <=> d < Total)
  BY TakenShows
<1>2. /\ "e" \notin Digit /\ "e" \in C /\ EOF # "e" /\ EOF \notin Digit /\ EOF \notin Sign
      /\ Sign \subseteq C /\ Digit \cap Sign = {}
  BY Classes DEF EOF
<1>3. CASE ~(At({"e"}, r.g) /\ HasDigits(r))
  <2>1. q = r
    BY <1>3 DEF TakeScale
  <2>2. ~(HasDigits(r) /\ HasScale(d))
    BY <1>1, <1>3 DEF At, HasScale
  <2>. HIDE DEF q, d
  <2>3. Place(q.g) = d
    BY <2>1 DEF d
  <2>. QED BY <2>1, <2>2, <2>3 DEF q, d
<1>4. CASE At({"e"}, r.g) /\ HasDigits(r)
  <2>1. r.g.lookahead = "e" /\ d < Total /\ Comp(d + 1) = "e" /\ Shows(r.g) /\ r.g.pushback = <<>>
    <3>. HIDE DEF d
    <3>1. r.g.lookahead = "e" /\ r.g.pushback = <<>>
      BY <1>4 DEF At
    <3>. QED BY <1>1, <1>2, <3>1
  <2>2. /\ Sound(h) /\ h.have /\ Place(h) = d + 1
        /\ h.lookahead = (IF d + 1 < Total THEN Comp(d + 2) ELSE EOF)
        /\ h.pushback = <<>>
    BY <1>1, <2>1, AdvanceMoves
  <2>. DEFINE o == TakeOne(r)
  <2>3. Taken(o, b) /\ Place(o.g) = d + 1 /\ o.g = h /\ o.num = Append(r.num, "e")
    <3>1. Taken(o, b) /\ Place(o.g) = d + 1
      BY <2>1, TakeOneIs
    <3>. QED BY <2>1, <3>1 DEF TakeOne
  \* The sign after the `e`.
  <2>4. /\ Taken([g |-> k, num |-> r.num \o <<"e">> \o sign], b) /\ k.pushback = <<>>
        /\ Sound(k) /\ k.have /\ Place(k) = Scale(d)
        /\ k.lookahead = IF Scale(d) < Total THEN Comp(Scale(d) + 1) ELSE EOF
        /\ sign # <<>> => sign[1] \in Sign /\ sign[1] = Comp(d + 2) /\ Scale(d) = d + 2
        /\ sign = <<>> => Scale(d) = d + 1
    <3>1. r.num \in Seq(C) /\ o \in [g : File, num : Seq(C)] /\ o.num \in Seq(C)
      BY <1>1, <2>3 DEF Taken
    <3>2. r.num \o <<"e">> = o.num
      BY <1>2, <2>3, <3>1, AppendIsConcat
    <3>3. CASE At(Sign, h)
      <4>1. sign = <<h.lookahead>> /\ h.lookahead \in Sign /\ k = Advance(h)
        BY <3>3 DEF At
      <4>2. Shows(h) /\ h.lookahead \in C
        BY <1>2, <2>2, <4>1 DEF Shows
      <4>. HIDE DEF d, h, sign, k
      <4>3. h.lookahead = Comp(d + 2) /\ d + 1 < Total
        BY <1>2, <2>2, <4>1
      <4>4. Scale(d) = d + 2
        BY <4>1, <4>3 DEF Scale
      <4>5. /\ Sound(k) /\ k.have /\ Place(k) = Place(h) + 1 /\ k.pushback = <<>>
            /\ k.lookahead = IF Place(h) + 1 < Total THEN Comp(Place(h) + 2) ELSE EOF
        BY <2>2, <4>1, <4>2, AdvanceMoves
      <4>6. Place(h) + 1 = Scale(d) /\ Place(h) + 2 = Scale(d) + 1
        BY <1>1, <2>2, <4>4
      <4>7. Taken(TakeOne(o), b)
        <5>1. Shows(o.g)
          BY <2>3, <4>2
        <5>. HIDE DEF o
        <5>. QED BY <2>3, <5>1, TakeOneIs
      <4>8. TakeOne(o) = [g |-> k, num |-> Append(o.num, h.lookahead)]
        BY <2>3, <4>1 DEF TakeOne
      <4>. HIDE DEF o
      <4>9. Append(o.num, h.lookahead) = r.num \o <<"e">> \o sign
        <5>1. Append(o.num, h.lookahead) = o.num \o <<h.lookahead>>
          BY <3>1, <4>2, AppendIsConcat
        <5>. QED BY <3>2, <4>1, <5>1
      <4>10. Taken([g |-> k, num |-> r.num \o <<"e">> \o sign], b)
        BY <4>7, <4>8, <4>9
      <4>11. sign[1] \in Sign /\ sign[1] = Comp(d + 2) /\ sign # <<>>
        BY <4>1, <4>3
      <4>. QED BY <4>4, <4>5, <4>6, <4>10, <4>11
    <3>4. CASE ~At(Sign, h)
      <4>1. sign = <<>> /\ k = h
        BY <3>4
      <4>. HIDE DEF d, h, sign, k
      <4>2. Scale(d) = d + 1
        BY <2>2, <3>4 DEF Scale, At
      <4>3. Scale(d) + 1 = d + 2
        BY <1>1, <4>2
      <4>4. r.num \o <<"e">> \o sign = o.num
        BY <3>1, <3>2, <4>1, ConcatEmptySeq
      <4>. HIDE DEF o
      <4>5. [g |-> k, num |-> o.num] = o
        BY <2>3, <3>1, <4>1
      <4>6. Taken([g |-> k, num |-> r.num \o <<"e">> \o sign], b)
        BY <2>3, <4>4, <4>5
      <4>. QED BY <2>2, <4>1, <4>2, <4>3, <4>6
    <3>. QED BY <3>3, <3>4
  <2>. DEFINE w == [g |-> k, num |-> r.num \o <<"e">> \o sign]  c == Scale(d)
  <2>5. w.g = k /\ (AtDigit(k) <=> HasScale(d))
    <3>1. w.g = k
      OBVIOUS
    <3>. HIDE DEF d, h, k, sign, w, o
    <3>2. AtDigit(k) <=> HasScale(d)
      BY <1>2, <2>1, <2>4 DEF AtDigit, At, HasScale
    <3>. QED BY <3>1, <3>2
  <2>6. c \in Nat /\ c > 0 /\ (c = d + 1 \/ c = d + 2)
    <3>. HIDE DEF d
    <3>. QED BY <1>1 DEF Scale
  <2>7. CASE AtDigit(k)
    <3>1. q = TakeDigits(w)
      <4>. HIDE DEF w
      <4>. QED BY <1>4, <2>7, Zenon DEF TakeScale, w, k, sign, h
    <3>. HIDE DEF d, h, k, sign, w, o, q
    <3>2. Taken(q, b) /\ DigitsTo(c, Place(q.g))
      <4>1. Taken(w, b) /\ Place(w.g) = c
        BY <2>4, <2>5 DEF w
      <4>2. LET z == TakeDigits(w) IN
            /\ Taken(z, b) /\ DigitsTo(Place(w.g), Place(z.g)) /\ z.g.lookahead \notin Digit
            /\ w.g.pushback = <<>> \/ Place(z.g) > Place(w.g) => z.g.pushback = <<>>
        BY <4>1, TakeDigitsTo
      <4>. QED BY <3>1, <4>1, <4>2, Zenon
    <3>3. HasScale(d) /\ HasDigits(r)
      BY <1>4, <2>5, <2>7
    <3>4. Place(q.g) > c
      <4>. DEFINE e == Place(q.g)
      <4>1. DigitsTo(c, e) /\ c < Total /\ Comp(c + 1) \in Digit
        BY <3>2, <3>3 DEF HasScale
      <4>. HIDE DEF c, e
      <4>2. e > c
        BY <2>6, <4>1, DigitsGoOn
      <4>. QED BY <4>2 DEF e
    <3>. QED BY <3>2, <3>3, <3>4, Zenon DEF q, d
  <2>8. CASE ~AtDigit(k)
    <3>. DEFINE v == IF sign = <<>> THEN k ELSE Unread(k, sign[1])  u == Unread(v, "e")
    <3>1. q = [r EXCEPT !.g = u]
      <4>. HIDE DEF k, sign, h
      <4>. QED BY <1>4, <2>8, Zenon DEF TakeScale, k, sign, h
    <3>. HIDE DEF d, h, k, sign, w, o, q
    <3>2. k.lookahead \notin Digit /\ Len(k.pushback) = 0
      BY <2>4, <2>8 DEF AtDigit, At
    <3>3. /\ Sound(v) /\ v.have /\ Place(v) = d + 1 /\ v.lookahead \notin Digit
          /\ Len(v.pushback) <= 1
      <4>1. CASE sign = <<>>
        BY <2>4, <3>2, <4>1
      <4>2. CASE sign # <<>>
        <5>. DEFINE x == sign[1]
        <5>1. x \in Sign /\ x = Comp(d + 2) /\ Scale(d) = d + 2 /\ Place(k) = d + 2
          BY <2>4, <4>2
        <5>. HIDE DEF x
        <5>2. x \in C /\ x \notin Digit
          BY <1>2, <5>1
        <5>3. Place(k) > 0 /\ x = Comp(Place(k)) /\ Len(k.pushback) <= 1
          BY <1>1, <3>2, <5>1
        <5>4. /\ Sound(Unread(k, x)) /\ Unread(k, x).have /\ Place(Unread(k, x)) = Place(k) - 1
              /\ Unread(k, x).lookahead = x /\ Len(Unread(k, x).pushback) <= Len(k.pushback) + 1
          BY <2>4, <3>2, <5>2, <5>3, UnreadReturns
        <5>5. v = Unread(k, x)
          BY <4>2 DEF x
        <5>. HIDE DEF v
        <5>6. Place(v) = d + 1 /\ Len(v.pushback) <= 1
          BY <1>1, <3>2, <5>1, <5>4, <5>5
        <5>. QED BY <5>2, <5>4, <5>5, <5>6
      <4>. QED BY <4>1, <4>2
    <3>. HIDE DEF v
    <3>4. Sound(u) /\ u.have /\ Place(u) = d
      <4>1. Place(v) > 0 /\ "e" = Comp(Place(v))
        BY <1>1, <2>1, <3>3
      <4>2. Sound(u) /\ u.have /\ Place(u) = Place(v) - 1
        BY <1>2, <3>3, <4>1, UnreadReturns
      <4>. HIDE DEF u
      <4>. QED BY <1>1, <3>3, <4>2
    <3>. HIDE DEF u
    <3>5. Place(u) = Place(r.g)
      BY <3>4 DEF d
    <3>6. Taken(q, b) /\ q.g = u
      BY <3>1, <3>4, <3>5, GivenBack
    <3>7. ~HasScale(d)
      BY <2>5, <2>8
    <3>8. Place(q.g) = d
      BY <3>4, <3>6
    <3>. QED BY <3>6, <3>7, <3>8 DEF q, d
  <2>. QED BY <2>7, <2>8
<1>. QED BY <1>3, <1>4

-----------------------------------------------------------------------------
(* The grammar of numbers (6.1.5), on a part of the text from one place to *)
(* another, and where a number read by its parts ends.                     *)

Dig(a, e) == a < e /\ AllIn(Digit, a, e)
Int1(a, e) == Dig(a, e) \/ (a < e /\ Comp(a + 1) \in Sign /\ Dig(a + 1, e))
Dec(a, e) ==
  \/ Dig(a, e)
  \/ \E i \in 1 .. e - a : Comp(a + i) = "." /\ Dig(a, a + i - 1) /\ Dig(a + i, e)
Uns(a, e) ==
  \/ Dec(a, e)
  \/ \E i \in 1 .. e - a : Comp(a + i) = "e" /\ Dec(a, a + i - 1) /\ Int1(a + i, e)
Rea(a, e) == Uns(a, e) \/ (a < e /\ Comp(a + 1) \in Sign /\ Uns(a + 1, e))

LEMMA DigitsAt ==
  ASSUME text \in Seq(C), NEW a \in Nat, NEW e \in a .. Total
  PROVE  Std!IsDigits(Span(a, e)) <=> Dig(a, e)
<1>1. /\ Len(Span(a, e)) = e - a /\ \A i \in 1 .. e - a : Span(a, e)[i] = Comp(a + i)
      /\ (Span(a, e) = <<>> <=> a = e) /\ Total \in Nat
  BY SpanIs, SpanParts, TotalIs
<1>2. a < e <=> a # e
  BY <1>1
<1>3. (\A i \in 1 .. e - a : Comp(a + i) \in Digit) <=> AllIn(Digit, a, e)
  <2>1. ASSUME NEW j \in a + 1 .. e PROVE j - a \in 1 .. e - a /\ a + (j - a) = j
    BY <1>1
  <2>2. ASSUME NEW i \in 1 .. e - a PROVE a + i \in a + 1 .. e
    BY <1>1
  <2>3. ASSUME \A i \in 1 .. e - a : Comp(a + i) \in Digit, NEW j \in a + 1 .. e
        PROVE  Comp(j) \in Digit
    <3>1. Comp(a + (j - a)) \in Digit
      BY <2>1, <2>3, Zenon
    <3>. QED BY <2>1, <3>1
  <2>4. ASSUME AllIn(Digit, a, e), NEW i \in 1 .. e - a PROVE Comp(a + i) \in Digit
    BY <2>2, <2>4, Zenon DEF AllIn
  <2>. QED BY <2>3, <2>4, Zenon DEF AllIn
<1>4. Std!IsDigits(Span(a, e))
        <=> a # e /\ \A i \in 1 .. e - a : Span(a, e)[i] \in Digit
  BY <1>1, SameClasses, Zenon DEF Std!IsDigits
<1>5. (\A i \in 1 .. e - a : Span(a, e)[i] \in Digit)
        <=> \A i \in 1 .. e - a : Comp(a + i) \in Digit
  BY <1>1, Zenon
<1>. QED BY <1>2, <1>3, <1>4, <1>5, Zenon DEF Dig

\* Cutting a part of the text at its i-th component.
LEMMA SpanCut ==
  ASSUME text \in Seq(C), NEW a \in Nat, NEW e \in a .. Total, NEW i \in 1 .. e - a
  PROVE  /\ Span(a, e)[i] = Comp(a + i) /\ SubSeq(Span(a, e), 1, i - 1) = Span(a, a + i - 1)
         /\ Std!From(Span(a, e), i + 1) = Span(a + i, e)
         /\ a + i - 1 \in a .. Total /\ a + i \in Nat /\ e \in a + i .. Total
<1>1. Len(Span(a, e)) = e - a /\ \A j \in 1 .. e - a : Span(a, e)[j] = Comp(a + j)
  BY SpanIs
<1>2. \A m \in 1 .. e - a + 1, n \in 0 .. e - a :
        m <= n + 1 => SubSeq(Span(a, e), m, n) = Span(a + m - 1, a + n)
  BY SpanParts
<1>3. Total \in Nat
  BY TotalIs
<1>4. SubSeq(Span(a, e), 1, i - 1) = Span(a, a + i - 1)
  <2>1. 1 \in 1 .. e - a + 1 /\ i - 1 \in 0 .. e - a /\ 1 <= (i - 1) + 1
    BY <1>3
  <2>2. SubSeq(Span(a, e), 1, i - 1) = Span(a + 1 - 1, a + (i - 1))
    BY <1>2, <2>1
  <2>3. a + 1 - 1 = a /\ a + (i - 1) = a + i - 1
    BY <1>3
  <2>. QED BY <2>2, <2>3
<1>5. Std!From(Span(a, e), i + 1) = Span(a + i, e)
  <2>1. i + 1 \in 1 .. e - a + 1 /\ e - a \in 0 .. e - a /\ i + 1 <= (e - a) + 1
    BY <1>3
  <2>2. SubSeq(Span(a, e), i + 1, e - a) = Span(a + (i + 1) - 1, a + (e - a))
    BY <1>2, <2>1
  <2>3. a + (i + 1) - 1 = a + i /\ a + (e - a) = e
    BY <1>3
  <2>. QED BY <1>1, <2>2, <2>3 DEF Std!From
<1>6. a + i - 1 \in a .. Total /\ a + i \in Nat /\ e \in a + i .. Total
  BY <1>3
<1>. QED BY <1>1, <1>4, <1>5, <1>6

\* A part that begins with a sign: what remains of it.
LEMMA SpanSigned ==
  ASSUME text \in Seq(C), NEW a \in Nat, NEW e \in a .. Total
  PROVE  /\ Span(a, e) # <<>> /\ Span(a, e)[1] \in Sign <=> a < e /\ Comp(a + 1) \in Sign
         /\ a < e => /\ Tail(Span(a, e)) = Span(a + 1, e) /\ Span(a, e)[1] = Comp(a + 1)
                     /\ a + 1 \in Nat /\ e \in a + 1 .. Total
<1>1. Total \in Nat /\ (Span(a, e) = <<>> <=> a = e) /\ (a < e => Tail(Span(a, e)) = Span(a + 1, e))
  BY TotalIs, SpanParts
<1>2. a < e <=> a # e
  BY <1>1
<1>3. ASSUME a < e PROVE Span(a, e)[1] = Comp(a + 1) /\ a + 1 \in Nat /\ e \in a + 1 .. Total
  <2>1. 1 \in 1 .. e - a /\ a + 1 \in Nat /\ e \in a + 1 .. Total
    BY <1>1, <1>3
  <2>. QED BY <2>1, SpanIs
<1>. QED BY <1>1, <1>2, <1>3

LEMMA IntegerAt ==
  ASSUME text \in Seq(C), NEW a \in Nat, NEW e \in a .. Total
  PROVE  Std!IsInteger(Span(a, e)) <=> Int1(a, e)
<1>1. Std!IsInteger(Span(a, e)) <=> \/ Std!IsDigits(Span(a, e))
                                    \/ /\ Span(a, e) # <<>> /\ Span(a, e)[1] \in Sign
                                       /\ Std!IsDigits(Tail(Span(a, e)))
  BY SameClasses DEF Std!IsInteger, Std!IsSigned
<1>2. Std!IsDigits(Span(a, e)) <=> Dig(a, e)
  BY DigitsAt
<1>3. CASE a < e
  <2>1. /\ Span(a, e) # <<>> /\ Span(a, e)[1] \in Sign <=> a < e /\ Comp(a + 1) \in Sign
        /\ Tail(Span(a, e)) = Span(a + 1, e) /\ a + 1 \in Nat /\ e \in a + 1 .. Total
    BY <1>3, SpanSigned
  <2>2. Std!IsDigits(Span(a + 1, e)) <=> Dig(a + 1, e)
    BY <2>1, DigitsAt
  <2>. QED BY <1>1, <1>2, <2>1, <2>2, Zenon DEF Int1
<1>4. CASE ~(a < e)
  <2>1. ~(Span(a, e) # <<>> /\ Span(a, e)[1] \in Sign)
    BY <1>4, SpanSigned
  <2>. QED BY <1>1, <1>2, <1>4, <2>1, Zenon DEF Int1
<1>. QED BY <1>3, <1>4

LEMMA DecimalAt ==
  ASSUME text \in Seq(C), NEW a \in Nat, NEW e \in a .. Total
  PROVE  Std!IsDecimal(Span(a, e)) <=> Dec(a, e)
<1>1. Len(Span(a, e)) = e - a
  BY SpanIs
<1>2. Std!IsDecimal(Span(a, e))
        <=> \/ Std!IsDigits(Span(a, e))
            \/ \E i \in 1 .. e - a : /\ Span(a, e)[i] = "."
                                     /\ Std!IsDigits(SubSeq(Span(a, e), 1, i - 1))
                                     /\ Std!IsDigits(Std!From(Span(a, e), i + 1))
  BY <1>1, Zenon DEF Std!IsDecimal
<1>3. Std!IsDigits(Span(a, e)) <=> Dig(a, e)
  BY DigitsAt
<1>4. ASSUME NEW i \in 1 .. e - a
      PROVE  /\ Span(a, e)[i] = "." /\ Std!IsDigits(SubSeq(Span(a, e), 1, i - 1))
             /\ Std!IsDigits(Std!From(Span(a, e), i + 1))
             <=> Comp(a + i) = "." /\ Dig(a, a + i - 1) /\ Dig(a + i, e)
  <2>1. /\ Span(a, e)[i] = Comp(a + i) /\ SubSeq(Span(a, e), 1, i - 1) = Span(a, a + i - 1)
        /\ Std!From(Span(a, e), i + 1) = Span(a + i, e)
        /\ a + i - 1 \in a .. Total /\ a + i \in Nat /\ e \in a + i .. Total
    BY SpanCut
  <2>2. Std!IsDigits(Span(a, a + i - 1)) <=> Dig(a, a + i - 1)
    BY <2>1, DigitsAt
  <2>3. Std!IsDigits(Span(a + i, e)) <=> Dig(a + i, e)
    BY <2>1, DigitsAt
  <2>. QED BY <2>1, <2>2, <2>3, Zenon
<1>. QED BY <1>2, <1>3, <1>4, Zenon DEF Dec

LEMMA UnsignedAt ==
  ASSUME text \in Seq(C), NEW a \in Nat, NEW e \in a .. Total
  PROVE  Std!IsUnsigned(Span(a, e)) <=> Uns(a, e)
<1>1. Len(Span(a, e)) = e - a
  BY SpanIs
<1>2. Std!IsUnsigned(Span(a, e))
        <=> \/ Std!IsDecimal(Span(a, e))
            \/ \E i \in 1 .. e - a : /\ Span(a, e)[i] = "e"
                                     /\ Std!IsDecimal(SubSeq(Span(a, e), 1, i - 1))
                                     /\ Std!IsInteger(Std!From(Span(a, e), i + 1))
  BY <1>1, Zenon DEF Std!IsUnsigned
<1>3. Std!IsDecimal(Span(a, e)) <=> Dec(a, e)
  BY DecimalAt
<1>4. ASSUME NEW i \in 1 .. e - a
      PROVE  /\ Span(a, e)[i] = "e" /\ Std!IsDecimal(SubSeq(Span(a, e), 1, i - 1))
             /\ Std!IsInteger(Std!From(Span(a, e), i + 1))
             <=> Comp(a + i) = "e" /\ Dec(a, a + i - 1) /\ Int1(a + i, e)
  <2>1. /\ Span(a, e)[i] = Comp(a + i) /\ SubSeq(Span(a, e), 1, i - 1) = Span(a, a + i - 1)
        /\ Std!From(Span(a, e), i + 1) = Span(a + i, e)
        /\ a + i - 1 \in a .. Total /\ a + i \in Nat /\ e \in a + i .. Total
    BY SpanCut
  <2>2. Std!IsDecimal(Span(a, a + i - 1)) <=> Dec(a, a + i - 1)
    BY <2>1, DecimalAt
  <2>3. Std!IsInteger(Span(a + i, e)) <=> Int1(a + i, e)
    BY <2>1, IntegerAt
  <2>. QED BY <2>1, <2>2, <2>3, Zenon
<1>. QED BY <1>2, <1>3, <1>4, Zenon DEF Uns

LEMMA RealAt ==
  ASSUME text \in Seq(C), NEW a \in Nat, NEW e \in a .. Total
  PROVE  Std!IsReal(Span(a, e)) <=> Rea(a, e)
<1>1. Std!IsReal(Span(a, e)) <=> \/ Std!IsUnsigned(Span(a, e))
                                 \/ /\ Span(a, e) # <<>> /\ Span(a, e)[1] \in Sign
                                    /\ Std!IsUnsigned(Tail(Span(a, e)))
  BY SameClasses DEF Std!IsReal, Std!IsSigned
<1>2. Std!IsUnsigned(Span(a, e)) <=> Uns(a, e)
  BY UnsignedAt
<1>3. CASE a < e
  <2>1. /\ Span(a, e) # <<>> /\ Span(a, e)[1] \in Sign <=> a < e /\ Comp(a + 1) \in Sign
        /\ Tail(Span(a, e)) = Span(a + 1, e) /\ a + 1 \in Nat /\ e \in a + 1 .. Total
    BY <1>3, SpanSigned
  <2>2. Std!IsUnsigned(Span(a + 1, e)) <=> Uns(a + 1, e)
    BY <2>1, UnsignedAt
  <2>. QED BY <1>1, <1>2, <2>1, <2>2, Zenon DEF Rea
<1>4. CASE ~(a < e)
  <2>1. ~(Span(a, e) # <<>> /\ Span(a, e)[1] \in Sign)
    BY <1>4, SpanSigned
  <2>. QED BY <1>1, <1>2, <1>4, <2>1, Zenon DEF Rea
<1>. QED BY <1>3, <1>4

\* The digits from a place are those up to where they run.
LEMMA DigUpTo ==
  ASSUME text \in Seq(C), NEW a \in Nat, NEW d, DigitsTo(a, d), NEW e \in a .. Total
  PROVE  Dig(a, e) <=> a < e /\ e <= d
<1>1. Total \in Nat /\ d \in a .. Total /\ AllIn(Digit, a, d) /\ (d < Total => Comp(d + 1) \notin Digit)
  BY TotalIs, Zenon DEF DigitsTo
<1>2. ASSUME Dig(a, e), ~(e <= d) PROVE FALSE
  <2>1. d < Total /\ d + 1 \in a + 1 .. e
    BY <1>1, <1>2
  <2>2. Comp(d + 1) \in Digit
    BY <1>2, <2>1, Zenon DEF Dig, AllIn
  <2>. QED BY <1>1, <2>1, <2>2
<1>3. ASSUME e <= d PROVE AllIn(Digit, a, e)
  <2>1. \A j \in a + 1 .. e : j \in a + 1 .. d
    BY <1>1, <1>3
  <2>. QED BY <1>1, <2>1, Zenon DEF AllIn
<1>. QED BY <1>2, <1>3, Zenon DEF Dig

\* A decimal that begins with the digits up to d ends by z, where the fraction
\* ends if there is one; where a shorter one ends, no `e` follows.
FractionEnds(a, d, z) ==
  IF a < d /\ HasFraction(d) THEN DigitsTo(d + 1, z) /\ z > d + 1 ELSE z = d

LEMMA DecimalEnds ==
  ASSUME text \in Seq(C), NEW a \in Nat, NEW d, DigitsTo(a, d), NEW z, FractionEnds(a, d, z)
  PROVE  /\ z \in d .. Total /\ d \in a .. Total
         /\ a < d => Dec(a, z) /\ Comp(z) \in Digit
         /\ \A e \in a .. Total :
              Dec(a, e) => a < d /\ e <= z /\ (e < z => Comp(e + 1) # "e")
<1>1. /\ Total \in Nat /\ d \in a .. Total /\ AllIn(Digit, a, d)
      /\ (d < Total => Comp(d + 1) \notin Digit)
  BY TotalIs, Zenon DEF DigitsTo
<1>2. "e" \notin Digit /\ "." \notin Digit /\ "." # "e"
  BY Classes
<1>3. z \in d .. Total
  <2>1. CASE a < d /\ HasFraction(d)
    <3>1. z \in d + 1 .. Total
      BY <2>1, Zenon DEF FractionEnds, DigitsTo
    <3>. QED BY <1>1, <3>1
  <2>2. CASE ~(a < d /\ HasFraction(d))
    <3>1. z = d
      BY <2>2 DEF FractionEnds
    <3>. QED BY <1>1, <3>1
  <2>. QED BY <2>1, <2>2
<1>4. ASSUME a < d PROVE Dec(a, z) /\ Comp(z) \in Digit
  <2>1. Dig(a, d) /\ Comp(d) \in Digit
    <3>1. Dig(a, d)
      BY <1>1, <1>4 DEF Dig
    <3>2. d \in a + 1 .. d
      BY <1>1, <1>4
    <3>. QED BY <1>1, <3>1, <3>2, Zenon DEF AllIn
  <2>2. CASE HasFraction(d)
    <3>1. DigitsTo(d + 1, z) /\ z > d + 1
      BY <1>4, <2>2 DEF FractionEnds
    <3>2. AllIn(Digit, d + 1, z)
      BY <3>1 DEF DigitsTo
    <3>3. Dig(d + 1, z)
      <4>1. d + 1 < z
        BY <1>1, <1>3, <3>1
      <4>. QED BY <3>2, <4>1 DEF Dig
    <3>4. Comp(z) \in Digit
      <4>1. z \in (d + 1) + 1 .. z
        BY <1>1, <1>3, <3>1
      <4>. QED BY <3>2, <4>1, Zenon DEF AllIn
    <3>. DEFINE i == (d + 1) - a
    <3>5. i \in 1 .. z - a /\ a + i = d + 1 /\ a + i - 1 = d
      BY <1>1, <1>3, <3>1
    <3>6. Comp(a + i) = "." /\ Dig(a, a + i - 1) /\ Dig(a + i, z)
      BY <2>1, <2>2, <3>3, <3>5 DEF HasFraction
    <3>. HIDE DEF i
    <3>. QED BY <3>4, <3>5, <3>6, Zenon DEF Dec
  <2>3. CASE ~HasFraction(d)
    <3>1. z = d
      BY <2>3 DEF FractionEnds
    <3>. QED BY <2>1, <3>1 DEF Dec
  <2>. QED BY <2>2, <2>3
<1>5. ASSUME NEW e \in a .. Total, Dig(a, e)
      PROVE  a < d /\ e <= d /\ (e < d => Comp(e + 1) # "e")
  <2>1. a < e /\ e <= d
    BY <1>5, DigUpTo
  <2>2. a < d
    BY <1>1, <2>1
  <2>3. ASSUME e < d PROVE Comp(e + 1) # "e"
    <3>1. e + 1 \in a + 1 .. d
      BY <1>1, <2>3
    <3>2. Comp(e + 1) \in Digit
      BY <1>1, <3>1, Zenon DEF AllIn
    <3>. QED BY <1>2, <3>2
  <2>. QED BY <2>1, <2>2, <2>3
<1>6. ASSUME NEW e \in a .. Total, Dec(a, e)
      PROVE  a < d /\ e <= z /\ (e < z => Comp(e + 1) # "e")
  <2>1. CASE Dig(a, e)
    <3>1. a < d /\ e <= d /\ (e < d => Comp(e + 1) # "e")
      BY <1>5, <2>1
    <3>2. e <= z
      BY <1>1, <1>3, <3>1
    <3>3. ASSUME e = d, e < z PROVE Comp(e + 1) # "e"
      <4>1. HasFraction(d)
        BY <1>1, <1>3, <3>3 DEF FractionEnds
      <4>2. Comp(d + 1) = "."
        BY <4>1 DEF HasFraction
      <4>. QED BY <1>2, <3>3, <4>2
    <3>4. e < d \/ e = d
      BY <1>1, <3>1
    <3>. QED BY <3>1, <3>2, <3>3, <3>4
  <2>2. CASE ~Dig(a, e)
    <3>1. PICK i \in 1 .. e - a : Comp(a + i) = "." /\ Dig(a, a + i - 1) /\ Dig(a + i, e)
      BY <1>6, <2>2, Zenon DEF Dec
    <3>. DEFINE m == a + i - 1
    <3>2. m \in a .. Total /\ m + 1 = a + i /\ m < e /\ m + 1 \in Nat /\ e \in m + 1 .. Total
      BY <1>1, <3>1
    <3>3. Comp(m + 1) = "." /\ Dig(a, m) /\ Dig(m + 1, e)
      BY <3>1, <3>2
    <3>. HIDE DEF m
    <3>4. a < m /\ m <= d
      BY <3>2, <3>3, DigUpTo
    <3>5. m = d
      <4>. SUFFICES ASSUME m < d PROVE FALSE
        BY <1>1, <3>2, <3>4
      <4>1. m + 1 \in a + 1 .. d
        BY <1>1, <3>2, <3>4
      <4>2. Comp(m + 1) \in Digit
        BY <1>1, <4>1, Zenon DEF AllIn
      <4>. QED BY <1>2, <3>3, <4>2
    <3>6. a < d /\ HasFraction(d)
      <4>1. d + 1 < e /\ AllIn(Digit, d + 1, e)
        BY <3>3, <3>5 DEF Dig
      <4>2. d + 2 \in (d + 1) + 1 .. e /\ d < Total /\ d + 1 < Total
        BY <1>1, <3>2, <3>5, <4>1
      <4>3. Comp(d + 2) \in Digit
        BY <4>1, <4>2, Zenon DEF AllIn
      <4>. QED BY <3>3, <3>4, <3>5, <4>2, <4>3 DEF HasFraction
    <3>7. DigitsTo(d + 1, z) /\ d + 1 \in Nat /\ e \in d + 1 .. Total /\ Dig(d + 1, e)
      BY <3>2, <3>3, <3>5, <3>6 DEF FractionEnds
    <3>8. e <= z
      BY <3>7, DigUpTo
    <3>9. ASSUME e < z PROVE Comp(e + 1) # "e"
      <4>1. AllIn(Digit, d + 1, z)
        BY <3>7 DEF DigitsTo
      <4>2. e + 1 \in (d + 1) + 1 .. z
        BY <1>1, <1>3, <3>7, <3>9
      <4>3. Comp(e + 1) \in Digit
        BY <4>1, <4>2, Zenon DEF AllIn
      <4>. QED BY <1>2, <4>3
    <3>. QED BY <3>6, <3>8, <3>9
  <2>. QED BY <2>1, <2>2
<1>. QED BY <1>1, <1>3, <1>4, <1>6

\* The first of some digits is one.
LEMMA DigFirst ==
  ASSUME text \in Seq(C), NEW a \in Nat, NEW e \in a .. Total, Dig(a, e)
  PROVE  a < Total /\ a < e /\ Comp(a + 1) \in Digit
<1>1. Total \in Nat /\ a < e /\ AllIn(Digit, a, e)
  BY TotalIs DEF Dig
<1>2. a < Total /\ a + 1 \in a + 1 .. e
  BY <1>1
<1>. QED BY <1>1, <1>2, Zenon DEF AllIn

\* An unsigned number ends by x, where the scale factor ends if there is one.
ScaleEnds(a, d, z, x) ==
  IF a < d /\ HasScale(z) THEN DigitsTo(Scale(z), x) /\ x > Scale(z) ELSE x = z

LEMMA UnsignedEnds ==
  ASSUME text \in Seq(C), NEW a \in Nat, NEW d, DigitsTo(a, d), NEW z, FractionEnds(a, d, z),
         NEW x, ScaleEnds(a, d, z, x)
  PROVE  /\ x \in z .. Total /\ z \in d .. Total /\ d \in a .. Total
         /\ a < d => Uns(a, x) /\ Comp(x) \in Digit
         /\ \A e \in a .. Total : Uns(a, e) => a < d /\ e <= x
<1>1. /\ z \in d .. Total /\ d \in a .. Total
      /\ a < d => Dec(a, z) /\ Comp(z) \in Digit
      /\ \A e \in a .. Total : Dec(a, e) => a < d /\ e <= z /\ (e < z => Comp(e + 1) # "e")
  BY DecimalEnds
<1>2. Total \in Nat /\ d \in Nat /\ z \in Nat
  BY <1>1, TotalIs
<1>3. Digit \cap Sign = {}
  BY Classes
<1>. DEFINE s == Scale(z)
<1>4. s \in Nat /\ (s = z + 1 \/ s = z + 2) /\ (s = z + 2 <=> z + 1 < Total /\ Comp(z + 2) \in Sign)
  BY <1>2 DEF Scale
<1>5. x \in z .. Total
  <2>1. CASE a < d /\ HasScale(z)
    <3>1. x \in s .. Total
      BY <2>1, Zenon DEF ScaleEnds, DigitsTo
    <3>. HIDE DEF s
    <3>. QED BY <1>2, <1>4, <3>1
  <2>2. CASE ~(a < d /\ HasScale(z))
    <3>1. x = z
      BY <2>2 DEF ScaleEnds
    <3>. QED BY <1>1, <1>2, <3>1
  <2>. QED BY <2>1, <2>2
<1>6. ASSUME a < d PROVE Uns(a, x) /\ Comp(x) \in Digit
  <2>1. CASE HasScale(z)
    <3>1. DigitsTo(s, x) /\ x > s /\ Comp(z + 1) = "e"
      BY <1>6, <2>1 DEF ScaleEnds, HasScale
    <3>. HIDE DEF s
    <3>2. AllIn(Digit, s, x) /\ s < x
      BY <1>2, <1>4, <1>5, <3>1 DEF DigitsTo
    <3>3. Dig(s, x)
      BY <3>2 DEF Dig
    <3>4. Comp(x) \in Digit
      <4>1. x \in s + 1 .. x
        BY <1>2, <1>4, <1>5, <3>2
      <4>. QED BY <3>2, <4>1, Zenon DEF AllIn
    <3>5. Int1(z + 1, x)
      <4>1. CASE s = z + 1
        BY <3>3, <4>1 DEF Int1
      <4>2. CASE s = z + 2
        <5>1. z + 1 < x /\ (z + 1) + 1 = s /\ Comp((z + 1) + 1) \in Sign
          <6>1. (z + 1) + 1 = z + 2
            BY <1>2
          <6>2. z + 1 < x
            BY <1>2, <1>5, <3>2, <4>2
          <6>3. Comp(z + 2) \in Sign
            BY <1>4, <4>2
          <6>. QED BY <4>2, <6>1, <6>2, <6>3
        <5>. QED BY <3>3, <5>1 DEF Int1
      <4>. QED BY <1>4, <4>1, <4>2
    <3>. DEFINE i == (z + 1) - a
    <3>6. i \in 1 .. x - a /\ a + i = z + 1 /\ a + i - 1 = z
      BY <1>1, <1>2, <1>4, <1>5, <3>2
    <3>7. Comp(a + i) = "e" /\ Dec(a, a + i - 1) /\ Int1(a + i, x)
      BY <1>1, <1>6, <3>1, <3>5, <3>6
    <3>. HIDE DEF i
    <3>. QED BY <3>4, <3>6, <3>7, Zenon DEF Uns
  <2>2. CASE ~HasScale(z)
    <3>1. x = z
      BY <2>2 DEF ScaleEnds
    <3>. QED BY <1>1, <1>6, <3>1 DEF Uns
  <2>. QED BY <2>1, <2>2
<1>7. ASSUME NEW e \in a .. Total, Uns(a, e) PROVE a < d /\ e <= x
  <2>1. CASE Dec(a, e)
    <3>1. a < d /\ e <= z
      BY <1>1, <2>1
    <3>. QED BY <1>2, <1>5, <3>1
  <2>2. CASE ~Dec(a, e)
    <3>1. PICK i \in 1 .. e - a : Comp(a + i) = "e" /\ Dec(a, a + i - 1) /\ Int1(a + i, e)
      BY <1>7, <2>2, Zenon DEF Uns
    <3>. DEFINE m == a + i - 1
    <3>2. m \in a .. Total /\ m + 1 = a + i /\ m < e /\ m + 1 \in Nat /\ e \in m + 1 .. Total
      BY <1>2, <3>1
    <3>3. Comp(m + 1) = "e" /\ Dec(a, m) /\ Int1(m + 1, e)
      BY <3>1, <3>2
    <3>. HIDE DEF m
    <3>4. a < d /\ m <= z /\ (m < z => Comp(m + 1) # "e")
      BY <1>1, <3>2, <3>3
    <3>5. m = z
      BY <1>2, <3>2, <3>3, <3>4
    <3>6. Comp(z + 1) = "e" /\ Int1(z + 1, e) /\ z + 1 \in Nat /\ e \in z + 1 .. Total /\ z < Total
      BY <1>2, <3>2, <3>3, <3>5
    <3>7. Dig(s, e) /\ e \in s .. Total
      <4>1. CASE Dig(z + 1, e)
        <5>1. Comp((z + 1) + 1) \in Digit
          BY <3>6, <4>1, DigFirst
        <5>2. (z + 1) + 1 = z + 2
          BY <1>2
        <5>3. s = z + 1
          BY <1>3, <1>4, <5>1, <5>2
        <5>. QED BY <3>6, <4>1, <5>3
      <4>2. CASE ~Dig(z + 1, e)
        <5>1. z + 1 < e /\ Comp((z + 1) + 1) \in Sign /\ Dig((z + 1) + 1, e)
          BY <3>6, <4>2 DEF Int1
        <5>2. (z + 1) + 1 = z + 2 /\ z + 1 < Total /\ e \in z + 2 .. Total
          BY <1>2, <3>6, <5>1
        <5>3. s = z + 2
          BY <1>4, <5>1, <5>2
        <5>. QED BY <5>1, <5>2, <5>3
      <4>. QED BY <4>1, <4>2
    <3>8. s < Total /\ Comp(s + 1) \in Digit
      <4>. HIDE DEF s
      <4>. QED BY <1>4, <3>7, DigFirst
    <3>9. HasScale(z)
      BY <3>6, <3>8 DEF HasScale
    <3>10. DigitsTo(s, x)
      BY <3>4, <3>9 DEF ScaleEnds
    <3>11. e <= x
      <4>. HIDE DEF s
      <4>. QED BY <1>4, <3>7, <3>10, DigUpTo
    <3>. QED BY <3>4, <3>11
  <2>. QED BY <2>1, <2>2
<1>. QED BY <1>1, <1>5, <1>6, <1>7

\* A number that begins after b, and after the sign there if there is one.
AfterSign(b) == IF b < Total /\ Comp(b + 1) \in Sign THEN b + 1 ELSE b

\* No number without a sign begins with one.
LEMMA UnsFirst ==
  ASSUME text \in Seq(C), NEW a \in Nat, NEW e \in a .. Total, Uns(a, e)
  PROVE  a < e /\ Comp(a + 1) \in Digit
<1>1. Total \in Nat
  BY TotalIs
<1>2. ASSUME NEW x \in a .. e, Dig(a, x) PROVE a < e /\ Comp(a + 1) \in Digit
  <2>1. x \in a .. Total
    BY <1>1
  <2>2. a < x /\ Comp(a + 1) \in Digit
    BY <1>2, <2>1, DigFirst
  <2>. QED BY <1>1, <2>2
<1>3. ASSUME NEW x \in a .. e, Dec(a, x) PROVE a < e /\ Comp(a + 1) \in Digit
  <2>1. CASE Dig(a, x)
    BY <1>2, <2>1
  <2>2. CASE ~Dig(a, x)
    <3>1. PICK i \in 1 .. x - a : Comp(a + i) = "." /\ Dig(a, a + i - 1) /\ Dig(a + i, x)
      BY <1>3, <2>2, Zenon DEF Dec
    <3>2. a + i - 1 \in a .. e
      BY <1>1, <3>1
    <3>. QED BY <1>2, <3>1, <3>2
  <2>. QED BY <2>1, <2>2
<1>4. e \in a .. e
  BY <1>1
<1>5. CASE Dec(a, e)
  BY <1>3, <1>4, <1>5
<1>6. CASE ~Dec(a, e)
  <2>1. PICK i \in 1 .. e - a : Comp(a + i) = "e" /\ Dec(a, a + i - 1) /\ Int1(a + i, e)
    BY <1>6, Zenon DEF Uns
  <2>2. a + i - 1 \in a .. e
    BY <1>1, <2>1
  <2>. QED BY <1>3, <2>1, <2>2
<1>. QED BY <1>5, <1>6

LEMMA SignedIs ==
  ASSUME text \in Seq(C), NEW b \in Nat, NEW e \in b + 1 .. Total
  PROVE  /\ AfterSign(b) \in Nat /\ e \in AfterSign(b) .. Total
         /\ Rea(b, e) <=> Uns(AfterSign(b), e)
         /\ Int1(b, e) <=> Dig(AfterSign(b), e)
<1>1. Total \in Nat /\ b < Total /\ b < e /\ e \in b .. Total
  BY TotalIs
<1>2. Digit \cap Sign = {}
  BY Classes
<1>3. ASSUME Uns(b, e) PROVE Comp(b + 1) \notin Sign
  BY <1>1, <1>2, <1>3, UnsFirst
<1>4. ASSUME Dig(b, e) PROVE Comp(b + 1) \notin Sign
  BY <1>1, <1>2, <1>4, DigFirst
<1>5. CASE Comp(b + 1) \in Sign
  <2>1. AfterSign(b) = b + 1
    BY <1>1, <1>5 DEF AfterSign
  <2>2. b + 1 \in Nat
    BY <1>1
  <2>3. (Rea(b, e) <=> Uns(b + 1, e)) /\ (Int1(b, e) <=> Dig(b + 1, e))
    BY <1>1, <1>3, <1>4, <1>5, Zenon DEF Rea, Int1
  <2>. QED BY <2>1, <2>2, <2>3
<1>6. CASE Comp(b + 1) \notin Sign
  <2>1. AfterSign(b) = b
    BY <1>6 DEF AfterSign
  <2>2. (Rea(b, e) <=> Uns(b, e)) /\ (Int1(b, e) <=> Dig(b, e))
    BY <1>6, Zenon DEF Rea, Int1
  <2>. QED BY <1>1, <2>1, <2>2
<1>. QED BY <1>5, <1>6

-----------------------------------------------------------------------------
(* The numbers that are read.                                              *)

Begins(g) == [g |-> SkipBlanks(g), num |-> <<>>]

LEMMA NumberBegins ==
  ASSUME text \in Seq(C), NEW g, Sound(g)
  PROVE  LET b == Place(SkipBlanks(g)) IN
         /\ b \in Place(g) .. Total /\ b \in Nat /\ Place(g) \in Nat /\ Total \in Nat
         /\ Taken(Begins(g), b) /\ Place(Begins(g).g) = b
         /\ AllIn({" ", NL}, Place(g), b)
         /\ b < Total => Comp(b + 1) \notin {" ", NL}
<1>. DEFINE h == SkipBlanks(g)  b == Place(h)  r == Begins(g)
<1>1. /\ Sound(h) /\ h.have /\ b \in Place(g) .. Total /\ AllIn({" ", NL}, Place(g), b)
      /\ ~AtBlank(h)
  BY SkipBlanksIs
<1>2. Place(g) \in 0 .. Total /\ Total \in Nat
  BY SoundTypes
<1>3. r.g = h /\ r.num = <<>> /\ r \in [g : File, num : Seq(C)]
  <2>1. h \in File
    BY <1>1 DEF Sound
  <2>3. <<>> \in Seq(C)
    OBVIOUS
  <2>2. r = [g |-> h, num |-> <<>>]
    BY DEF Begins
  <2>. HIDE DEF h, r
  <2>. QED BY <2>1, <2>2, <2>3
<1>. HIDE DEF r, h
<1>4. h.lookahead = IF b < Total THEN Comp(b + 1) ELSE EOF
  BY <1>1, LookaheadIs
<1>. HIDE DEF b
<1>5. b \in Nat /\ b \in b .. Total /\ Place(g) \in Nat
  <2>. DEFINE m == Place(g)
  <2>1. b \in m .. Total /\ m \in 0 .. Total
    BY <1>1, <1>2
  <2>. HIDE DEF m
  <2>2. b \in Nat /\ b \in b .. Total /\ m \in Nat
    BY <1>2, <2>1
  <2>. QED BY <2>2 DEF m
<1>6. Span(b, b) = <<>>
  BY <1>5, SpanParts
<1>7. Taken(r, b) /\ Place(r.g) = b
  BY <1>1, <1>3, <1>5, <1>6 DEF Taken, b
<1>8. b < Total => Comp(b + 1) \notin {" ", NL}
  BY <1>1, <1>4 DEF AtBlank, At
<1>. QED BY <1>1, <1>2, <1>5, <1>7, <1>8 DEF b, r, h

\* A number has digits when any follow its sign.
LEMMA DigitsTaken ==
  ASSUME text \in Seq(C), NEW b \in Nat, NEW d, DigitsTo(AfterSign(b), d), NEW r, Taken(r, b),
         AfterSign(b) < d => Place(r.g) >= d /\ Comp(Place(r.g)) \in Digit,
         ~(AfterSign(b) < d) => Place(r.g) = d
  PROVE  HasDigits(r) <=> AfterSign(b) < d
<1>. DEFINE a == AfterSign(b)  y == Place(r.g)
<1>1. d \in a .. Total /\ Total \in Nat
  BY TotalIs, Zenon DEF DigitsTo
<1>2. a \in Nat /\ (a = b \/ (a = b + 1 /\ Comp(b + 1) \in Sign))
  BY DEF AfterSign
<1>3. (HasDigits(r) <=> b < y /\ Comp(y) \in Digit) /\ y \in Nat
  BY TakenShows
<1>4. CASE a < d
  <2>1. y >= d /\ Comp(y) \in Digit
    BY <1>4
  <2>. HIDE DEF a, y
  <2>2. b < y
    BY <1>1, <1>2, <1>3, <1>4, <2>1
  <2>. QED BY <1>3, <1>4, <2>1, <2>2 DEF a
<1>5. CASE ~(a < d)
  <2>1. y = d
    BY <1>5
  <2>. HIDE DEF a, y
  <2>2. y = a
    BY <1>1, <1>2, <1>5, <2>1
  <2>3. CASE a = b
    BY <1>2, <1>3, <1>5, <2>2, <2>3 DEF a
  <2>4. CASE a = b + 1 /\ Comp(b + 1) \in Sign
    <3>1. Comp(b + 1) \notin Digit
      BY <2>4, Classes
    <3>2. Comp(y) \notin Digit
      BY <2>2, <2>4, <3>1
    <3>. QED BY <1>3, <1>5, <3>2 DEF a
  <2>. QED BY <1>2, <2>3, <2>4
<1>. QED BY <1>4, <1>5

\* An integer is the sign and the digits that are there.
LEMMA IntegerTaken ==
  ASSUME text \in Seq(C), NEW g, Sound(g)
  PROVE  LET r == TakeDigits(TakeSign(Begins(g)))
             b == Place(SkipBlanks(g))
         IN /\ Taken(r, b) /\ DigitsTo(AfterSign(b), Place(r.g)) /\ r.g.lookahead \notin Digit
            /\ HasDigits(r) <=> AfterSign(b) < Place(r.g)
            /\ HasDigits(r) => r.g.pushback = <<>>
<1>. DEFINE b == Place(SkipBlanks(g))  r0 == Begins(g)  r1 == TakeSign(r0)  r == TakeDigits(r1)
            a == AfterSign(b)  d == Place(r.g)
<1>1. b \in Nat /\ Total \in Nat /\ Taken(r0, b) /\ Place(r0.g) = b
  BY NumberBegins
<1>. HIDE DEF b, r0
<1>2. Taken(r1, b) /\ Place(r1.g) = a
  BY <1>1, TakeSignIs DEF AfterSign
<1>. HIDE DEF r1
<1>3. /\ Taken(r, b) /\ DigitsTo(Place(r1.g), Place(r.g)) /\ r.g.lookahead \notin Digit
      /\ r1.g.pushback = <<>> \/ Place(r.g) > Place(r1.g) => r.g.pushback = <<>>
  BY <1>1, <1>2, TakeDigitsTo, Zenon
<1>. HIDE DEF r
<1>4. DigitsTo(a, d) /\ d \in a .. Total /\ AllIn(Digit, a, d) /\ a \in Nat
  <2>1. DigitsTo(a, d)
    BY <1>2, <1>3
  <2>2. a \in Nat
    BY <1>1 DEF AfterSign
  <2>. QED BY <2>1, <2>2, Zenon DEF DigitsTo
<1>5. a < d => Comp(d) \in Digit
  <2>. HIDE DEF a, d
  <2>1. a < d => d \in a + 1 .. d
    BY <1>1, <1>4
  <2>. QED BY <1>4, <2>1, Zenon DEF AllIn
<1>6. (a < d => d >= d /\ Comp(d) \in Digit) /\ (~(a < d) => d = d)
  <2>. HIDE DEF a, d
  <2>1. d >= d
    BY <1>1, <1>4
  <2>. QED BY <1>5, <2>1
<1>7. HasDigits(r) <=> a < d
  <2>. HIDE DEF b
  <2>. QED BY <1>1, <1>3, <1>4, <1>6, DigitsTaken
<1>8. a < d => d > Place(r1.g)
  <2>. HIDE DEF a, d
  <2>. QED BY <1>1, <1>2, <1>4
<1>9. HasDigits(r) => r.g.pushback = <<>>
  BY <1>3, <1>7, <1>8
<1>. QED BY <1>3, <1>4, <1>7, <1>9 DEF b, r0, r1, r

\* A real is the longest one that is there, and there is none when no digit is.
LEMMA RealTaken ==
  ASSUME text \in Seq(C), NEW g, Sound(g)
  PROVE  LET r == TakeScale(TakeFraction(TakeDigits(TakeSign(Begins(g)))))
             b == Place(SkipBlanks(g))
         IN /\ Taken(r, b)
            /\ HasDigits(r) => b < Place(r.g) /\ Rea(b, Place(r.g))
            /\ \A e \in b + 1 .. Total : Rea(b, e) => HasDigits(r) /\ e <= Place(r.g)
<1>. DEFINE b == Place(SkipBlanks(g))  r2 == TakeDigits(TakeSign(Begins(g)))
            r3 == TakeFraction(r2)  r == TakeScale(r3)
            a == AfterSign(b)  d == Place(r2.g)  z == Place(r3.g)  x == Place(r.g)
<1>1. b \in Nat /\ Total \in Nat
  BY NumberBegins
<1>2. /\ Taken(r2, b) /\ DigitsTo(a, d) /\ (HasDigits(r2) <=> a < d)
      /\ HasDigits(r2) => r2.g.pushback = <<>>
  BY IntegerTaken, Zenon
<1>3. a \in Nat /\ d \in a .. Total
  <2>1. a \in Nat
    BY <1>1 DEF AfterSign
  <2>. QED BY <1>2, <2>1, Zenon DEF DigitsTo
<1>. HIDE DEF b, r2
<1>4. /\ Taken(r3, b)
      /\ HasDigits(r2) /\ HasFraction(d) => DigitsTo(d + 1, z) /\ z > d + 1
      /\ ~(HasDigits(r2) /\ HasFraction(d)) => z = d
      /\ HasDigits(r3) /\ r3.g.lookahead = "e" => r3.g.pushback = <<>>
  BY <1>1, <1>2, TakeFractionIs, Zenon
<1>5. FractionEnds(a, d, z)
  BY <1>2, <1>4, Zenon DEF FractionEnds
<1>. HIDE DEF r3
<1>6. /\ Taken(r, b)
      /\ HasDigits(r3) /\ HasScale(z) => DigitsTo(Scale(z), x) /\ x > Scale(z)
      /\ ~(HasDigits(r3) /\ HasScale(z)) => x = z
  BY <1>1, <1>4, TakeScaleIs, Zenon
<1>. HIDE DEF r
<1>7. /\ z \in d .. Total /\ d \in a .. Total
      /\ a < d => Dec(a, z) /\ Comp(z) \in Digit
  <2>. HIDE DEF a, d, z
  <2>. QED BY <1>2, <1>3, <1>5, DecimalEnds
<1>8. HasDigits(r3) <=> a < d
  <2>1. a < d => z >= d /\ Comp(z) \in Digit
    <3>. HIDE DEF a, d, z
    <3>. QED BY <1>1, <1>3, <1>7
  <2>2. ~(a < d) => z = d
    BY <1>2, <1>4
  <2>. QED BY <1>1, <1>2, <1>4, <2>1, <2>2, DigitsTaken
<1>9. ScaleEnds(a, d, z, x)
  BY <1>6, <1>8, Zenon DEF ScaleEnds
<1>10. /\ x \in z .. Total /\ (a < d => Uns(a, x) /\ Comp(x) \in Digit)
       /\ \A e \in a .. Total : Uns(a, e) => a < d /\ e <= x
  <2>. HIDE DEF a, d, z, x
  <2>. QED BY <1>2, <1>3, <1>5, <1>9, UnsignedEnds
<1>11. HasDigits(r) <=> a < d
  <2>1. a < d => x >= d /\ Comp(x) \in Digit
    <3>. HIDE DEF a, d, z, x
    <3>. QED BY <1>1, <1>3, <1>7, <1>10
  <2>2. ~(a < d) => x = d
    BY <1>2, <1>4, <1>6, <1>8
  <2>. QED BY <1>1, <1>2, <1>6, <2>1, <2>2, DigitsTaken
<1>. HIDE DEF d, z, x
<1>12. ASSUME a < d PROVE b < x /\ Rea(b, x)
  <2>1. b < x /\ x \in b + 1 .. Total
    <3>1. a \in {b, b + 1}
      BY DEF AfterSign
    <3>. HIDE DEF a
    <3>. QED BY <1>1, <1>3, <1>7, <1>10, <1>12, <3>1
  <2>2. Rea(b, x) <=> Uns(a, x)
    BY <1>1, <2>1, SignedIs
  <2>. QED BY <1>10, <1>12, <2>1, <2>2
<1>13. ASSUME NEW e \in b + 1 .. Total, Rea(b, e) PROVE a < d /\ e <= x
  <2>1. e \in a .. Total /\ Uns(a, e)
    BY <1>1, <1>13, SignedIs
  <2>. HIDE DEF a
  <2>. QED BY <1>10, <2>1
<1>14. HasDigits(r) => b < x /\ Rea(b, x)
  BY <1>11, <1>12
<1>15. \A e \in b + 1 .. Total : Rea(b, e) => HasDigits(r) /\ e <= x
  BY <1>11, <1>13
<1>. QED BY <1>6, <1>14, <1>15, Zenon DEF b, r2, r3, r, x

-----------------------------------------------------------------------------
(* What the standard says of the text from a place on, in these terms.     *)

\* What remains after i components of a part of the text.
LEMMA SpanFrom ==
  ASSUME text \in Seq(C), NEW a \in Nat, NEW b \in a .. Total
  PROVE  /\ Std!From(Span(a, Total), (b - a) + 1) = Span(b, Total)
         /\ SubSeq(Span(a, Total), 1, b - a) = Span(a, b)
         /\ Len(Span(a, Total)) = Total - a
<1>1. Total \in Nat
  BY TotalIs
<1>2. Total \in a .. Total
  BY <1>1
<1>3. /\ Len(Span(a, Total)) = Total - a
      /\ \A m \in 1 .. Total - a + 1, n \in 0 .. Total - a :
              m <= n + 1 => SubSeq(Span(a, Total), m, n) = Span(a + m - 1, a + n)
  BY <1>2, SpanIs, SpanParts
<1>4. Std!From(Span(a, Total), (b - a) + 1) = Span(b, Total)
  <2>1. /\ (b - a) + 1 \in 1 .. Total - a + 1 /\ Total - a \in 0 .. Total - a
        /\ (b - a) + 1 <= (Total - a) + 1
    BY <1>1
  <2>2. SubSeq(Span(a, Total), (b - a) + 1, Total - a) = Span(a + ((b - a) + 1) - 1, a + (Total - a))
    BY <1>3, <2>1
  <2>3. a + ((b - a) + 1) - 1 = b /\ a + (Total - a) = Total
    BY <1>1
  <2>. QED BY <1>3, <2>2, <2>3 DEF Std!From
<1>5. SubSeq(Span(a, Total), 1, b - a) = Span(a, b)
  <2>1. 1 \in 1 .. Total - a + 1 /\ b - a \in 0 .. Total - a /\ 1 <= (b - a) + 1
    BY <1>1
  <2>2. SubSeq(Span(a, Total), 1, b - a) = Span(a + 1 - 1, a + (b - a))
    BY <1>3, <2>1
  <2>3. a + 1 - 1 = a /\ a + (b - a) = b
    BY <1>1
  <2>. QED BY <2>2, <2>3
<1>. QED BY <1>3, <1>4, <1>5

LEMMA RestIs ==
  ASSUME text \in Seq(C), TextHere \in 0 .. Total
  PROVE  /\ Std!Rest = Span(TextHere, Total) /\ (Std!Rest = <<>> <=> TextHere = Total)
         /\ TextHere < Total => Head(Std!Rest) = Comp(TextHere + 1)
<1>. DEFINE h == TextHere
<1>1. Total \in Nat /\ h \in Nat /\ h \in 0 .. Total /\ Total \in h .. Total /\ 0 \in Nat
  <2>1. Total \in Nat
    BY TotalIs
  <2>. QED BY <2>1
<1>. HIDE DEF h
<1>2. Std!Terminated(text) = Span(0, Total)
  BY TerminatedIs
<1>3. Std!Rest = SubSeq(Span(0, Total), h + 1, Len(Span(0, Total)))
  BY <1>2 DEF Std!Rest, h
<1>4. Len(Span(0, Total)) = Total - 0 /\ Std!From(Span(0, Total), (h - 0) + 1) = Span(h, Total)
  BY <1>1, SpanFrom
<1>5. Total - 0 = Total /\ (h - 0) + 1 = h + 1
  BY <1>1
<1>6. Std!Rest = Span(h, Total)
  BY <1>3, <1>4, <1>5 DEF Std!From
<1>7. Span(h, Total) = <<>> <=> h = Total
  BY <1>1, SpanParts
<1>8. ASSUME h < Total PROVE Head(Std!Rest) = Comp(h + 1)
  <2>1. 1 \in 1 .. Total - h
    BY <1>1, <1>8
  <2>2. /\ Span(h, Total) \in Seq(C) /\ Len(Span(h, Total)) = Total - h
        /\ \A i \in 1 .. Total - h : Span(h, Total)[i] = Comp(h + i)
    BY <1>1, SpanIs
  <2>3. Span(h, Total)[1] = Comp(h + 1)
    BY <2>1, <2>2
  <2>. QED BY <1>6, <2>3
<1>. QED BY <1>6, <1>7, <1>8 DEF h

\* The blanks from the place a run up to b.
BlanksTo(a, b) ==
  AllIn({" ", NL}, a, b) /\ (b < Total => Comp(b + 1) \notin {" ", NL})

LEMMA BlanksAre ==
  ASSUME text \in Seq(C), NEW a \in Nat, NEW b \in a .. Total, BlanksTo(a, b)
  PROVE  Std!Blanks(Span(a, Total)) = b - a
<1>1. Total \in Nat /\ Total \in a .. Total
  <2>1. Total \in Nat
    BY TotalIs
  <2>. QED BY <2>1
<1>2. /\ Len(Span(a, Total)) = Total - a
      /\ \A i \in 1 .. Total - a : Span(a, Total)[i] = Comp(a + i)
  BY <1>1, SpanIs
<1>. DEFINE s == Span(a, Total)  N == {n \in 0 .. Total - a : \A i \in 1 .. n : s[i] \in {" ", NL}}
<1>3. Std!Blanks(s) = Std!Max(N)
  BY <1>2, SameClasses DEF Std!Blanks
<1>4. b - a \in N
  <2>1. b - a \in 0 .. Total - a
    BY <1>1
  <2>2. ASSUME NEW i \in 1 .. b - a PROVE s[i] \in {" ", NL}
    <3>1. a + i \in a + 1 .. b /\ i \in 1 .. Total - a
      BY <1>1
    <3>2. Comp(a + i) \in {" ", NL}
      BY <3>1, Zenon DEF AllIn, BlanksTo
    <3>. QED BY <1>2, <3>1, <3>2, Zenon
  <2>. HIDE DEF s
  <2>. QED BY <2>1, <2>2
<1>5. ASSUME NEW n \in N PROVE n <= b - a
  <2>1. n \in 0 .. Total - a /\ \A i \in 1 .. n : s[i] \in {" ", NL}
    OBVIOUS
  <2>. HIDE DEF N, s
  <2>. SUFFICES ASSUME ~(n <= b - a) PROVE FALSE
    OBVIOUS
  <2>2. (b - a) + 1 \in 1 .. n /\ (b - a) + 1 \in 1 .. Total - a /\ b < Total /\ a + ((b - a) + 1) = b + 1
    <3>1. n \in 0 .. Total - a
      BY <2>1
    <3>. QED BY <1>1, <3>1
  <2>3. s[(b - a) + 1] = Comp(b + 1)
    BY <1>2, <2>2 DEF s
  <2>4. s[(b - a) + 1] \in {" ", NL}
    BY <2>1, <2>2, Zenon
  <2>. QED BY <2>2, <2>3, <2>4 DEF BlanksTo
<1>6. N \subseteq Int
  <2>1. N \subseteq 0 .. Total - a
    OBVIOUS
  <2>. HIDE DEF N
  <2>. QED BY <1>1, <2>1
<1>. HIDE DEF N, s
<1>7. Std!Max(N) = b - a
  BY <1>4, <1>5, <1>6, LargestIs
<1>. QED BY <1>3, <1>7 DEF s

\* The length of the line that is there.
LEMMA LineLengthIs ==
  ASSUME text \in Seq(C), TextHere \in 0 .. Total, NEW e \in TextHere .. Total, e < Total,
         AllIn(C \ {NL}, TextHere, e), Comp(e + 1) = NL
  PROVE  Std!LineLength = e - TextHere
<1>. DEFINE a == TextHere
<1>1. Total \in Nat
  BY TotalIs
<1>2. a \in Nat /\ e \in a .. Total /\ Total \in a .. Total /\ AllIn(C \ {NL}, a, e) /\ a \in 0 .. Total
  BY <1>1
<1>3. Std!Rest = Span(a, Total)
  BY RestIs
<1>. HIDE DEF a
<1>4. /\ Len(Span(a, Total)) = Total - a
      /\ \A i \in 1 .. Total - a : Span(a, Total)[i] = Comp(a + i)
  BY <1>2, SpanIs
<1>. DEFINE s == Span(a, Total)  N == {i \in 1 .. Total - a : s[i] = NL}  m == (e - a) + 1
<1>5. Std!LineLength = Std!Min(N) - 1
  BY <1>3, <1>4, SameClasses DEF Std!LineLength
<1>6. m \in 1 .. Total - a /\ a + m = e + 1
  BY <1>1, <1>2
<1>7. s[m] = NL
  BY <1>4, <1>6
<1>8. m \in N
  BY <1>6, <1>7
<1>9. ASSUME NEW n \in N PROVE m <= n
  <2>1. n \in 1 .. Total - a /\ s[n] = NL
    OBVIOUS
  <2>2. Comp(a + n) = NL
    BY <1>4, <2>1
  <2>. HIDE DEF N, s, m
  <2>. SUFFICES ASSUME ~(m <= n) PROVE FALSE
    OBVIOUS
  <2>3. a + n \in a + 1 .. e
    BY <1>1, <1>2, <2>1 DEF m
  <2>4. Comp(a + n) \in C \ {NL}
    BY <1>2, <2>3, Zenon DEF AllIn
  <2>. QED BY <2>2, <2>4
<1>10. N \subseteq Int
  BY <1>1
<1>. HIDE DEF N, s
<1>11. Std!Min(N) = m
  <2>. HIDE DEF m
  <2>. QED BY <1>8, <1>9, <1>10, LeastIs
<1>. QED BY <1>1, <1>2, <1>5, <1>11 DEF a

LEMMA LongestReal ==
  ASSUME text \in Seq(C), NEW b \in Nat, NEW x \in b .. Total, NEW ok \in BOOLEAN,
         ok => b < x /\ Rea(b, x), \A e \in b + 1 .. Total : Rea(b, e) => ok /\ e <= x
  PROVE  Std!Longest(Span(b, Total), Std!IsReal) = IF ok THEN x - b ELSE 0
<1>1. Total \in Nat
  BY TotalIs
<1>. DEFINE s == Span(b, Total)  N == {n \in 1 .. Total - b : Std!IsReal(SubSeq(s, 1, n))}
            m == IF ok THEN x - b ELSE 0
<1>2. Len(s) = Total - b
  <2>1. b \in b .. Total
    BY <1>1
  <2>. QED BY <2>1, SpanFrom
<1>3. Std!Longest(s, Std!IsReal) = Std!Max({0} \cup N)
  BY <1>2 DEF Std!Longest
<1>4. ASSUME NEW n \in 1 .. Total - b
      PROVE  b + n \in b + 1 .. Total /\ (Std!IsReal(SubSeq(s, 1, n)) <=> Rea(b, b + n))
  <2>1. b + n \in b .. Total /\ b + n \in b + 1 .. Total /\ (b + n) - b = n
    BY <1>1
  <2>2. SubSeq(s, 1, (b + n) - b) = Span(b, b + n)
    BY <2>1, SpanFrom
  <2>3. Std!IsReal(Span(b, b + n)) <=> Rea(b, b + n)
    BY <2>1, RealAt
  <2>. QED BY <2>1, <2>2, <2>3
<1>5. ASSUME NEW n \in N PROVE n <= m
  <2>1. n \in 1 .. Total - b /\ Std!IsReal(SubSeq(s, 1, n))
    OBVIOUS
  <2>. HIDE DEF N, s
  <2>2. b + n \in b + 1 .. Total /\ Rea(b, b + n)
    BY <1>4, <2>1
  <2>3. ok /\ b + n <= x
    BY <2>2
  <2>4. n <= x - b
    BY <1>1, <2>1, <2>3
  <2>. QED BY <2>3, <2>4
<1>6. m \in {0} \cup N
  <2>1. CASE ok
    <3>1. x - b \in 1 .. Total - b /\ b + (x - b) = x /\ Rea(b, x)
      BY <1>1, <2>1
    <3>2. Std!IsReal(SubSeq(s, 1, x - b))
      <4>. HIDE DEF s
      <4>. QED BY <1>4, <3>1
    <3>. HIDE DEF s
    <3>. QED BY <2>1, <3>1, <3>2
  <2>2. CASE ~ok
    BY <2>2
  <2>. QED BY <2>1, <2>2
<1>7. {0} \cup N \subseteq Int /\ m \in Int /\ 0 <= m
  BY <1>1
<1>. HIDE DEF N, s, m
<1>8. \A n \in {0} \cup N : n <= m
  BY <1>5, <1>7
<1>9. Std!Max({0} \cup N) = m
  BY <1>6, <1>7, <1>8, LargestIs
<1>. QED BY <1>3, <1>9 DEF s, m

LEMMA LongestInteger ==
  ASSUME text \in Seq(C), NEW b \in Nat, NEW d, DigitsTo(AfterSign(b), d)
  PROVE  Std!Longest(Span(b, Total), Std!IsInteger) = IF AfterSign(b) < d THEN d - b ELSE 0
<1>. DEFINE a == AfterSign(b)
<1>1. Total \in Nat /\ d \in a .. Total /\ a \in Nat /\ a \in {b, b + 1} /\ b <= Total
  <2>1. Total \in Nat /\ d \in a .. Total
    BY TotalIs, Zenon DEF DigitsTo
  <2>2. a \in {b, b + 1} /\ a \in Nat
    BY DEF AfterSign
  <2>. HIDE DEF a
  <2>. QED BY <2>1, <2>2
<1>. DEFINE s == Span(b, Total)  N == {n \in 1 .. Total - b : Std!IsInteger(SubSeq(s, 1, n))}
            m == IF a < d THEN d - b ELSE 0
<1>2. Len(s) = Total - b
  <2>1. b \in b .. Total
    BY <1>1
  <2>. QED BY <2>1, SpanFrom
<1>3. Std!Longest(s, Std!IsInteger) = Std!Max({0} \cup N)
  BY <1>2 DEF Std!Longest
<1>4. ASSUME NEW n \in 1 .. Total - b
      PROVE  Std!IsInteger(SubSeq(s, 1, n)) <=> a < b + n /\ b + n <= d
  <2>1. b + n \in b .. Total /\ b + n \in b + 1 .. Total /\ (b + n) - b = n
    BY <1>1
  <2>2. SubSeq(s, 1, (b + n) - b) = Span(b, b + n)
    BY <2>1, SpanFrom
  <2>3. Std!IsInteger(Span(b, b + n)) <=> Int1(b, b + n)
    BY <2>1, IntegerAt
  <2>4. (Int1(b, b + n) <=> Dig(a, b + n)) /\ b + n \in a .. Total
    BY <2>1, SignedIs
  <2>5. Dig(a, b + n) <=> a < b + n /\ b + n <= d
    BY <1>1, <2>4, DigUpTo
  <2>. QED BY <2>1, <2>2, <2>3, <2>4, <2>5
<1>5. ASSUME NEW n \in N PROVE n <= m
  <2>1. n \in 1 .. Total - b /\ Std!IsInteger(SubSeq(s, 1, n))
    OBVIOUS
  <2>. HIDE DEF N, s, a
  <2>2. a < b + n /\ b + n <= d
    BY <1>4, <2>1
  <2>. QED BY <1>1, <2>1, <2>2
<1>6. m \in {0} \cup N
  <2>1. CASE a < d
    <3>1. d - b \in 1 .. Total - b /\ b + (d - b) = d /\ d <= d
      <4>. HIDE DEF a
      <4>. QED BY <1>1, <2>1
    <3>2. Std!IsInteger(SubSeq(s, 1, d - b))
      <4>. HIDE DEF s, a
      <4>. QED BY <1>4, <2>1, <3>1
    <3>. HIDE DEF s, a
    <3>. QED BY <2>1, <3>1, <3>2
  <2>2. CASE ~(a < d)
    BY <2>2
  <2>. QED BY <2>1, <2>2
<1>7. {0} \cup N \subseteq Int /\ m \in Int /\ 0 <= m
  <2>1. N \subseteq Int
    BY <1>1
  <2>. HIDE DEF N, a
  <2>. QED BY <1>1, <2>1
<1>. HIDE DEF N, s, m
<1>8. \A n \in {0} \cup N : n <= m
  BY <1>5, <1>7
<1>9. Std!Max({0} \cup N) = m
  BY <1>6, <1>7, <1>8, LargestIs
<1>. QED BY <1>3, <1>9 DEF s, m

-----------------------------------------------------------------------------
(* The value of an integer.                                                *)

\* The magnitude of digits and signs, from left to right.
IsMagnitude(s, t) ==
  /\ t \in [0 .. Len(s) -> Nat] /\ t[0] = 0
  /\ \A i \in 1 .. Len(s) :
       t[i] = IF s[i] \in Sign THEN t[i - 1] ELSE 10 * t[i - 1] + DigitValue[s[i]]

LEMMA MagnitudeRuns ==
  ASSUME NEW s \in Seq(Digit \cup Sign)
  PROVE  \E t : IsMagnitude(s, t) /\ Std!Magnitude(s) = t[Len(s)]
<1>. DEFINE n == Len(s)
            Step(x, i) == IF s[i] \in Sign THEN x ELSE 10 * x + DigitValue[s[i]]
            G == [i \in 1 .. n |-> [x \in Nat |-> Step(x, i)]]
            Of == CHOOSE u : u = [i \in 0 .. n |-> IF i = 0 THEN 0
                                    ELSE IF s[i] \in Sign THEN u[i - 1]
                                    ELSE 10 * u[i - 1] + DigitValue[s[i]]]
<1>1. n \in Nat /\ \A i \in 1 .. n : s[i] \in Digit \cup Sign
  BY LenProperties, ElementOfSeq
<1>2. DigitValue \in [Digit -> 0 .. 9]
  BY DigitValues
<1>3. ASSUME NEW i \in 1 .. n, NEW x \in Nat PROVE Step(x, i) \in Nat
  <2>1. CASE s[i] \in Sign
    BY <2>1
  <2>2. CASE s[i] \notin Sign
    <3>1. s[i] \in Digit
      BY <1>1, <2>2
    <3>2. DigitValue[s[i]] \in Nat
      BY <1>2, <3>1
    <3>. QED BY <2>2, <3>2
  <2>. QED BY <2>1, <2>2
<1>4. Std!Magnitude(s) = Of[n]
  BY SameClasses, DigitValues, Zenon DEF Std!Magnitude
<1>. HIDE DEF n
<1>5. G \in [1 .. n -> [Nat -> Nat]]
  <2>. HIDE DEF Step
  <2>. QED BY <1>3
<1>6. PICK t : IsRun(t, n, Nat, 0, G)
  <2>. HIDE DEF G
  <2>. QED BY <1>1, <1>5, RunExists
<1>7. t \in [0 .. n -> Nat] /\ t[0] = 0 /\ \A i \in 1 .. n : t[i] = G[i][t[i - 1]]
  BY <1>6 DEF IsRun
<1>8. ASSUME NEW i \in 1 .. n PROVE t[i] = Step(t[i - 1], i)
  <2>1. i - 1 \in 0 .. n
    BY <1>1
  <2>2. t[i - 1] \in Nat
    BY <1>7, <2>1
  <2>. HIDE DEF Step
  <2>. QED BY <1>7, <2>2
<1>9. t = [i \in 0 .. n |-> IF i = 0 THEN 0 ELSE IF s[i] \in Sign THEN t[i - 1]
                            ELSE 10 * t[i - 1] + DigitValue[s[i]]]
  <2>1. ASSUME NEW i \in 0 .. n, i # 0 PROVE i \in 1 .. n
    BY <1>1, <2>1
  <2>2. \A i \in 0 .. n : t[i] = IF i = 0 THEN 0 ELSE IF s[i] \in Sign THEN t[i - 1]
                                 ELSE 10 * t[i - 1] + DigitValue[s[i]]
    BY <1>7, <1>8, <2>1, Zenon
  <2>. QED BY <1>7, <2>2
<1>10. Of = [i \in 0 .. n |-> IF i = 0 THEN 0 ELSE IF s[i] \in Sign THEN Of[i - 1]
                              ELSE 10 * Of[i - 1] + DigitValue[s[i]]]
  BY <1>9, Zenon
<1>. HIDE DEF Of
<1>11. Of[0] = 0 /\ \A i \in 1 .. n : Of[i] = Step(Of[i - 1], i)
  <2>1. \A i \in 0 .. n : Of[i] = IF i = 0 THEN 0 ELSE IF s[i] \in Sign THEN Of[i - 1]
                                  ELSE 10 * Of[i - 1] + DigitValue[s[i]]
    BY <1>10, Zenon
  <2>2. 0 \in 0 .. n /\ \A i \in 1 .. n : i \in 0 .. n /\ i # 0
    BY <1>1
  <2>. QED BY <2>1, <2>2, Zenon
<1>12. \A i \in 0 .. n : Of[i] \in Nat
  <2>. DEFINE P == {i \in 0 .. n : Of[i] \in Nat}
  <2>. HIDE DEF Step
  <2>1. 0 \in P
    BY <1>1, <1>11
  <2>2. \A i \in 1 .. n : i - 1 \in P => i \in P
    <3>. SUFFICES ASSUME NEW i \in 1 .. n, i - 1 \in P PROVE i \in P
      OBVIOUS
    <3>1. i \in 0 .. n /\ Of[i - 1] \in Nat
      BY <1>1
    <3>2. Of[i] \in Nat
      BY <1>3, <1>11, <3>1
    <3>. QED BY <3>1, <3>2
  <2>. HIDE DEF P
  <2>3. \A i \in 0 .. n : i \in P
    BY ONLY <1>1, <2>1, <2>2, TurnInduction
  <2>. QED BY <2>3 DEF P
<1>13. Of \in [0 .. n -> Nat]
  <2>1. Of = [i \in 0 .. n |-> Of[i]]
    BY <1>10
  <2>. QED BY <1>12, <2>1
<1>14. IsMagnitude(s, Of)
  BY <1>11, <1>13 DEF IsMagnitude, n
<1>. QED BY <1>4, <1>14, Zenon DEF n

\* The accumulation of digits under a limit.
IsAccumulation(s, limit, t) ==
  /\ t \in [0 .. Len(s) -> Nat \cup {-1}] /\ t[0] = 0
  /\ \A i \in 1 .. Len(s) :
       t[i] = IF t[i - 1] = -1 \/ Exceeds(t[i - 1], DigitValue[s[i]], limit) THEN -1
              ELSE 10 * t[i - 1] + DigitValue[s[i]]

LEMMA AccumulatedRuns ==
  ASSUME NEW s \in Seq(Digit), NEW limit \in Nat
  PROVE  \E t : IsAccumulation(s, limit, t) /\ Accumulated(s, limit) = t[Len(s)]
<1>. DEFINE n == Len(s)  S == Nat \cup {-1}
            Step(x, i) == IF x = -1 \/ Exceeds(x, DigitValue[s[i]], limit) THEN -1
                          ELSE 10 * x + DigitValue[s[i]]
            G == [i \in 1 .. n |-> [x \in S |-> Step(x, i)]]
            Upto == CHOOSE u : u = [i \in 0 .. n |-> IF i = 0 THEN 0
                                      ELSE IF u[i - 1] = -1
                                              \/ Exceeds(u[i - 1], DigitValue[s[i]], limit)
                                           THEN -1
                                      ELSE 10 * u[i - 1] + DigitValue[s[i]]]
<1>1. n \in Nat /\ \A i \in 1 .. n : s[i] \in Digit
  BY LenProperties, ElementOfSeq
<1>2. DigitValue \in [Digit -> 0 .. 9]
  BY DigitValues
<1>3. ASSUME NEW i \in 1 .. n, NEW x \in S PROVE Step(x, i) \in S
  <2>1. DigitValue[s[i]] \in Nat
    BY <1>1, <1>2
  <2>2. CASE x = -1 \/ Exceeds(x, DigitValue[s[i]], limit)
    BY <2>2
  <2>3. CASE ~(x = -1 \/ Exceeds(x, DigitValue[s[i]], limit))
    <3>1. x \in Nat
      BY <2>3
    <3>2. 10 * x + DigitValue[s[i]] \in Nat
      BY <2>1, <3>1
    <3>3. Step(x, i) = 10 * x + DigitValue[s[i]]
      BY <2>3, Zenon
    <3>. HIDE DEF Step
    <3>. QED BY <3>2, <3>3
  <2>. QED BY <2>2, <2>3
<1>4. Accumulated(s, limit) = Upto[n]
  BY Zenon DEF Accumulated
<1>. HIDE DEF n, S
<1>5. G \in [1 .. n -> [S -> S]] /\ 0 \in S
  <2>1. 0 \in S
    BY DEF S
  <2>. HIDE DEF Step
  <2>. QED BY <1>3, <2>1
<1>6. PICK t : IsRun(t, n, S, 0, G)
  <2>. HIDE DEF G
  <2>. QED BY <1>1, <1>5, RunExists
<1>7. t \in [0 .. n -> S] /\ t[0] = 0 /\ \A i \in 1 .. n : t[i] = G[i][t[i - 1]]
  BY <1>6 DEF IsRun
<1>8. ASSUME NEW i \in 1 .. n PROVE t[i] = Step(t[i - 1], i)
  <2>1. i - 1 \in 0 .. n
    BY <1>1
  <2>2. t[i - 1] \in S
    BY <1>7, <2>1
  <2>. HIDE DEF Step
  <2>. QED BY <1>7, <2>2
<1>9. t = [i \in 0 .. n |-> IF i = 0 THEN 0
                            ELSE IF t[i - 1] = -1 \/ Exceeds(t[i - 1], DigitValue[s[i]], limit)
                                 THEN -1
                            ELSE 10 * t[i - 1] + DigitValue[s[i]]]
  <2>1. ASSUME NEW i \in 0 .. n, i # 0 PROVE i \in 1 .. n
    BY <1>1, <2>1
  <2>2. \A i \in 0 .. n : t[i] = IF i = 0 THEN 0
                                 ELSE IF t[i - 1] = -1
                                         \/ Exceeds(t[i - 1], DigitValue[s[i]], limit)
                                      THEN -1
                                 ELSE 10 * t[i - 1] + DigitValue[s[i]]
    BY <1>7, <1>8, <2>1, Zenon
  <2>. QED BY <1>7, <2>2
<1>10. Upto = [i \in 0 .. n |-> IF i = 0 THEN 0
                                ELSE IF Upto[i - 1] = -1
                                        \/ Exceeds(Upto[i - 1], DigitValue[s[i]], limit)
                                     THEN -1
                                ELSE 10 * Upto[i - 1] + DigitValue[s[i]]]
  BY <1>9, Zenon
<1>. HIDE DEF Upto
<1>11. Upto[0] = 0 /\ \A i \in 1 .. n : Upto[i] = Step(Upto[i - 1], i)
  <2>1. \A i \in 0 .. n : Upto[i] = IF i = 0 THEN 0
                                    ELSE IF Upto[i - 1] = -1
                                            \/ Exceeds(Upto[i - 1], DigitValue[s[i]], limit)
                                         THEN -1
                                    ELSE 10 * Upto[i - 1] + DigitValue[s[i]]
    BY <1>10, Zenon
  <2>2. 0 \in 0 .. n /\ \A i \in 1 .. n : i \in 0 .. n /\ i # 0
    BY <1>1
  <2>. QED BY <2>1, <2>2, Zenon
<1>12. \A i \in 0 .. n : Upto[i] \in S
  <2>. DEFINE P == {i \in 0 .. n : Upto[i] \in S}
  <2>. HIDE DEF Step
  <2>1. 0 \in P
    BY <1>1, <1>5, <1>11
  <2>2. \A i \in 1 .. n : i - 1 \in P => i \in P
    <3>. SUFFICES ASSUME NEW i \in 1 .. n, i - 1 \in P PROVE i \in P
      OBVIOUS
    <3>1. i \in 0 .. n /\ Upto[i - 1] \in S
      BY <1>1
    <3>2. Upto[i] \in S
      BY <1>3, <1>11, <3>1
    <3>. QED BY <3>1, <3>2
  <2>. HIDE DEF P
  <2>3. \A i \in 0 .. n : i \in P
    BY ONLY <1>1, <2>1, <2>2, TurnInduction
  <2>. QED BY <2>3 DEF P
<1>13. Upto \in [0 .. n -> S]
  <2>1. Upto = [i \in 0 .. n |-> Upto[i]]
    BY <1>10
  <2>. QED BY <1>12, <2>1
<1>14. IsAccumulation(s, limit, Upto)
  BY <1>11, <1>13 DEF IsAccumulation, n, S
<1>. QED BY <1>4, <1>14, Zenon DEF n

\* The test before each digit is whether the value would pass the limit.
LEMMA ExceedsIs ==
  ASSUME NEW x \in Nat, NEW v \in 0 .. 9, NEW limit \in Nat
  PROVE  Exceeds(x, v, limit) <=> 10 * x + v > limit
<1>1. PICK q \in Nat, r \in 0 .. 9 : q = limit \div 10 /\ r = limit % 10
  OBVIOUS
<1>2. limit = 10 * q + r
  BY <1>1
<1>3. Exceeds(x, v, limit) <=> x > q \/ (x = q /\ v > r)
  BY <1>1 DEF Exceeds
<1>. QED BY <1>2, <1>3

\* What is accumulated is the magnitude, or -1 when it is above the limit.
LEMMA AccumulatedIs ==
  ASSUME NEW s \in Seq(Digit \cup Sign), NEW k \in {0, 1}, NEW D \in Seq(Digit),
         Len(D) + k = Len(s), \A i \in 1 .. Len(D) : D[i] = s[i + k],
         k = 1 => s[1] \in Sign, NEW limit \in Nat
  PROVE  /\ Std!Magnitude(s) \in Nat
         /\ Accumulated(D, limit) = IF Std!Magnitude(s) <= limit THEN Std!Magnitude(s) ELSE -1
<1>. DEFINE n == Len(D)
<1>1. n \in Nat /\ Len(s) = n + k /\ \A i \in 1 .. n : D[i] \in Digit
  BY LenProperties, ElementOfSeq
<1>2. PICK t : IsMagnitude(s, t) /\ Std!Magnitude(s) = t[Len(s)]
  BY MagnitudeRuns
<1>3. PICK u : IsAccumulation(D, limit, u) /\ Accumulated(D, limit) = u[n]
  BY AccumulatedRuns
<1>4. /\ t \in [0 .. n + k -> Nat] /\ t[0] = 0
      /\ \A i \in 1 .. n + k :
           t[i] = IF s[i] \in Sign THEN t[i - 1] ELSE 10 * t[i - 1] + DigitValue[s[i]]
  BY <1>1, <1>2 DEF IsMagnitude
<1>5. /\ u[0] = 0
      /\ \A i \in 1 .. n :
           u[i] = IF u[i - 1] = -1 \/ Exceeds(u[i - 1], DigitValue[D[i]], limit) THEN -1
                  ELSE 10 * u[i - 1] + DigitValue[D[i]]
  BY <1>3 DEF IsAccumulation
<1>. HIDE DEF n
<1>6. t[k] = 0
  <2>1. CASE k = 0
    BY <1>4, <2>1
  <2>2. CASE k = 1
    <3>1. 1 \in 1 .. n + k
      BY <1>1, <2>2
    <3>2. t[1] = t[1 - 1] /\ 1 - 1 = 0
      BY <1>4, <2>2, <3>1
    <3>. QED BY <1>4, <2>2, <3>2
  <2>. QED BY <2>1, <2>2
<1>. DEFINE P == {i \in 0 .. n : u[i] = IF t[i + k] <= limit THEN t[i + k] ELSE -1}
<1>7. 0 \in P
  <2>1. 0 + k = k /\ 0 <= limit
    OBVIOUS
  <2>. QED BY <1>1, <1>5, <1>6, <2>1
<1>8. \A i \in 1 .. n : i - 1 \in P => i \in P
  <2>. SUFFICES ASSUME NEW i \in 1 .. n, i - 1 \in P PROVE i \in P
    OBVIOUS
  <2>. DEFINE x == t[(i - 1) + k]  y == t[i + k]  v == DigitValue[D[i]]
  <2>1. u[i - 1] = IF x <= limit THEN x ELSE -1
    OBVIOUS
  <2>2. x \in Nat /\ y \in Nat
    <3>1. (i - 1) + k \in 0 .. n + k /\ i + k \in 0 .. n + k
      BY <1>1
    <3>. QED BY <1>4, <3>1
  <2>3. v \in 0 .. 9
    BY <1>1, DigitValues
  <2>4. y = 10 * x + v
    <3>1. i + k \in 1 .. n + k /\ (i + k) - 1 = (i - 1) + k
      BY <1>1
    <3>2. s[i + k] = D[i] /\ D[i] \in Digit
      BY <1>1 DEF n
    <3>3. s[i + k] \notin Sign
      BY <3>2, Classes
    <3>4. t[i + k] = 10 * t[(i + k) - 1] + DigitValue[s[i + k]]
      BY <1>4, <3>1, <3>3
    <3>. QED BY <3>1, <3>2, <3>4
  <2>5. u[i] = IF u[i - 1] = -1 \/ Exceeds(u[i - 1], v, limit) THEN -1 ELSE 10 * u[i - 1] + v
    BY <1>5
  <2>. HIDE DEF x, y, v
  <2>6. CASE x <= limit
    <3>1. u[i - 1] = x /\ x # -1
      BY <2>1, <2>2, <2>6
    <3>2. Exceeds(x, v, limit) <=> 10 * x + v > limit
      BY <2>2, <2>3, ExceedsIs
    <3>3. u[i] = IF y <= limit THEN y ELSE -1
      BY <2>2, <2>3, <2>4, <2>5, <3>1, <3>2
    <3>4. i \in 0 .. n
      BY <1>1
    <3>. QED BY <3>3, <3>4 DEF y
  <2>7. CASE ~(x <= limit)
    <3>1. u[i - 1] = -1
      BY <2>1, <2>7
    <3>2. ~(y <= limit)
      BY <2>2, <2>3, <2>4, <2>7
    <3>3. u[i] = -1
      BY <2>5, <3>1
    <3>4. i \in 0 .. n
      BY <1>1
    <3>. QED BY <3>2, <3>3, <3>4 DEF y
  <2>. QED BY <2>6, <2>7
<1>. HIDE DEF P
<1>9. \A i \in 0 .. n : i \in P
  BY ONLY <1>1, <1>7, <1>8, TurnInduction
<1>10. n \in 0 .. n /\ n + k \in 0 .. n + k
  BY <1>1
<1>11. u[n] = IF t[n + k] <= limit THEN t[n + k] ELSE -1
  BY <1>9, <1>10 DEF P
<1>12. Std!Magnitude(s) = t[n + k] /\ t[n + k] \in Nat
  BY <1>1, <1>2, <1>4, <1>10
<1>. QED BY <1>3, <1>11, <1>12

-----------------------------------------------------------------------------
(* The invariant.  What is read of a text being read is as Sound says; of  *)
(* one being written f^ is a character, and atbol says how the line stands *)
(* as long as it has followed all that is in the text.                     *)

BolFollows ==
  /\ text = <<>> => f.atbol
  /\ followed => f.atbol = (text = <<>> \/ Last(text) \in {NL, FF})

TextTypes ==
  /\ textKind \in DOMAIN Given /\ text \in Seq(C) /\ f \in File
  /\ textMode \in {"closed", "reading", "writing"}
  /\ followed \in BOOLEAN /\ failed \in BOOLEAN

\* The standard input is being read and the standard output written, always.
ModeOfKind ==
  /\ textKind = "input" => textMode = "reading"
  /\ textKind = "output" => textMode = "writing"
  /\ textKind = "string" => textMode # "writing"
  /\ textKind # "string" /\ textMode = "closed" => f.atbol

TextInv ==
  /\ TextTypes /\ ModeOfKind
  /\ textMode = "reading" => Sound(f)
  /\ textMode = "writing" => BolFollows /\ f.ch \in Std!Char

\* A file that has not been read or written.
LEMMA FreshIs ==
  ASSUME text \in Seq(C), textKind = "string" => text # <<>>
  PROVE  /\ Fresh \in File /\ Fresh.ch = " " /\ Fresh.atbol = (textKind # "string")
         /\ Sound(Fresh) /\ Place(Fresh) = 0
<1>1. /\ Fresh.at = 0 /\ Fresh.have = FALSE /\ Fresh.lookahead = EOF /\ Fresh.ch = " "
      /\ Fresh.ateof = FALSE /\ Fresh.pushback = <<>> /\ Fresh.atbol = (textKind # "string")
  BY DEF Fresh
<1>2. Len(<<>>) = 0
  OBVIOUS
<1>3. Fresh \in File
  <2>1. <<>> \in Seq(C)
    OBVIOUS
  <2>2. " " \in C
    BY Classes
  <2>3. (textKind # "string") \in BOOLEAN
    OBVIOUS
  <2>. QED BY <2>1, <2>2, <2>3 DEF Fresh, File
<1>4. Len(text) \in Nat /\ (Len(text) = 0 <=> text = <<>>)
  BY LenProperties, EmptySeq
<1>. DEFINE h == Fresh
<1>. HIDE DEF h
<1>5. h.at = 0 /\ ~h.have /\ h.pushback = <<>> /\ h.atbol = (textKind # "string") /\ Len(h.pushback) = 0
  BY <1>1, <1>2 DEF h
<1>6. Delivered(h) = 0
  BY <1>4, <1>5 DEF Delivered, Unended
<1>7. ~Shows(h)
  BY <1>5 DEF Shows
<1>8. Place(h) = 0
  <2>1. Place(h) = Delivered(h) - Len(h.pushback) - 0
    BY <1>7, Zenon DEF Place
  <2>. QED BY <1>5, <1>6, <2>1
<1>9. HoldsTheText(h)
  <2>1. Place(h) >= 0 /\ ~(Delivered(h) > 0)
    BY <1>6, <1>8
  <2>2. \A i \in 1 .. Len(h.pushback) : h.pushback[i] = Comp(Delivered(h) - i + 1)
    <3>1. \A i \in 1 .. Len(h.pushback) : FALSE
      BY <1>5
    <3>. QED BY <3>1, Zenon
  <2>. QED BY <1>5, <1>7, <2>1, <2>2 DEF HoldsTheText
<1>10. ShowsTheText(h) /\ GivesBackNoDigit(h)
  <2>1. ShowsTheText(h)
    BY <1>5, <1>7, Zenon DEF ShowsTheText
  <2>2. Len(h.pushback) <= 2
    BY <1>5
  <2>3. GivesBackNoDigit(h)
    BY <1>5, <2>2, Zenon DEF GivesBackNoDigit
  <2>. QED BY <2>1, <2>3
<1>11. h.at <= Len(text) /\ h \in File
  BY <1>3, <1>4, <1>5 DEF h
<1>. QED BY <1>1, <1>3, <1>8, <1>9, <1>10, <1>11 DEF Sound, h

\* What a step that leaves the text alone leaves alone.
LEMMA SameText ==
  ASSUME text' = text
  PROVE  /\ Unended' <=> Unended
         /\ Total' = Total
<1>1. Unended' <=> Unended
  BY DEF Unended
<1>. QED BY <1>1 DEF Total

LEMMA SameFile ==
  ASSUME text' = text, NEW g, f' = g
  PROVE  /\ Place(f)' = Place(g) /\ (Sound(g) => Sound(f)')
<1>1. (Unended' <=> Unended) /\ Total' = Total
  BY SameText
<1>2. Delivered(f)' = Delivered(g) /\ (Shows(f)' <=> Shows(g))
  BY <1>1 DEF Delivered, Shows
<1>3. Place(f)' = Place(g)
  BY <1>2 DEF Place
<1>4. Sound(g) => Sound(f)'
  <2>. SUFFICES ASSUME Sound(g) PROVE Sound(f)'
    OBVIOUS
  <2>1. g \in File /\ g.at <= Len(text) /\ HoldsTheText(g) /\ ShowsTheText(g) /\ GivesBackNoDigit(g)
    BY DEF Sound
  <2>2. HoldsTheText(f)'
    BY <1>2, <1>3, <2>1 DEF HoldsTheText, Comp
  <2>3. ShowsTheText(f)'
    BY <1>1, <1>2, <2>1 DEF ShowsTheText
  <2>4. GivesBackNoDigit(f)'
    BY <2>1 DEF GivesBackNoDigit
  <2>5. f' \in File
    BY <2>1
  <2>6. (f \in File)'
    BY <2>5 DEF File
  <2>. QED BY <2>1, <2>2, <2>3, <2>4, <2>6 DEF Sound
<1>. QED BY <1>3, <1>4

LEMMA HereIs ==
  ASSUME f \in File
  PROVE  TextHere = IF textMode = "reading" THEN Place(f) ELSE 0
<1>1. CASE textMode = "reading"
  <2>. DEFINE x == IF f.at = Len(text) /\ Unended /\ f.atbol THEN 1 ELSE 0
              y == IF f.have /\ f.lookahead # EOF THEN 1 ELSE 0
  <2>1. f.at \in Int /\ f.pushback \in Seq(C)
    BY DEF File
  <2>2. Len(f.pushback) \in Int
    BY <2>1, LenProperties
  <2>3. TextHere = f.at + ((x - Len(f.pushback)) - y)
    BY <1>1, Zenon DEF TextHere
  <2>4. Place(f) = ((f.at + x) - Len(f.pushback)) - y
    BY Zenon DEF Place, Delivered, Shows
  <2>5. x \in Int /\ y \in Int
    OBVIOUS
  <2>. HIDE DEF x, y
  <2>6. TextHere = Place(f)
    BY <2>1, <2>2, <2>3, <2>4, <2>5
  <2>. QED BY <1>1, <2>6
<1>2. CASE textMode # "reading"
  BY <1>2, Zenon DEF TextHere
<1>. QED BY <1>1, <1>2

LEMMA HereNext ==
  ASSUME (f \in File)'
  PROVE  TextHere' = IF textMode' = "reading" THEN Place(f)' ELSE 0
<1>1. CASE textMode' = "reading"
  <2>. DEFINE x == IF f.at = Len(text) /\ Unended /\ f.atbol THEN 1 ELSE 0
              y == IF f.have /\ f.lookahead # EOF THEN 1 ELSE 0
  <2>1. f'.at \in Int /\ f'.pushback \in Seq(C')
    BY DEF File
  <2>2. Len(f'.pushback) \in Int
    BY <2>1, LenProperties
  <2>3. TextHere' = f'.at + ((x' - Len(f'.pushback)) - y')
    BY <1>1, Zenon DEF TextHere
  <2>4. Place(f)' = ((f'.at + x') - Len(f'.pushback)) - y'
    BY Zenon DEF Place, Delivered, Shows
  <2>5. x' \in Int /\ y' \in Int
    OBVIOUS
  <2>. HIDE DEF x, y
  <2>6. TextHere' = Place(f)'
    BY <2>1, <2>2, <2>3, <2>4, <2>5
  <2>. QED BY <1>1, <2>6
<1>2. CASE textMode' # "reading"
  BY <1>2, Zenon DEF TextHere
<1>. QED BY <1>1, <1>2

\* A step that leaves the file as it is keeps the invariant.
LEMMA SameKeeps ==
  ASSUME TextInv, UNCHANGED <<textKind, text, f, textMode, followed>>, failed' \in BOOLEAN
  PROVE  TextInv' /\ TextHere' = TextHere
<1>1. /\ textKind' = textKind /\ text' = text /\ f' = f /\ textMode' = textMode
      /\ followed' = followed
  OBVIOUS
<1>2. TextTypes'
  BY <1>1 DEF TextInv, TextTypes, File
<1>3. ModeOfKind'
  BY <1>1 DEF TextInv, ModeOfKind
<1>4. textMode' = "reading" => Sound(f)'
  BY <1>1, SameFile DEF TextInv
<1>5. textMode' = "writing" => BolFollows' /\ f'.ch \in Std!Char
  BY <1>1 DEF TextInv, BolFollows
<1>6. TextHere' = TextHere
  BY <1>1 DEF TextHere, Unended
<1>. QED BY <1>2, <1>3, <1>4, <1>5, <1>6 DEF TextInv

LEMMA FailsIs ==
  ASSUME TextInv, NEW op, Fails(op)
  PROVE  Std!Stop(op) /\ TextInv'
<1>1. /\ UNCHANGED <<textKind, text, f, textMode, followed>> /\ failed' = TRUE
      /\ answered' = <<"error", op>>
  BY DEF Fails
<1>2. TextInv' /\ TextHere' = TextHere
  BY <1>1, SameKeeps
<1>. QED BY <1>1, <1>2 DEF Std!Stop

\* A step that reads, from what it takes and answers.
LEMMA ReadIs ==
  ASSUME TextInv, NEW op, NEW g, NEW ok, NEW ans, NEW pre, NEW n, NEW r,
         Read(op, g, ok, ans),
         textMode = "reading" =>
           (ok <=> pre) /\ (ok => Sound(g) /\ Place(g) = Place(f) + n /\ ans = r)
  PROVE  Std!Read(op, pre, n, r) /\ TextInv'
<1>1. CASE ~(textMode = "reading" /\ ok)
  <2>1. Fails(op)
    BY <1>1 DEF Read
  <2>2. Std!Stop(op) /\ TextInv'
    BY <2>1, FailsIs
  <2>3. ~(textMode = "reading" /\ pre)
    BY <1>1
  <2>. QED BY <2>2, <2>3 DEF Std!Read
<1>2. CASE textMode = "reading" /\ ok
  <2>1. /\ f' = g /\ answered' = <<op, ans>> /\ textKind' = textKind /\ text' = text
        /\ textMode' = textMode /\ followed' = followed /\ failed' = failed
    BY <1>2 DEF Read
  <2>2. pre /\ Sound(g) /\ Place(g) = Place(f) + n /\ ans = r
    BY <1>2
  <2>3. Place(f)' = Place(g) /\ Sound(f)'
    BY <2>1, <2>2, SameFile
  <2>4. (f \in File)' /\ f \in File
    BY <2>3 DEF Sound, TextInv, TextTypes
  <2>5. TextHere' = TextHere + n
    <3>1. TextHere' = Place(f)'
      BY <1>2, <2>1, <2>4, HereNext
    <3>2. TextHere = Place(f)
      BY <1>2, <2>4, HereIs
    <3>. QED BY <2>2, <2>3, <3>1, <3>2
  <2>6. Std!Read(op, pre, n, r)
    BY <1>2, <2>1, <2>2, <2>5 DEF Std!Read
  <2>7. TextTypes'
    BY <2>1, <2>4 DEF TextInv, TextTypes
  <2>8. ModeOfKind'
    BY <1>2, <2>1 DEF TextInv, ModeOfKind
  <2>. QED BY <1>2, <2>1, <2>3, <2>6, <2>7, <2>8 DEF TextInv
<1>. QED BY <1>1, <1>2

\* The lookahead of a text being read.
LEMMA FullIs ==
  ASSUME text \in Seq(C), Sound(f)
  PROVE  /\ Sound(Full) /\ Full.have /\ Place(Full) = Place(f) /\ Place(f) \in 0 .. Total
         /\ Total \in Nat
         /\ Full.ateof = (Place(f) = Total) /\ (Full.lookahead = EOF <=> Place(f) = Total)
         /\ Place(f) < Total =>
              /\ Full.lookahead = Comp(Place(f) + 1) /\ Comp(Place(f) + 1) \in C
              /\ Full.ch = Full.lookahead \/ (Full.lookahead = NL /\ Full.ch = " ")
              /\ Sound(Consumed(Full)) /\ Place(Consumed(Full)) = Place(f) + 1
<1>1. /\ Sound(Full) /\ Full.have /\ Place(Full) = Place(f)
      /\ Full.lookahead = IF Place(f) < Total THEN Comp(Place(f) + 1) ELSE EOF
  BY FillShows DEF Full
<1>2. Place(f) \in 0 .. Total /\ Total \in Nat /\ Full.ateof \in BOOLEAN
  BY <1>1, SoundTypes
<1>3. Place(f) < Total => Comp(Place(f) + 1) \in C
  <2>1. Place(f) < Total => Place(f) + 1 \in 1 .. Total
    BY <1>2
  <2>. QED BY <2>1, TotalIs
<1>4. Full.lookahead = EOF <=> ~(Place(f) < Total)
  BY <1>1, <1>3, Classes
<1>5. ~(Place(f) < Total) <=> Place(f) = Total
  BY <1>2
<1>6. Full.ateof = (Full.lookahead = EOF)
  BY <1>1 DEF Sound, ShowsTheText
<1>7. Full.ateof = (Place(f) = Total)
  BY <1>4, <1>5, <1>6, Zenon
<1>8. Place(f) < Total => Shows(Full)
  BY <1>1, <1>4 DEF Shows
<1>9. Shows(Full) => Full.ch = Full.lookahead \/ (Full.lookahead = NL /\ Full.ch = " ")
  BY <1>1 DEF Sound, ShowsTheText
<1>10. Shows(Full) => Sound(Consumed(Full)) /\ Place(Consumed(Full)) = Place(f) + 1
  BY <1>1, ConsumedMoves
<1>. QED BY <1>1, <1>2, <1>3, <1>4, <1>5, <1>7, <1>8, <1>9, <1>10

\* What the standard sees of a text being read.
LEMMA ReadingIs ==
  ASSUME TextInv, textMode = "reading"
  PROVE  /\ text \in Seq(C) /\ Sound(f) /\ TextHere = Place(f) /\ TextHere \in 0 .. Total
         /\ Std!Rest = Span(Place(f), Total) /\ (Std!Rest = <<>> <=> Place(f) = Total)
         /\ Place(f) < Total => Head(Std!Rest) = Comp(Place(f) + 1)
<1>1. text \in Seq(C) /\ Sound(f) /\ f \in File
  BY DEF TextInv, TextTypes
<1>2. TextHere = Place(f)
  BY <1>1, HereIs
<1>3. Place(f) \in 0 .. Total
  BY <1>1, SoundTypes
<1>4. TextHere \in 0 .. Total
  BY <1>2, <1>3
<1>5. /\ Std!Rest = Span(TextHere, Total) /\ (Std!Rest = <<>> <=> TextHere = Total)
      /\ TextHere < Total => Head(Std!Rest) = Comp(TextHere + 1)
  BY <1>1, <1>4, RestIs
<1>. QED BY <1>1, <1>2, <1>4, <1>5

-----------------------------------------------------------------------------
(* The steps that read, one by one: each is a step of the standard's text  *)
(* and keeps the invariant.                                                *)

LEMMA EofIs ==
  ASSUME TextInv, Eof
  PROVE  Std!Eof /\ TextInv'
<1>1. CASE textMode = "writing"
  <2>1. answered' = <<"eof", TRUE>> /\ UNCHANGED <<textKind, text, f, textMode, followed, failed>>
    BY <1>1 DEF Eof
  <2>2. TextInv' /\ TextHere' = TextHere
    BY <2>1, SameKeeps DEF TextInv, TextTypes
  <2>. QED BY <1>1, <2>1, <2>2 DEF Std!Eof
<1>2. CASE textMode # "writing"
  <2>. DEFINE yes == TRUE
  <2>1. Read("eof", Full, yes, Full.ateof)
    BY <1>2 DEF Eof
  <2>. HIDE DEF yes
  <2>2. textMode = "reading" =>
          /\ yes <=> yes
          /\ yes => /\ Sound(Full) /\ Place(Full) = Place(f) + 0
                    /\ Full.ateof = (Std!Rest = <<>>)
    <3>. SUFFICES ASSUME textMode = "reading"
                  PROVE  /\ Sound(Full) /\ Place(Full) = Place(f) + 0
                         /\ Full.ateof = (Std!Rest = <<>>)
      OBVIOUS
    <3>1. text \in Seq(C) /\ Sound(f) /\ (Std!Rest = <<>> <=> Place(f) = Total)
      BY ReadingIs
    <3>2. /\ Sound(Full) /\ Place(Full) = Place(f) /\ Place(f) \in 0 .. Total /\ Total \in Nat
          /\ Full.ateof = (Place(f) = Total)
      BY <3>1, FullIs
    <3>3. Full.ateof = (Std!Rest = <<>>)
      BY <3>1, <3>2, Zenon
    <3>4. Place(Full) = Place(f) + 0
      BY <3>2
    <3>. QED BY <3>2, <3>3, <3>4
  <2>3. Std!Read("eof", yes, 0, Std!Rest = <<>>) /\ TextInv'
    BY <2>1, <2>2, ReadIs
  <2>. QED BY <1>2, <2>3 DEF Std!Eof, yes
<1>. QED BY <1>1, <1>2

\* What the reads of one component, and eoln, rest on.
LEMMA OneIs ==
  ASSUME TextInv, textMode = "reading"
  PROVE  /\ Sound(Full) /\ Place(Full) = Place(f) + 0
         /\ Full.ateof \in BOOLEAN /\ (~Full.ateof <=> Std!Rest # <<>>)
         /\ Full.lookahead # EOF <=> Std!Rest # <<>>
         /\ Std!Rest # <<>> =>
              /\ Full.lookahead = Head(Std!Rest) /\ (Full.ch # NL => Full.ch = Std!Shown(Head(Std!Rest)))
              /\ Sound(Consumed(Full)) /\ Place(Consumed(Full)) = Place(f) + 1
<1>1. /\ text \in Seq(C) /\ Sound(f) /\ (Std!Rest = <<>> <=> Place(f) = Total)
      /\ Place(f) < Total => Head(Std!Rest) = Comp(Place(f) + 1)
  BY ReadingIs
<1>2. /\ Sound(Full) /\ Place(Full) = Place(f) /\ Place(f) \in 0 .. Total
      /\ Total \in Nat
      /\ Full.ateof = (Place(f) = Total) /\ (Full.lookahead = EOF <=> Place(f) = Total)
      /\ Place(f) < Total =>
           /\ Full.lookahead = Comp(Place(f) + 1) /\ Comp(Place(f) + 1) \in C
           /\ Full.ch = Full.lookahead \/ (Full.lookahead = NL /\ Full.ch = " ")
           /\ Sound(Consumed(Full)) /\ Place(Consumed(Full)) = Place(f) + 1
  BY <1>1, FullIs
<1>3. (Place(f) # Total <=> Place(f) < Total) /\ Place(Full) = Place(f) + 0
  <2>. DEFINE k == Place(f)
  <2>1. k \in 0 .. Total /\ Total \in Nat /\ Place(Full) = k
    BY <1>2
  <2>. HIDE DEF k
  <2>2. (k # Total <=> k < Total) /\ Place(Full) = k + 0
    BY <2>1
  <2>. QED BY <2>2 DEF k
<1>5. Full.ateof \in BOOLEAN /\ (~Full.ateof <=> Std!Rest # <<>>)
  BY <1>1, <1>2, Zenon
<1>6. Std!Rest # <<>> => /\ Full.lookahead = Head(Std!Rest)
                         /\ Full.ch = Full.lookahead \/ (Full.lookahead = NL /\ Full.ch = " ")
  BY <1>1, <1>2, <1>3
<1>7. Std!Rest # <<>> => (Full.ch # NL => Full.ch = Std!Shown(Head(Std!Rest)))
  BY <1>6, SameClasses DEF Std!Shown
<1>. QED BY <1>1, <1>2, <1>3, <1>5, <1>6, <1>7

LEMMA EolnIs ==
  ASSUME TextInv, Eoln
  PROVE  Std!Eoln /\ TextInv'
<1>1. Read("eoln", Full, Full.lookahead # EOF, Full.lookahead = NL)
  BY DEF Eoln
<1>2. textMode = "reading" =>
        /\ Full.lookahead # EOF <=> Std!Rest # <<>>
        /\ Full.lookahead # EOF =>
             /\ Sound(Full) /\ Place(Full) = Place(f) + 0
             /\ (Full.lookahead = NL) = (Head(Std!Rest) = Std!NL)
  BY OneIs, SameClasses
<1>3. Std!Read("eoln", Std!Rest # <<>>, 0, Head(Std!Rest) = Std!NL) /\ TextInv'
  BY <1>1, <1>2, ReadIs
<1>. QED BY <1>3 DEF Std!Eoln

LEMMA GetIs ==
  ASSUME TextInv, Get
  PROVE  Std!Get /\ TextInv'
<1>1. Read("get", Consumed(Full), ~Full.ateof, 0)
  BY DEF Get
<1>2. textMode = "reading" =>
        /\ ~Full.ateof <=> Std!Rest # <<>>
        /\ ~Full.ateof =>
             Sound(Consumed(Full)) /\ Place(Consumed(Full)) = Place(f) + 1 /\ 0 = 0
  BY OneIs
<1>3. Std!Read("get", Std!Rest # <<>>, 1, 0) /\ TextInv'
  BY <1>1, <1>2, ReadIs
<1>. QED BY <1>3 DEF Std!Get

\* f^ and read of a char, where what f^ shows is not a line marker that was
\* given back.
LEMMA LooksIs ==
  ASSUME TextInv, Looks, Full.ch # NL
  PROVE  (Std!Look \/ Std!ReadChar) /\ TextInv'
<1>1. CASE Look /\ textMode = "writing"
  <2>1. answered' = <<"buffer", f.ch>> /\ UNCHANGED <<textKind, text, f, textMode, followed, failed>>
    BY <1>1 DEF Look
  <2>2. TextInv' /\ TextHere' = TextHere
    BY <2>1, SameKeeps DEF TextInv, TextTypes
  <2>3. f.ch \in Std!Char
    BY <1>1 DEF TextInv
  <2>. QED BY <1>1, <2>1, <2>2, <2>3 DEF Std!Look
<1>2. CASE Look /\ textMode # "writing"
  <2>1. Read("buffer", Full, ~Full.ateof, Full.ch)
    BY <1>2 DEF Look
  <2>2. textMode = "reading" =>
          /\ ~Full.ateof <=> Std!Rest # <<>>
          /\ ~Full.ateof => /\ Sound(Full) /\ Place(Full) = Place(f) + 0
                            /\ Full.ch = Std!Shown(Head(Std!Rest))
    BY OneIs
  <2>3. Std!Read("buffer", Std!Rest # <<>>, 0, Std!Shown(Head(Std!Rest))) /\ TextInv'
    BY <2>1, <2>2, ReadIs
  <2>. QED BY <1>2, <2>3 DEF Std!Look
<1>3. CASE ReadChar
  <2>1. Read("char", Consumed(Full), ~Full.ateof, Full.ch)
    BY <1>3 DEF ReadChar
  <2>2. textMode = "reading" =>
          /\ ~Full.ateof <=> Std!Rest # <<>>
          /\ ~Full.ateof => /\ Sound(Consumed(Full)) /\ Place(Consumed(Full)) = Place(f) + 1
                            /\ Full.ch = Std!Shown(Head(Std!Rest))
    BY OneIs
  <2>3. Std!Read("char", Std!Rest # <<>>, 1, Std!Shown(Head(Std!Rest))) /\ TextInv'
    BY <2>1, <2>2, ReadIs
  <2>. QED BY <2>3 DEF Std!ReadChar
<1>. QED BY <1>1, <1>2, <1>3 DEF Looks

\* Whatever f^ shows, reading it keeps the invariant.
LEMMA LooksKeeps ==
  ASSUME TextInv, Looks
  PROVE  TextInv'
<1>1. CASE Look /\ textMode = "writing"
  <2>1. UNCHANGED <<textKind, text, f, textMode, followed, failed>>
    BY <1>1 DEF Look
  <2>. QED BY <2>1, SameKeeps DEF TextInv, TextTypes
<1>2. CASE Look /\ textMode # "writing"
  <2>1. Read("buffer", Full, ~Full.ateof, Full.ch)
    BY <1>2 DEF Look
  <2>2. textMode = "reading" =>
          /\ ~Full.ateof <=> ~Full.ateof
          /\ ~Full.ateof => Sound(Full) /\ Place(Full) = Place(f) + 0 /\ Full.ch = Full.ch
    BY OneIs
  <2>. QED BY <2>1, <2>2, ReadIs
<1>3. CASE ReadChar
  <2>1. Read("char", Consumed(Full), ~Full.ateof, Full.ch)
    BY <1>3 DEF ReadChar
  <2>2. textMode = "reading" =>
          /\ ~Full.ateof <=> ~Full.ateof
          /\ ~Full.ateof => /\ Sound(Consumed(Full)) /\ Place(Consumed(Full)) = Place(f) + 1
                            /\ Full.ch = Full.ch
    BY OneIs
  <2>. QED BY <2>1, <2>2, ReadIs
<1>. QED BY <1>1, <1>2, <1>3 DEF Looks

LEMMA ReadEndIs ==
  ASSUME TextInv, ReadEnd
  PROVE  Std!ReadEnd /\ TextInv'
<1>1. textKind = "string" /\ textMode = "reading"
  BY DEF ReadEnd
<1>2. Sound(Full) /\ (~Full.ateof <=> Std!Rest # <<>>)
  BY <1>1, OneIs
<1>3. CASE Full.ateof
  <2>1. Fails("readstr")
    BY <1>3 DEF ReadEnd
  <2>2. Std!Stop("readstr") /\ TextInv'
    BY <2>1, FailsIs
  <2>. QED BY <1>2, <1>3, <2>2 DEF Std!ReadEnd
<1>4. CASE ~Full.ateof
  <2>1. /\ textMode' = "closed" /\ answered' = <<>> /\ f' = Full
        /\ textKind' = textKind /\ text' = text /\ followed' = followed /\ failed' = failed
    BY <1>4 DEF ReadEnd
  <2>2. Sound(f)' /\ (f \in File)'
    BY <1>2, <2>1, SameFile DEF Sound
  <2>3. TextHere' = 0
    BY <2>1, <2>2, HereNext
  <2>4. TextTypes'
    BY <2>1, <2>2 DEF TextInv, TextTypes
  <2>5. ModeOfKind'
    BY <1>1, <2>1 DEF ModeOfKind
  <2>6. Std!ReadEnd
    BY <1>2, <1>4, <2>1, <2>3 DEF Std!ReadEnd
  <2>. QED BY <2>1, <2>4, <2>5, <2>6 DEF TextInv
<1>. QED BY <1>3, <1>4

\* The first line marker of what is left, which is always there.
LEMMA LineIs ==
  ASSUME text \in Seq(C), NEW k \in Nat, k < Total, NEW e \in k .. Total,
         AllIn(C \ {NL}, k, e), e = Total \/ Comp(e + 1) = NL
  PROVE  e < Total /\ Comp(e + 1) = NL
<1>1. Total \in Nat /\ e \in Nat
  BY TotalIs
<1>2. ASSUME e = Total PROVE FALSE
  <2>1. Total \in k + 1 .. e
    BY <1>1, <1>2
  <2>2. Comp(Total) \in C \ {NL}
    BY <2>1 DEF AllIn
  <2>3. Total > 0
    BY <1>1
  <2>. QED BY <2>2, <2>3, EndsInMarker
<1>3. e < Total
  BY <1>1, <1>2
<1>. QED BY <1>2, <1>3

LineEnd(e) ==
  /\ e \in Place(f) .. Total /\ e < Total /\ AllIn(C \ {NL}, Place(f), e) /\ Comp(e + 1) = NL

LEMMA LineEnds ==
  ASSUME TextInv, textMode = "reading", NEW e, LineEnd(e)
  PROVE  Std!LineLength = e - Place(f)
<1>1. text \in Seq(C) /\ TextHere = Place(f) /\ TextHere \in 0 .. Total
  BY ReadingIs
<1>2. e \in TextHere .. Total /\ e < Total /\ AllIn(C \ {NL}, TextHere, e) /\ Comp(e + 1) = NL
  BY <1>1 DEF LineEnd
<1>3. Std!LineLength = e - TextHere
  BY <1>1, <1>2, LineLengthIs
<1>. QED BY <1>1, <1>3

LEMMA LineSkipped ==
  ASSUME TextInv, textMode = "reading", Std!Rest # <<>>
  PROVE  LET end == SkipLine(Full) IN
         /\ LineEnd(Place(end)) /\ end.lookahead = NL
         /\ Sound(Consumed(end)) /\ Place(Consumed(end)) = Place(end) + 1
<1>. DEFINE end == SkipLine(Full)
            k == Place(f)
            e == Place(end)
<1>1. text \in Seq(C) /\ Sound(f) /\ (Std!Rest = <<>> <=> k = Total)
  BY ReadingIs
<1>2. Sound(Full) /\ Full.have /\ Place(Full) = k /\ k \in 0 .. Total /\ Total \in Nat
  BY <1>1, FullIs
<1>3. /\ Sound(end) /\ end.have /\ e \in k .. Total /\ AllIn(C \ {NL}, k, e)
      /\ end.lookahead \in {NL, EOF}
  BY <1>1, <1>2, SkipLineIs
<1>4. /\ end.lookahead = IF e < Total THEN Comp(e + 1) ELSE EOF
      /\ Shows(end) <=> e < Total
  BY <1>1, <1>3, LookaheadIs
<1>5. Shows(end) => Sound(Consumed(end)) /\ Place(Consumed(end)) = e + 1
  BY <1>1, <1>3, ConsumedMoves
<1>. HIDE DEF end, k, e
<1>6. k \in Nat /\ k < Total
  BY <1>1, <1>2
<1>7. e = Total \/ Comp(e + 1) = NL
  <2>1. CASE e < Total
    <3>1. Shows(end) /\ end.lookahead = Comp(e + 1)
      BY <1>4, <2>1
    <3>2. end.lookahead # EOF
      BY <3>1 DEF Shows
    <3>. QED BY <1>3, <3>1, <3>2
  <2>2. CASE ~(e < Total)
    <3>1. e \in k .. Total
      BY <1>3
    <3>. QED BY <1>2, <2>2, <3>1
  <2>. QED BY <2>1, <2>2
<1>8. e < Total /\ Comp(e + 1) = NL
  BY <1>1, <1>3, <1>6, <1>7, LineIs
<1>9. LineEnd(e)
  BY <1>3, <1>8 DEF LineEnd, k
<1>. QED BY <1>4, <1>5, <1>8, <1>9 DEF end, e

LEMMA ReadlnIs ==
  ASSUME TextInv, Readln
  PROVE  Std!Readln /\ TextInv'
<1>. DEFINE end == SkipLine(Full)
            last == IF end.lookahead = NL THEN Consumed(end) ELSE end
<1>1. Read("readln", last, Full.lookahead # EOF, 0)
  BY DEF Readln
<1>2. textMode = "reading" => (Full.lookahead # EOF <=> Std!Rest # <<>>)
  BY OneIs
<1>3. ASSUME textMode = "reading", Std!Rest # <<>>
      PROVE  Sound(last) /\ Place(last) = Place(f) + (Std!LineLength + 1)
  <2>1. /\ LineEnd(Place(end)) /\ end.lookahead = NL
        /\ Sound(Consumed(end)) /\ Place(Consumed(end)) = Place(end) + 1
    BY <1>3, LineSkipped
  <2>2. Std!LineLength = Place(end) - Place(f)
    BY <1>3, <2>1, LineEnds
  <2>3. last = Consumed(end)
    BY <2>1
  <2>4. Place(f) \in Int /\ Place(end) \in Int
    <3>1. text \in Seq(C) /\ Sound(f)
      BY <1>3, ReadingIs
    <3>2. Place(f) \in 0 .. Total
      BY <3>1, SoundTypes
    <3>3. Place(end) \in Place(f) .. Total
      BY <2>1 DEF LineEnd
    <3>. QED BY <3>2, <3>3
  <2>. HIDE DEF end
  <2>5. Place(Consumed(end)) = Place(f) + (Std!LineLength + 1)
    BY <2>1, <2>2, <2>4
  <2>. QED BY <2>1, <2>3, <2>5
<1>. HIDE DEF last
<1>4. textMode = "reading" =>
        /\ Full.lookahead # EOF <=> Std!Rest # <<>>
        /\ Full.lookahead # EOF =>
             Sound(last) /\ Place(last) = Place(f) + (Std!LineLength + 1) /\ 0 = 0
  BY <1>2, <1>3
<1>5. Std!Read("readln", Std!Rest # <<>>, Std!LineLength + 1, 0) /\ TextInv'
  BY <1>1, <1>4, ReadIs
<1>. QED BY <1>5 DEF Std!Readln

\* A string takes its capacity or the rest of the line, whichever is less.
LEMMA ReadStrIs ==
  ASSUME TextInv, NEW cap \in Nat, ReadStr(cap)
  PROVE  Std!ReadStr(cap) /\ TextInv'
<1>. DEFINE last == TakeString(Full, cap)
            n == Std!Min({cap, Std!LineLength})
<1>1. Read("string", last.g, ~Full.ateof, last.num)
  BY DEF ReadStr
<1>2. ASSUME textMode = "reading", Std!Rest # <<>>
      PROVE  Sound(last.g) /\ Place(last.g) = Place(f) + n /\ last.num = SubSeq(Std!Rest, 1, n)
  <2>. DEFINE k == Place(f)
              e == Place(last.g)
              l == Place(SkipLine(Full))
  <2>1. /\ text \in Seq(C) /\ Sound(f) /\ (Std!Rest = <<>> <=> k = Total)
        /\ Std!Rest = Span(k, Total)
    BY <1>2, ReadingIs
  <2>2. Sound(Full) /\ Place(Full) = k /\ k \in 0 .. Total /\ Total \in Nat
    BY <2>1, FullIs
  <2>3. /\ Sound(last.g) /\ e \in k .. Total /\ last.num = Span(k, e)
        /\ AllIn(C \ {NL}, k, e) /\ e - k <= cap
        /\ e - k = cap \/ e = Total \/ Comp(e + 1) = NL
    BY <2>1, <2>2, TakeStringIs, Zenon
  <2>4. LineEnd(l)
    BY <1>2, LineSkipped
  <2>5. l \in k .. Total /\ l < Total /\ Comp(l + 1) = NL /\ AllIn(C \ {NL}, k, l)
    BY <2>4 DEF LineEnd
  <2>6. Std!LineLength = l - k
    BY <1>2, <2>4, LineEnds
  <2>. HIDE DEF last, k, e, l
  <2>7. k \in Nat /\ e \in Nat /\ l \in Nat /\ k <= e /\ k <= l /\ k < Total
    BY <2>1, <2>2, <2>3, <2>5
  <2>8. e <= l
    <3>1. ASSUME l < e PROVE FALSE
      <4>1. l + 1 \in k + 1 .. e
        BY <2>7, <3>1
      <4>. QED BY <2>3, <2>5, <4>1 DEF AllIn
    <3>. QED BY <2>7, <3>1
  <2>9. e - k = cap \/ e = l
    <3>. SUFFICES ASSUME e - k # cap PROVE e = l
      OBVIOUS
    <3>1. e = Total \/ Comp(e + 1) = NL
      BY <2>3
    <3>2. e < Total /\ Comp(e + 1) = NL
      BY <2>1, <2>3, <2>7, <3>1, LineIs
    <3>3. ASSUME e < l PROVE FALSE
      <4>1. e + 1 \in k + 1 .. l
        BY <2>7, <3>3
      <4>. QED BY <2>5, <3>2, <4>1 DEF AllIn
    <3>. QED BY <2>7, <2>8, <3>3
  <2>10. n = e - k
    <3>. DEFINE S == {cap, Std!LineLength}
    <3>1. e - k <= cap
      BY <2>3
    <3>2. e - k \in S /\ S \subseteq Int /\ \A x \in S : e - k <= x
      BY <2>6, <2>7, <2>8, <2>9, <3>1
    <3>. HIDE DEF S
    <3>3. Std!Min(S) = e - k
      BY <3>2, LeastIs
    <3>. QED BY <3>3 DEF S
  <2>11. SubSeq(Std!Rest, 1, e - k) = Span(k, e)
    BY <2>1, <2>3, <2>7, SpanFrom
  <2>12. e = k + (e - k)
    BY <2>7
  <2>13. e = k + n /\ last.num = SubSeq(Std!Rest, 1, n)
    BY <2>3, <2>10, <2>11, <2>12
  <2>. QED BY <2>3, <2>13 DEF e, k
<1>3. textMode = "reading" => (~Full.ateof <=> Std!Rest # <<>>)
  BY OneIs
<1>. HIDE DEF last, n
<1>4. textMode = "reading" =>
        /\ ~Full.ateof <=> Std!Rest # <<>>
        /\ ~Full.ateof => /\ Sound(last.g) /\ Place(last.g) = Place(f) + n
                          /\ last.num = SubSeq(Std!Rest, 1, n)
  BY <1>2, <1>3
<1>5. Std!Read("string", Std!Rest # <<>>, n, SubSeq(Std!Rest, 1, n)) /\ TextInv'
  BY <1>1, <1>4, ReadIs
<1>. QED BY <1>5 DEF Std!ReadStr, n

\* A real is the longest prefix of what follows the blanks that is one.
LEMMA ReadRealIs ==
  ASSUME TextInv, ReadReal
  PROVE  Std!ReadReal /\ TextInv'
<1>. DEFINE r == TakeScale(TakeFraction(TakeDigits(TakeSign(Begin))))
            bl == Std!Blanks(Std!Rest)
            rest == Std!From(Std!Rest, bl + 1)
            n == Std!Longest(rest, Std!IsReal)
            s == SubSeq(rest, 1, n)
<1>1. Read("real", r.g, HasDigits(r), r.num)
  BY DEF ReadReal
<1>2. ASSUME textMode = "reading"
      PROVE  /\ HasDigits(r) <=> n > 0
             /\ HasDigits(r) => Sound(r.g) /\ Place(r.g) = Place(f) + (bl + n) /\ r.num = s
  <2>. DEFINE k == Place(f)
              b == Place(SkipBlanks(f))
              x == Place(r.g)
              ok == HasDigits(r)
  <2>1. text \in Seq(C) /\ Sound(f) /\ Std!Rest = Span(k, Total)
    BY <1>2, ReadingIs
  <2>2. /\ b \in k .. Total /\ b \in Nat /\ k \in Nat /\ Total \in Nat
        /\ AllIn({" ", NL}, k, b) /\ (b < Total => Comp(b + 1) \notin {" ", NL})
    BY <2>1, NumberBegins, Zenon
  <2>3. Begin = Begins(f)
    BY DEF Begin, Begins
  <2>4. /\ Taken(r, b)
        /\ ok => b < x /\ Rea(b, x)
        /\ \A e \in b + 1 .. Total : Rea(b, e) => ok /\ e <= x
    BY <2>1, <2>3, RealTaken, Zenon
  <2>5. x \in b .. Total /\ r.num = Span(b, x) /\ Sound(r.g)
    BY <2>4 DEF Taken
  <2>6. ok \in BOOLEAN
    BY DEF HasDigits
  <2>. HIDE DEF r, k, b, x, ok
  <2>7. bl = b - k
    <3>1. BlanksTo(k, b)
      BY <2>2 DEF BlanksTo
    <3>. QED BY <2>1, <2>2, <3>1, BlanksAre
  <2>8. rest = Span(b, Total)
    BY <2>1, <2>2, <2>7, SpanFrom
  <2>9. n = IF ok THEN x - b ELSE 0
    BY <2>1, <2>2, <2>4, <2>5, <2>6, <2>8, LongestReal
  <2>. HIDE DEF bl, rest, n
  <2>10. b \in Nat /\ k \in Nat /\ x \in Int /\ (ok => b < x)
    <3>1. b \in Nat /\ k \in Nat /\ Total \in Nat
      BY <2>2, Zenon
    <3>2. ok => b < x
      BY <2>4, Zenon
    <3>3. x \in b .. Total
      BY <2>5
    <3>. QED BY <3>1, <3>2, <3>3
  <2>11. ok <=> n > 0
    BY <2>9, <2>10
  <2>12. ok => x = k + (bl + n)
    BY <2>7, <2>9, <2>10
  <2>13. SubSeq(Span(b, Total), 1, x - b) = Span(b, x)
    BY <2>1, <2>2, <2>5, SpanFrom
  <2>14. ok => r.num = s
    BY <2>5, <2>8, <2>9, <2>13
  <2>. QED BY <2>5, <2>11, <2>12, <2>14 DEF ok, x, k
<1>. HIDE DEF r, bl, n, s
<1>3. textMode = "reading" =>
        /\ HasDigits(r) <=> n > 0
        /\ HasDigits(r) => Sound(r.g) /\ Place(r.g) = Place(f) + (bl + n) /\ r.num = s
  BY <1>2
<1>4. Std!Read("real", n > 0, bl + n, s) /\ TextInv'
  BY <1>1, <1>3, ReadIs
<1>. QED BY <1>4 DEF Std!ReadReal, bl, n, s

\* What pas_read_int_at comes to is the value of the number, if its type
\* admits it.
LEMMA ValueIs ==
  ASSUME text \in Seq(C), NEW b \in Nat, NEW d, DigitsTo(AfterSign(b), d), AfterSign(b) < d,
         NEW limit \in Nat, NEW s, s = Span(b, d)
  PROVE  LET signed == s # <<>> /\ s[1] \in Sign
             value == Accumulated(IF signed THEN Tail(s) ELSE s, limit)
         IN /\ Std!Magnitude(s) \in Nat
            /\ value = IF Std!Magnitude(s) <= limit THEN Std!Magnitude(s) ELSE -1
            /\ s[1] = "-" => signed
<1>. DEFINE a == AfterSign(b)
            signed == s # <<>> /\ s[1] \in Sign
            D == IF signed THEN Tail(s) ELSE s
            k == IF b < Total /\ Comp(b + 1) \in Sign THEN 1 ELSE 0
<1>1. d \in a .. Total /\ AllIn(Digit, a, d) /\ Total \in Nat
  BY TotalIs DEF DigitsTo
<1>2. a = b + k /\ k \in {0, 1} /\ (k = 1 => Comp(b + 1) \in Sign)
  BY DEF AfterSign
<1>3. k = 1 <=> b < Total /\ Comp(b + 1) \in Sign
  OBVIOUS
<1>. HIDE DEF a, k
<1>4. d \in Nat /\ a \in Nat /\ b < d /\ d \in b .. Total /\ d \in a .. Total /\ b < Total
  BY <1>1, <1>2 DEF a
<1>5. /\ s # <<>> /\ s[1] \in Sign <=> b < d /\ Comp(b + 1) \in Sign
      /\ b < d => Tail(s) = Span(b + 1, d) /\ s[1] = Comp(b + 1)
  BY <1>4, SpanSigned
<1>6. signed <=> k = 1
  BY <1>3, <1>4, <1>5
<1>. HIDE DEF signed
<1>7. D = Span(a, d)
  <2>1. CASE k = 1
    BY <1>2, <1>4, <1>5, <1>6, <2>1
  <2>2. CASE k = 0
    <3>1. a = b
      BY <1>2, <2>2
    <3>. QED BY <1>6, <2>2, <3>1
  <2>. QED BY <1>2, <2>1, <2>2
<1>. HIDE DEF D
<1>8. /\ s \in Seq(C) /\ Len(s) = d - b /\ \A i \in 1 .. d - b : s[i] = Comp(b + i)
  BY <1>4, SpanIs
<1>9. /\ D \in Seq(C) /\ Len(D) = d - a /\ \A i \in 1 .. d - a : D[i] = Comp(a + i)
  BY <1>4, <1>7, SpanIs
<1>10. \A i \in 1 .. Len(D) : D[i] \in Digit
  <2>. TAKE i \in 1 .. Len(D)
  <2>1. i \in 1 .. d - a
    BY <1>9
  <2>2. a + i \in a + 1 .. d
    BY <1>4, <2>1
  <2>. QED BY <1>1, <1>9, <2>1, <2>2 DEF AllIn
<1>11. D \in Seq(Digit)
  BY <1>9, <1>10, SeqDef, LenProperties
<1>12. \A i \in 1 .. Len(D) : D[i] = s[i + k]
  <2>. TAKE i \in 1 .. Len(D)
  <2>1. i \in 1 .. d - a /\ i + k \in 1 .. d - b /\ a + i = b + (i + k)
    BY <1>2, <1>4, <1>9
  <2>2. D[i] = Comp(a + i)
    BY <1>9, <2>1
  <2>3. s[i + k] = Comp(b + (i + k))
    BY <1>8, <2>1
  <2>. QED BY <2>1, <2>2, <2>3
<1>13. Len(D) + k = Len(s)
  BY <1>2, <1>4, <1>8, <1>9
<1>14. s[1] = Comp(b + 1)
  BY <1>4, <1>5
<1>15. \A i \in 1 .. Len(s) : s[i] \in Digit \cup Sign
  <2>. TAKE i \in 1 .. Len(s)
  <2>1. CASE k = 0
    <3>1. i \in 1 .. Len(D) /\ i + k = i
      BY <1>2, <1>4, <1>8, <1>13, <1>9, <2>1
    <3>. QED BY <1>10, <1>12, <3>1
  <2>2. CASE k = 1 /\ i = 1
    BY <1>2, <1>14, <2>2
  <2>3. CASE k = 1 /\ i # 1
    <3>1. i - 1 \in 1 .. Len(D) /\ (i - 1) + k = i
      BY <1>2, <1>4, <1>8, <1>9, <1>13, <2>3
    <3>. QED BY <1>10, <1>12, <3>1
  <2>. QED BY <1>2, <2>1, <2>2, <2>3
<1>16. s \in Seq(Digit \cup Sign)
  BY <1>8, <1>15, SeqDef, LenProperties
<1>17. k = 1 => s[1] \in Sign
  BY <1>2, <1>14
<1>18. /\ Std!Magnitude(s) \in Nat
       /\ Accumulated(D, limit) = IF Std!Magnitude(s) <= limit THEN Std!Magnitude(s) ELSE -1
  BY <1>2, <1>11, <1>12, <1>13, <1>16, <1>17, AccumulatedIs
<1>19. s[1] = "-" => signed
  <2>1. "-" \in Sign
    BY DEF Sign
  <2>. QED BY <1>4, <1>5, <2>1 DEF signed
<1>. QED BY <1>18, <1>19 DEF D, signed

LEMMA ReadIntIs ==
  ASSUME TextInv, NEW type \in DOMAIN Limits, ReadInt(type)
  PROVE  Std!ReadInt(type) /\ TextInv'
<1>. DEFINE r == TakeDigits(TakeSign(Begin))
            signed == r.num # <<>> /\ r.num[1] \in Sign
            value == Accumulated(IF signed THEN Tail(r.num) ELSE r.num, Limits[type])
            ok == HasDigits(r) /\ value # -1
            ans == IF signed /\ r.num[1] = "-" THEN -value ELSE value
            bl == Std!Blanks(Std!Rest)
            rest == Std!From(Std!Rest, bl + 1)
            n == Std!Longest(rest, Std!IsInteger)
            s == SubSeq(rest, 1, n)
            pre == n > 0 /\ Std!Magnitude(s) <= Limits[type]
<1>1. Read(type, r.g, ok, ans)
  BY DEF ReadInt
<1>2. ASSUME textMode = "reading"
      PROVE  /\ ok <=> pre
             /\ ok => Sound(r.g) /\ Place(r.g) = Place(f) + (bl + n) /\ ans = Std!Value(s)
  <2>. DEFINE k == Place(f)
              b == Place(SkipBlanks(f))
              d == Place(r.g)
              a == AfterSign(b)
  <2>1. text \in Seq(C) /\ Sound(f) /\ Std!Rest = Span(k, Total)
    BY <1>2, ReadingIs
  <2>2. /\ b \in k .. Total /\ b \in Nat /\ k \in Nat /\ Total \in Nat
        /\ AllIn({" ", NL}, k, b) /\ (b < Total => Comp(b + 1) \notin {" ", NL})
    BY <2>1, NumberBegins, Zenon
  <2>3. Begin = Begins(f)
    BY DEF Begin, Begins
  <2>4. Taken(r, b) /\ DigitsTo(a, d) /\ (HasDigits(r) <=> a < d)
    BY <2>1, <2>3, IntegerTaken, Zenon
  <2>5. d \in b .. Total /\ r.num = Span(b, d) /\ Sound(r.g)
    BY <2>4 DEF Taken
  <2>6. Limits[type] \in Nat
    BY TextAssumption
  <2>. DEFINE has == HasDigits(r)
  <2>. HIDE DEF r, k, b, d, has
  <2>7. bl = b - k
    <3>1. BlanksTo(k, b)
      BY <2>2 DEF BlanksTo
    <3>. QED BY <2>1, <2>2, <3>1, BlanksAre
  <2>8. rest = Span(b, Total)
    BY <2>1, <2>2, <2>7, SpanFrom
  <2>9. n = IF a < d THEN d - b ELSE 0
    BY <2>1, <2>2, <2>4, <2>8, LongestInteger
  <2>10. b \in Nat /\ k \in Nat /\ d \in Int /\ (a < d => b < d)
    <3>1. b \in Nat /\ k \in Nat /\ Total \in Nat
      BY <2>2, Zenon
    <3>2. a = b + 1 \/ a = b
      BY Zenon DEF AfterSign
    <3>3. d \in b .. Total
      BY <2>5
    <3>. HIDE DEF a
    <3>. QED BY <3>1, <3>2, <3>3
  <2>. HIDE DEF a, bl, rest, n
  <2>11. has <=> a < d
    BY <2>4 DEF has
  <2>12. has <=> n > 0
    BY <2>9, <2>10, <2>11
  <2>13. has => d = k + (bl + n)
    BY <2>7, <2>9, <2>10, <2>11
  <2>14. SubSeq(Span(b, Total), 1, d - b) = Span(b, d)
    BY <2>1, <2>2, <2>5, SpanFrom
  <2>15. has => r.num = s
    BY <2>5, <2>8, <2>9, <2>11, <2>14
  <2>. DEFINE mag == Std!Magnitude(s)
  <2>16. has => /\ mag \in Nat /\ value = (IF mag <= Limits[type] THEN mag ELSE -1)
                /\ r.num[1] = "-" => signed
    <3>. SUFFICES ASSUME has
                  PROVE  /\ mag \in Nat /\ value = (IF mag <= Limits[type] THEN mag ELSE -1)
                         /\ r.num[1] = "-" => signed
      OBVIOUS
    <3>1. DigitsTo(AfterSign(b), d) /\ AfterSign(b) < d
      BY <2>4, <2>11 DEF a
    <3>2. /\ Std!Magnitude(r.num) \in Nat
          /\ value = (IF Std!Magnitude(r.num) <= Limits[type] THEN Std!Magnitude(r.num) ELSE -1)
          /\ r.num[1] = "-" => signed
      BY <2>1, <2>2, <2>5, <2>6, <3>1, ValueIs, Zenon
    <3>. QED BY <2>15, <3>2
  <2>. HIDE DEF value
  <2>17. has => (value # -1 <=> mag <= Limits[type])
    <3>. HIDE DEF mag
    <3>. QED BY <2>6, <2>16
  <2>18. ok <=> pre
    BY <2>12, <2>17 DEF has
  <2>19. ok => ans = Std!Value(s)
    <3>. SUFFICES ASSUME ok PROVE ans = Std!Value(s)
      OBVIOUS
    <3>1. has /\ value # -1
      BY DEF has
    <3>2. value = mag /\ r.num = s
      BY <2>15, <2>16, <2>17, <3>1
    <3>3. (signed /\ r.num[1] = "-") <=> s[1] = "-"
      BY <2>16, <3>1, <3>2
    <3>. QED BY <3>2, <3>3, Zenon DEF Std!Value
  <2>. QED BY <2>5, <2>13, <2>18, <2>19 DEF has, d, k
<1>. HIDE DEF r, ok, ans, bl, n, s, pre
<1>3. textMode = "reading" =>
        /\ ok <=> pre
        /\ ok => Sound(r.g) /\ Place(r.g) = Place(f) + (bl + n) /\ ans = Std!Value(s)
  BY <1>2
<1>4. Std!Read(type, pre, bl + n, Std!Value(s)) /\ TextInv'
  BY <1>1, <1>3, ReadIs
<1>. QED BY <1>4 DEF Std!ReadInt, bl, n, s, pre

-----------------------------------------------------------------------------
(* The steps that open and write.                                          *)

LEMMA OpenedReads ==
  ASSUME TextInv, NEW g, Sound(g), text' = text, f' = g, textMode' = "reading",
         textKind \in {"external", "input"}, textKind' = textKind,
         followed' \in BOOLEAN, failed' = failed
  PROVE  TextInv' /\ TextHere' = Place(g)
<1>1. Place(f)' = Place(g) /\ Sound(f)'
  BY SameFile
<1>2. (f \in File)'
  BY <1>1 DEF Sound
<1>3. TextHere' = Place(g)
  BY <1>1, <1>2, HereNext
<1>4. TextTypes'
  BY <1>2 DEF TextInv, TextTypes
<1>5. ModeOfKind'
  BY DEF ModeOfKind
<1>. QED BY <1>1, <1>3, <1>4, <1>5 DEF TextInv

LEMMA Writing ==
  ASSUME TextInv, NEW s \in Seq(C), NEW g \in File, g.ch \in Std!Char, s = <<>> => g.atbol,
         text' = s, f' = g, textMode' = "writing", textKind \in {"external", "output"},
         textKind' = textKind, followed' \in BOOLEAN, failed' = failed,
         followed' => g.atbol = (s = <<>> \/ Last(s) \in {NL, FF})
  PROVE  TextInv' /\ TextHere' = 0
<1>1. f' \in File
  OBVIOUS
<1>2. (f \in File)'
  BY <1>1 DEF File
<1>3. TextHere' = 0
  BY <1>2, HereNext
<1>4. TextTypes'
  BY <1>2 DEF TextInv, TextTypes
<1>5. ModeOfKind'
  BY DEF ModeOfKind
<1>6. BolFollows'
  BY DEF BolFollows
<1>. QED BY <1>3, <1>4, <1>5, <1>6 DEF TextInv

\* A failure to open is allowed wherever the standard opens a text.
LEMMA NotOpened ==
  ASSUME TextInv, Fails("open")
  PROVE  Std!Opened /\ TextInv'
<1>1. Std!Stop("open") /\ TextInv'
  BY FailsIs
<1>. QED BY <1>1 DEF Std!Opened, Std!Open

LEMMA KindsAre ==
  ASSUME TextInv
  PROVE  textKind \in {"external", "input", "output", "string"} /\ text \in Seq(C) /\ f \in File
BY TextAssumption DEF TextInv, TextTypes

LEMMA ResetIs ==
  ASSUME TextInv, textKind # "string", Reset
  PROVE  Std!Opened /\ TextInv'
<1>1. CASE Fails("open")
  BY <1>1, NotOpened
<1>2. CASE textKind = "external" /\ ~Fails("open")
  <2>1. /\ text' = text /\ f' = Fresh /\ textMode' = "reading" /\ answered' = <<>>
        /\ followed' \in BOOLEAN /\ textKind' = textKind /\ failed' = failed
    <3>1. Opened(text, Fresh, "reading")
      BY <1>2 DEF Reset
    <3>. QED BY <1>2, <3>1 DEF Opened
  <2>2. Sound(Fresh) /\ Place(Fresh) = 0
    BY <1>2, KindsAre, FreshIs
  <2>3. TextInv' /\ TextHere' = 0
    BY <1>2, <2>1, <2>2, OpenedReads
  <2>. QED BY <2>1, <2>3 DEF Std!Opened, Std!Open
<1>3. CASE textKind = "input" /\ ~Fails("open")
  <2>1. /\ text' = text /\ f' = f /\ textMode' = "reading" /\ answered' = <<>>
        /\ followed' \in BOOLEAN /\ textKind' = textKind /\ failed' = failed
    <3>1. Opened(text, f, "reading")
      BY <1>3 DEF Reset
    <3>. QED BY <1>3, <3>1 DEF Opened
  <2>2. textMode = "reading" /\ Sound(f)
    BY <1>3 DEF TextInv, ModeOfKind
  <2>3. TextHere = Place(f)
    BY <2>2, ReadingIs
  <2>4. TextInv' /\ TextHere' = TextHere
    BY <1>3, <2>1, <2>2, <2>3, OpenedReads
  <2>. QED BY <2>1, <2>2, <2>4 DEF Std!Opened, Std!Kept
<1>4. CASE textKind \notin {"external", "input"}
  BY <1>1, <1>4 DEF Reset
<1>. QED BY <1>1, <1>2, <1>3, <1>4

\* atbol when a text is opened for writing at its end.
LEMMA BolAtEnd ==
  ASSUME TextInv, textKind # "string", text = <<>>
  PROVE  f.atbol
<1>1. f \in File /\ text \in Seq(C)
  BY DEF TextInv, TextTypes
<1>2. CASE textMode = "closed"
  BY <1>2 DEF TextInv, ModeOfKind
<1>3. CASE textMode = "writing"
  BY <1>3 DEF TextInv, BolFollows
<1>4. CASE textMode = "reading"
  <2>1. Sound(f)
    BY <1>4 DEF TextInv
  <2>2. Delivered(f) \in 0 .. Total
    BY <1>1, <2>1, SoundTypes
  <2>3. Total = 0
    BY DEF Total, Unended
  <2>4. Delivered(f) = 0
    BY <2>2, <2>3
  <2>. QED BY <2>1, <2>4 DEF Sound, HoldsTheText
<1>. QED BY <1>2, <1>3, <1>4 DEF TextInv, TextTypes

LEMMA Reopened ==
  ASSUME TextInv, textKind # "string"
  PROVE  LET g == [Fresh EXCEPT !.atbol = f.atbol] IN
         /\ g \in File /\ g.ch = " " /\ g.ch \in Std!Char /\ g.atbol = f.atbol
         /\ Fresh \in File /\ Fresh.ch \in Std!Char /\ Fresh.atbol
<1>. DEFINE g == [Fresh EXCEPT !.atbol = f.atbol]
<1>1. f \in File /\ text \in Seq(C)
  BY KindsAre
<1>2. Fresh \in File /\ Fresh.ch = " " /\ Fresh.atbol = TRUE
  BY <1>1, FreshIs
<1>3. f.atbol \in BOOLEAN
  BY <1>1 DEF File
<1>4. g \in File /\ g.ch = " " /\ g.atbol = f.atbol
  BY <1>2, <1>3 DEF File
<1>5. " " \in Std!Char
  BY Classes
<1>. QED BY <1>2, <1>4, <1>5

LEMMA RewriteIs ==
  ASSUME TextInv, textKind # "string", Rewrite
  PROVE  Std!Opened /\ TextInv'
<1>1. CASE Fails("open")
  BY <1>1, NotOpened
<1>2. CASE textKind = "external" /\ ~Fails("open")
  <2>1. /\ text' = <<>> /\ f' = Fresh /\ textMode' = "writing" /\ answered' = <<>>
        /\ followed' \in BOOLEAN /\ textKind' = textKind /\ failed' = failed
    <3>1. Opened(<<>>, Fresh, "writing")
      BY <1>2 DEF Rewrite
    <3>. QED BY <1>2, <3>1 DEF Opened
  <2>2. Fresh \in File /\ Fresh.ch \in Std!Char /\ Fresh.atbol
    BY Reopened
  <2>3. Fresh.atbol = TRUE
    BY <2>2 DEF File
  <2>4. <<>> \in Seq(C)
    OBVIOUS
  <2>. DEFINE s == <<>>
  <2>5. s = <<>> /\ s \in Seq(C) /\ text' = s /\ Fresh.atbol = (s = <<>> \/ Last(s) \in {NL, FF})
    BY <2>1, <2>3, <2>4
  <2>. HIDE DEF s
  <2>6. TextInv' /\ TextHere' = 0
    BY <1>2, <2>1, <2>2, <2>5, Writing
  <2>. QED BY <2>1, <2>6 DEF Std!Opened, Std!Open
<1>3. CASE textKind = "output" /\ ~Fails("open")
  <2>. DEFINE g == [Fresh EXCEPT !.atbol = f.atbol]
  <2>1. /\ text' = text /\ f' = g /\ textMode' = "writing" /\ answered' = <<>>
        /\ followed' = (text = <<>> \/ followed) /\ textKind' = textKind /\ failed' = failed
    <3>1. Opened(text, g, "writing")
      BY <1>3 DEF Rewrite
    <3>. QED BY <1>3, <3>1 DEF Opened
  <2>2. textMode = "writing" /\ BolFollows
    BY <1>3 DEF TextInv, ModeOfKind
  <2>3. g \in File /\ g.ch \in Std!Char /\ g.atbol = f.atbol
    BY Reopened, Zenon
  <2>4. text \in Seq(C) /\ f \in File /\ f.atbol \in BOOLEAN
    BY KindsAre DEF File
  <2>. HIDE DEF g
  <2>5. text = <<>> => g.atbol
    BY <2>2, <2>3 DEF BolFollows
  <2>6. followed' => g.atbol = (text = <<>> \/ Last(text) \in {NL, FF})
    <3>1. CASE text = <<>>
      <4>1. f.atbol = TRUE
        BY <2>2, <2>4, <3>1 DEF BolFollows
      <4>. QED BY <2>3, <3>1, <4>1
    <3>2. CASE text # <<>>
      BY <2>1, <2>2, <2>3, <3>2 DEF BolFollows
    <3>. QED BY <3>1, <3>2
  <2>7. followed' \in BOOLEAN
    BY <2>1
  <2>8. TextInv' /\ TextHere' = 0
    BY <1>3, <2>1, <2>3, <2>4, <2>5, <2>6, <2>7, Writing
  <2>9. TextHere = 0
    BY <2>2, <2>4, HereIs
  <2>. QED BY <2>1, <2>2, <2>8, <2>9 DEF Std!Opened, Std!Kept
<1>4. CASE textKind \notin {"external", "output"}
  BY <1>1, <1>4 DEF Rewrite
<1>. QED BY <1>1, <1>2, <1>3, <1>4

LEMMA ExtendIs ==
  ASSUME TextInv, textKind # "string", Extend
  PROVE  Std!Opened /\ TextInv'
<1>1. CASE Fails("open")
  BY <1>1, NotOpened
<1>2. CASE textKind = "output" /\ ~Fails("open")
  <2>1. Rewrite
    BY <1>2 DEF Extend, Rewrite
  <2>. QED BY <2>1, RewriteIs
<1>3. CASE textKind = "external" /\ ~Fails("open")
  <2>. DEFINE g == [Fresh EXCEPT !.atbol = f.atbol]
  <2>1. /\ text' = text /\ f' = g /\ textMode' = "writing" /\ answered' = <<>>
        /\ followed' = (text = <<>>) /\ textKind' = textKind /\ failed' = failed
    <3>1. Opened(text, g, "writing")
      BY <1>3 DEF Extend
    <3>. QED BY <1>3, <3>1 DEF Opened
  <2>2. g \in File /\ g.ch \in Std!Char /\ g.atbol = f.atbol
    BY Reopened, Zenon
  <2>3. text \in Seq(C) /\ f \in File /\ f.atbol \in BOOLEAN
    BY KindsAre DEF File
  <2>. HIDE DEF g
  <2>4. text = <<>> => g.atbol /\ g.atbol = TRUE
    BY <2>2, <2>3, BolAtEnd
  <2>5. followed' => g.atbol = (text = <<>> \/ Last(text) \in {NL, FF})
    BY <2>1, <2>4
  <2>6. followed' \in BOOLEAN
    BY <2>1
  <2>7. TextInv' /\ TextHere' = 0
    BY <1>3, <2>1, <2>2, <2>3, <2>4, <2>5, <2>6, Writing
  <2>. QED BY <2>1, <2>7 DEF Std!Opened, Std!Open
<1>4. CASE textKind \notin {"external", "output"}
  BY <1>1, <1>4 DEF Extend
<1>. QED BY <1>1, <1>2, <1>3, <1>4

LEMMA LastJoined ==
  ASSUME text \in Seq(C), NEW c
  PROVE  /\ text \o <<c>> # <<>> /\ Last(text \o <<c>>) = c /\ text \o <<>> = text
<1>1. Len(text) \in Nat /\ Len(<<c>>) = 1
  BY LenProperties
<1>2. Len(text \o <<c>>) = Len(text) + 1 /\ (text \o <<c>>)[Len(text) + 1] = c
  BY <1>1
<1>. QED BY <1>1, <1>2 DEF Last

\* A step that writes, from what it leaves of the file.
LEMMA WroteIs ==
  ASSUME TextInv, NEW s \in Seq(C), NEW g, NEW follows, Wrote(s, g, follows),
         textMode = "writing" =>
           /\ g \in File /\ g.ch \in Std!Char /\ follows \in BOOLEAN
           /\ text \o s = <<>> => g.atbol
           /\ follows => g.atbol = (text \o s = <<>> \/ Last(text \o s) \in {NL, FF})
  PROVE  Std!Write(s) /\ TextInv'
<1>1. CASE textMode = "writing"
  <2>1. /\ text' = text \o s /\ f' = g /\ followed' = follows /\ answered' = <<>>
        /\ textKind' = textKind /\ textMode' = textMode /\ failed' = failed
    BY <1>1 DEF Wrote
  <2>2. text \in Seq(C) /\ f \in File /\ textKind \in {"external", "output"}
    BY <1>1, KindsAre DEF TextInv, ModeOfKind
  <2>3. text \o s \in Seq(C)
    BY <2>2, ConcatProperties
  <2>. DEFINE t == text \o s
  <2>4. /\ t \in Seq(C) /\ text' = t /\ g \in File /\ g.ch \in Std!Char /\ followed' \in BOOLEAN
        /\ t = <<>> => g.atbol
        /\ followed' => g.atbol = (t = <<>> \/ Last(t) \in {NL, FF})
    BY <1>1, <2>1, <2>3
  <2>. HIDE DEF t
  <2>5. TextInv' /\ TextHere' = 0
    BY <1>1, <2>1, <2>2, <2>4, Writing
  <2>6. TextHere = 0
    BY <1>1, <2>2, HereIs
  <2>. QED BY <1>1, <2>1, <2>5, <2>6 DEF Std!Write
<1>2. CASE textMode # "writing"
  <2>1. Fails("write")
    BY <1>2 DEF Wrote
  <2>2. Std!Stop("write") /\ TextInv'
    BY <2>1, FailsIs
  <2>. QED BY <1>2, <2>2 DEF Std!Write
<1>. QED BY <1>1, <1>2

LEMMA PutIs ==
  ASSUME TextInv, NEW c \in OutText, Put(c)
  PROVE  c \in Std!Char /\ Std!Write(<<c>>) /\ TextInv'
<1>. DEFINE g == [f EXCEPT !.ch = c]
<1>1. Wrote(<<c>>, g, FALSE)
  BY DEF Put
<1>2. text \in Seq(C) /\ f \in File
  BY KindsAre
<1>3. c \in Std!Char /\ c \in C
  BY TextAssumption, Classes
<1>4. <<c>> \in Seq(C)
  BY <1>3
<1>5. g \in File /\ g.ch = c
  BY <1>2, <1>3 DEF File
<1>6. text \o <<c>> # <<>>
  BY <1>2, LastJoined
<1>. DEFINE no == FALSE
<1>7. Wrote(<<c>>, g, no) /\ no \in BOOLEAN /\ ~no
  BY <1>1
<1>. HIDE DEF g, no
<1>8. textMode = "writing" =>
        /\ g \in File /\ g.ch \in Std!Char /\ no \in BOOLEAN
        /\ text \o <<c>> = <<>> => g.atbol
        /\ no => g.atbol = (text \o <<c>> = <<>> \/ Last(text \o <<c>>) \in {NL, FF})
  BY <1>3, <1>5, <1>6, <1>7
<1>9. Std!Write(<<c>>) /\ TextInv'
  BY <1>4, <1>7, <1>8, WroteIs
<1>. QED BY <1>3, <1>9

LEMMA WritelnIs ==
  ASSUME TextInv, Writeln
  PROVE  Std!Write(<<Std!NL>>) /\ TextInv'
<1>. DEFINE g == [f EXCEPT !.atbol = TRUE]
<1>1. Wrote(<<NL>>, g, followed)
  BY DEF Writeln
<1>2. text \in Seq(C) /\ f \in File /\ followed \in BOOLEAN
  BY KindsAre DEF TextInv, TextTypes
<1>3. <<NL>> \in Seq(C)
  <2>1. NL \in C
    BY Classes
  <2>. QED BY <2>1
<1>4. g \in File /\ g.ch = f.ch /\ g.atbol = TRUE
  BY <1>2 DEF File
<1>5. Last(text \o <<NL>>) = NL
  BY <1>2, LastJoined
<1>. HIDE DEF g
<1>6. textMode = "writing" =>
        /\ g \in File /\ g.ch \in Std!Char /\ followed \in BOOLEAN
        /\ text \o <<NL>> = <<>> => g.atbol
        /\ followed => g.atbol = (text \o <<NL>> = <<>> \/ Last(text \o <<NL>>) \in {NL, FF})
  BY <1>2, <1>4, <1>5 DEF TextInv
<1>7. Std!Write(<<NL>>) /\ TextInv'
  BY <1>1, <1>3, <1>6, WroteIs
<1>. QED BY <1>7, SameClasses

\* What a string of at most one character is written as.
LEMMA PaddedIs ==
  ASSUME NEW s \in SeqOf(OutText, 1), NEW w \in -1 .. 1
  PROVE  LET quiet == ~(w # 0 /\ ~(w < 0 /\ s = <<>>)) IN
         /\ quiet => Padded(s, w) = <<>>
         /\ ~quiet => \E c \in Std!Char : Padded(s, w) = <<c>>
<1>1. s = <<>> \/ \E c \in Std!Char : s = <<c>>
  <2>1. PICK m \in 0 .. 1 : s \in [1 .. m -> OutText]
    BY DEF SeqOf
  <2>2. CASE m = 0
    <3>1. s \in Seq(OutText) /\ Len(s) = 0
      BY <2>1, <2>2, SeqDef, LenProperties
    <3>. QED BY <3>1, EmptySeq
  <2>3. CASE m = 1
    <3>1. s[1] \in OutText /\ s = [i \in 1 .. 1 |-> s[i]]
      BY <2>1, <2>3
    <3>2. s = <<s[1]>>
      BY <3>1
    <3>3. s[1] \in Std!Char
      BY <3>1, TextAssumption
    <3>. QED BY <3>2, <3>3
  <2>. QED BY <2>2, <2>3
<1>2. " " \in Std!Char
  BY Classes
<1>3. CASE w < 0
  <2>1. Padded(s, w) = s
    <3>1. w # 0
      BY <1>3
    <3>. QED BY <1>3, <3>1, Zenon DEF Padded
  <2>. QED BY <1>1, <1>3, <2>1
<1>4. CASE w = 0
  BY <1>4 DEF Padded
<1>5. CASE w > 0
  <2>1. ~(w < 0) /\ w # 0
    BY <1>5
  <2>2. Padded(s, w) = IF s = <<>> THEN <<" ">> ELSE s
    BY <2>1, Zenon DEF Padded
  <2>. QED BY <1>1, <1>2, <2>1, <2>2
<1>. QED BY <1>3, <1>4, <1>5

LEMMA WriteIs ==
  ASSUME TextInv, NEW s \in SeqOf(OutText, 1), NEW w \in -1 .. 1, Write(s, w)
  PROVE  (Std!Write(<<>>) \/ \E c \in Std!Char : Std!Write(<<c>>)) /\ TextInv'
<1>. DEFINE quiet == ~(w # 0 /\ ~(w < 0 /\ s = <<>>))
            g == [f EXCEPT !.atbol = @ /\ quiet]
            t == Padded(s, w)
<1>1. Wrote(t, g, followed)
  BY DEF Write
<1>2. text \in Seq(C) /\ f \in File /\ followed \in BOOLEAN
  BY KindsAre DEF TextInv, TextTypes
<1>3. (quiet => t = <<>>) /\ (~quiet => \E c \in Std!Char : t = <<c>>)
  BY PaddedIs, Zenon
<1>4. g \in File /\ g.ch = f.ch /\ g.atbol = (f.atbol /\ quiet)
  BY <1>2 DEF File
<1>5. f.atbol \in BOOLEAN
  BY <1>2 DEF File
<1>. HIDE DEF g, t, quiet
<1>6. CASE quiet
  <2>1. t = <<>> /\ g.atbol = f.atbol
    BY <1>3, <1>4, <1>5, <1>6
  <2>2. t \in Seq(C)
    BY <2>1
  <2>3. text \o t = text
    BY <1>2, <2>1, LastJoined
  <2>4. textMode = "writing" =>
          /\ g \in File /\ g.ch \in Std!Char /\ followed \in BOOLEAN
          /\ text \o t = <<>> => g.atbol
          /\ followed => g.atbol = (text \o t = <<>> \/ Last(text \o t) \in {NL, FF})
    BY <1>2, <1>4, <2>1, <2>3 DEF TextInv, BolFollows
  <2>5. Std!Write(t) /\ TextInv'
    BY <1>1, <2>2, <2>4, WroteIs
  <2>. QED BY <2>1, <2>5
<1>7. CASE ~quiet
  <2>1. PICK c \in Std!Char : t = <<c>>
    BY <1>3, <1>7
  <2>2. c \in C /\ c \notin {NL, FF}
    BY Classes
  <2>3. t \in Seq(C)
    BY <2>1, <2>2
  <2>4. text \o t # <<>> /\ Last(text \o t) = c
    BY <1>2, <2>1, LastJoined
  <2>5. g.atbol = FALSE
    BY <1>4, <1>7
  <2>6. textMode = "writing" =>
          /\ g \in File /\ g.ch \in Std!Char /\ followed \in BOOLEAN
          /\ text \o t = <<>> => g.atbol
          /\ followed => g.atbol = (text \o t = <<>> \/ Last(text \o t) \in {NL, FF})
    BY <1>2, <1>4, <2>2, <2>4, <2>5 DEF TextInv
  <2>7. Std!Write(t) /\ TextInv'
    BY <1>1, <2>3, <2>6, WroteIs
  <2>. QED BY <2>1, <2>7
<1>. QED BY <1>6, <1>7

LEMMA PageIs ==
  ASSUME TextInv, Page
  PROVE  TextInv' /\ (followed => Std!Page)
<1>. DEFINE g == [f EXCEPT !.atbol = TRUE, !.have = FALSE]
            m == IF f.atbol THEN <<>> ELSE <<NL>>
            t == m \o <<FF>>
<1>1. Wrote(t, g, followed)
  BY DEF Page
<1>2. text \in Seq(C) /\ f \in File /\ followed \in BOOLEAN
  BY KindsAre DEF TextInv, TextTypes
<1>3. NL \in C /\ FF \in C
  BY Classes
<1>4. m \in Seq(C) /\ <<FF>> \in Seq(C)
  <2>1. <<>> \in Seq(C)
    OBVIOUS
  <2>2. <<NL>> \in Seq(C) /\ <<FF>> \in Seq(C)
    BY <1>3
  <2>. QED BY <2>1, <2>2
<1>5. t \in Seq(C) /\ Len(t) = Len(m) + 1 /\ t[Len(m) + 1] = FF
  BY <1>4
<1>6. g \in File /\ g.ch = f.ch /\ g.atbol = TRUE
  BY <1>2 DEF File
<1>. HIDE DEF g
<1>7. Last(text \o t) = FF
  <2>. HIDE DEF t, m
  <2>1. Len(m) \in Nat /\ Len(text) \in Nat
    BY <1>2, <1>4, LenProperties
  <2>2. Len(text \o t) = Len(text) + Len(t) /\ (text \o t)[Len(text) + Len(t)] = t[Len(t)]
    BY <1>2, <1>5, <2>1
  <2>. QED BY <1>5, <2>2 DEF Last
<1>8. textMode = "writing" =>
        /\ g \in File /\ g.ch \in Std!Char /\ followed \in BOOLEAN
        /\ text \o t = <<>> => g.atbol
        /\ followed => g.atbol = (text \o t = <<>> \/ Last(text \o t) \in {NL, FF})
  BY <1>2, <1>6, <1>7 DEF TextInv
<1>9. Std!Write(t) /\ TextInv'
  <2>. HIDE DEF t
  <2>. QED BY <1>1, <1>5, <1>8, WroteIs
<1>10. ASSUME followed PROVE Std!Page
  <2>. DEFINE ended == text = <<>> \/ Std!Last(text) \in {Std!NL, Std!FF}
              u == (IF ended THEN <<>> ELSE <<Std!NL>>) \o <<Std!FF>>
  <2>1. CASE textMode = "writing"
    <3>1. Std!Last(text) = Last(text)
      BY DEF Std!Last, Last
    <3>2. f.atbol = ended
      BY <1>10, <2>1, <3>1, SameClasses DEF TextInv, BolFollows
    <3>3. t = u
      BY <3>2, SameClasses
    <3>4. Std!Write(u)
      BY <1>9, <3>3
    <3>. QED BY <3>4, Zenon DEF Std!Page
  <2>2. CASE textMode # "writing"
    BY <1>9, <2>2 DEF Std!Page, Std!Write
  <2>. QED BY <2>1, <2>2
<1>. QED BY <1>9, <1>10

-----------------------------------------------------------------------------
(* The theorems.                                                           *)

LEMMA InitIs ==
  ASSUME Init
  PROVE  TextInv /\ Std!Init
<1>1. /\ textKind \in DOMAIN Given /\ f = Fresh /\ followed = (textKind = "output")
      /\ answered = <<>> /\ failed = FALSE
  BY DEF Init
<1>2. PICK s \in Given[textKind] : text = IF textKind = "string" THEN Append(s, NL) ELSE s
  BY DEF Init
<1>3. textKind \in {"external", "input", "output", "string"} /\ s \in Seq(C)
  BY <1>1, TextAssumption DEF C
<1>4. Append(s, NL) \in Seq(C) /\ Append(s, NL) # <<>>
  <2>1. NL \in C
    BY Classes
  <2>. QED BY <1>3, <2>1, AppendProperties
<1>5. text \in Seq(C) /\ (textKind = "string" => text # <<>>)
  BY <1>2, <1>3, <1>4
<1>6. /\ textKind = "external" => textMode = "closed"
      /\ textKind = "output" => textMode = "writing"
      /\ textKind \in {"input", "string"} => textMode = "reading"
  BY DEF Init
<1>7. /\ Fresh \in File /\ Fresh.ch = " " /\ Fresh.atbol = (textKind # "string")
      /\ Sound(Fresh) /\ Place(Fresh) = 0
  BY <1>5, FreshIs
<1>8. TextTypes
  BY <1>1, <1>3, <1>5, <1>6, <1>7 DEF TextTypes
<1>9. ModeOfKind
  BY <1>1, <1>3, <1>6, <1>7 DEF ModeOfKind
<1>10. textMode = "writing" => BolFollows /\ f.ch \in Std!Char
  <2>. SUFFICES ASSUME textMode = "writing" PROVE BolFollows /\ f.ch \in Std!Char
    OBVIOUS
  <2>1. textKind = "output"
    BY <1>3, <1>6
  <2>2. text = <<>>
    BY <1>1, <1>2, <2>1, TextAssumption
  <2>3. f.atbol = TRUE /\ f.ch = " "
    BY <1>1, <1>7, <2>1
  <2>. QED BY <2>2, <2>3, Classes DEF BolFollows
<1>11. TextInv
  BY <1>1, <1>7, <1>8, <1>9, <1>10 DEF TextInv
<1>12. TextHere = 0
  BY <1>1, <1>7, HereIs
<1>. QED BY <1>1, <1>3, <1>5, <1>6, <1>11, <1>12 DEF Std!Init, C

LEMMA CommonIs ==
  ASSUME TextInv, ~failed, Common
  PROVE  Std!Next /\ TextInv'
<1>1. CASE textKind # "string" /\ Reset
  BY <1>1, ResetIs DEF Std!Next
<1>2. CASE textKind # "string" /\ Rewrite
  BY <1>2, RewriteIs DEF Std!Next
<1>3. CASE textKind # "string" /\ Extend
  BY <1>3, ExtendIs DEF Std!Next
<1>4. CASE Writeln
  BY <1>4, WritelnIs DEF Std!Next
<1>5. CASE Eof
  BY <1>5, EofIs DEF Std!Next
<1>6. CASE Eoln
  BY <1>6, EolnIs DEF Std!Next
<1>7. CASE Get
  BY <1>7, GetIs DEF Std!Next
<1>8. CASE Readln
  BY <1>8, ReadlnIs DEF Std!Next
<1>9. CASE \E c \in OutText : Put(c)
  <2>1. PICK c \in OutText : Put(c)
    BY <1>9
  <2>2. c \in Std!Char /\ Std!Write(<<c>>) /\ TextInv'
    BY <2>1, PutIs
  <2>. QED BY <2>2 DEF Std!Next
<1>10. CASE \E s \in SeqOf(OutText, 1), w \in -1 .. 1 : Write(s, w)
  <2>1. PICK s \in SeqOf(OutText, 1), w \in -1 .. 1 : Write(s, w)
    BY <1>10
  <2>2. (Std!Write(<<>>) \/ \E c \in Std!Char : Std!Write(<<c>>)) /\ TextInv'
    BY <2>1, WriteIs
  <2>. QED BY <2>2 DEF Std!Next
<1>11. CASE ReadReal
  BY <1>11, ReadRealIs DEF Std!Next
<1>12. CASE ReadEnd
  BY <1>12, ReadEndIs DEF Std!Next
<1>13. CASE \E type \in DOMAIN Limits : ReadInt(type)
  <2>1. PICK type \in DOMAIN Limits : ReadInt(type)
    BY <1>13
  <2>2. Std!ReadInt(type) /\ TextInv'
    BY <2>1, ReadIntIs
  <2>. QED BY <2>2 DEF Std!Next
<1>14. CASE \E cap \in Caps : ReadStr(cap)
  <2>1. PICK cap \in Caps : ReadStr(cap)
    BY <1>14
  <2>2. cap \in Nat
    BY TextAssumption
  <2>3. Std!ReadStr(cap) /\ TextInv'
    BY <2>1, <2>2, ReadStrIs
  <2>. QED BY <2>3 DEF Std!Next
<1>. QED
  BY <1>1, <1>2, <1>3, <1>4, <1>5, <1>6, <1>7, <1>8, <1>9, <1>10, <1>11, <1>12, <1>13, <1>14
  DEF Common

LEMMA CarefulIs ==
  ASSUME TextInv, CarefulNext
  PROVE  Std!Next /\ TextInv'
<1>1. ~failed
  BY DEF CarefulNext
<1>2. CASE Common
  BY <1>1, <1>2, CommonIs
<1>3. CASE Full.ch # NL /\ Looks
  BY <1>1, <1>3, LooksIs DEF Std!Next
<1>4. CASE followed /\ Page
  BY <1>1, <1>4, PageIs DEF Std!Next
<1>. QED BY <1>2, <1>3, <1>4 DEF CarefulNext

\* Whatever the program does with a text, the lookahead, the characters given
\* back (pas_unread) and the stream together hold the text in its order, and
\* nothing given back was lost for want of a third place in pushback[2]; a text
\* being written knows how its line stands (atbol) as long as all that was
\* written went through pas_out and its callers.
THEOREM TextIsSound == Spec => []TextInv
<1>1. Init => TextInv
  BY InitIs
<1>2. TextInv /\ [Next]_textVars => TextInv'
  <2>. SUFFICES ASSUME TextInv, [Next]_textVars PROVE TextInv'
    OBVIOUS
  <2>1. CASE UNCHANGED textVars
    BY <2>1, SameKeeps DEF textVars, TextInv, TextTypes
  <2>2. CASE Next
    <3>1. ~failed /\ (Common \/ Looks \/ Page)
      BY <2>2 DEF Next
    <3>. QED BY <3>1, CommonIs, LooksKeeps, PageIs
  <2>. QED BY <2>1, <2>2
<1>. QED BY <1>1, <1>2, PTL DEF Spec

\* What the runtime does with a text implements the text of the standard, for
\* every text, limit and capacity, in a program that does not look at a line
\* marker that a number was read up to (pas_buffer) and asks for a page only
\* where atbol has followed the line (pas_page).
THEOREM TextImplements == CarefulSpec => ImplementsText
<1>1. Init => TextInv /\ Std!Init
  BY InitIs
<1>2. TextInv /\ [CarefulNext]_textVars => TextInv' /\ [Std!Next]_(Std!vars)
  <2>. SUFFICES ASSUME TextInv, [CarefulNext]_textVars
                PROVE  TextInv' /\ [Std!Next]_(Std!vars)
    OBVIOUS
  <2>1. CASE UNCHANGED textVars
    <3>1. /\ UNCHANGED <<textKind, text, f, textMode, followed>> /\ failed' = failed
          /\ answered' = answered
      BY <2>1 DEF textVars
    <3>2. TextInv' /\ TextHere' = TextHere
      BY <3>1, SameKeeps DEF TextInv, TextTypes
    <3>. QED BY <3>1, <3>2 DEF Std!vars
  <2>2. CASE CarefulNext
    BY <2>2, CarefulIs
  <2>. QED BY <2>1, <2>2
<1>. QED BY <1>1, <1>2, PTL DEF CarefulSpec, ImplementsText, Std!Spec
=============================================================================
