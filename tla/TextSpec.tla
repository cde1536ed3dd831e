------------------------------ MODULE TextSpec ------------------------------
(***************************************************************************)
(* What a text promises (ISO 7185 6.4.3.5, 6.6.5.2, 6.9.1 and 6.9.5, as    *)
(* the comments of runtime/pasrt.c state them): a sequence of characters   *)
(* and line markers, of which the first p have been read.  A text being    *)
(* read ends in a line marker whatever was written last.  A number is the  *)
(* longest prefix that forms one, defined here by its grammar and in       *)
(* PasText by the loops that read it.                                      *)
(***************************************************************************)
EXTENDS Integers, Sequences, SequencesExt, FiniteSetsExt

CONSTANTS Limits, Caps
VARIABLES stored, p, M, reply, stopped
vars == <<stored, p, M, reply, stopped>>

NL == "nl"     \* the line marker
FF == "ff"     \* what page writes
Digit == {"0", "1", "2", "3", "4", "5", "6", "7", "8", "9"}
DigitValue ==
  [c \in Digit |->
     CASE c = "0" -> 0 [] c = "1" -> 1 [] c = "2" -> 2 [] c = "3" -> 3 [] c = "4" -> 4
       [] c = "5" -> 5 [] c = "6" -> 6 [] c = "7" -> 7 [] c = "8" -> 8 [] c = "9" -> 9]
Sign == {"+", "-"}
Blank == {" ", NL}
Char == Digit \cup Sign \cup {".", "e", " ", "x"}
TextComponent == Char \cup {NL, FF}

Terminated(s) == IF s = <<>> \/ Last(s) = NL THEN s ELSE Append(s, NL)
Rest == SubSeq(Terminated(stored), p + 1, Len(Terminated(stored)))
Shown(c) == IF c = NL THEN " " ELSE c

-----------------------------------------------------------------------------
(* 6.1.5: the numbers, and 6.9.1: the longest prefix that is one.          *)

IsDigits(s) == s # <<>> /\ \A i \in 1 .. Len(s) : s[i] \in Digit
From(s, i) == SubSeq(s, i, Len(s))
IsSigned(s, Is(_)) == Is(s) \/ (s # <<>> /\ s[1] \in Sign /\ Is(Tail(s)))
IsInteger(s) == IsSigned(s, IsDigits)
IsDecimal(s) ==
  \/ IsDigits(s)
  \/ \E i \in 1 .. Len(s) :
       s[i] = "." /\ IsDigits(SubSeq(s, 1, i - 1)) /\ IsDigits(From(s, i + 1))
IsUnsigned(s) ==
  \/ IsDecimal(s)
  \/ \E i \in 1 .. Len(s) :
       s[i] = "e" /\ IsDecimal(SubSeq(s, 1, i - 1)) /\ IsInteger(From(s, i + 1))
IsReal(s) == IsSigned(s, IsUnsigned)

Blanks(r) == Max({n \in 0 .. Len(r) : \A i \in 1 .. n : r[i] \in Blank})
Longest(r, Is(_)) == Max({0} \cup {n \in 1 .. Len(r) : Is(SubSeq(r, 1, n))})

Magnitude(s) ==
  LET Of[n \in 0 .. Len(s)] ==
        IF n = 0 THEN 0
        ELSE IF s[n] \in Sign THEN Of[n - 1] ELSE 10 * Of[n - 1] + DigitValue[s[n]]
  IN Of[Len(s)]
Value(s) == IF s[1] = "-" THEN -Magnitude(s) ELSE Magnitude(s)

-----------------------------------------------------------------------------
Init ==
  /\ stored \in Seq(TextComponent) /\ p = 0
  /\ M \in {"closed", "reading", "writing"} /\ reply = <<>> /\ stopped = FALSE

\* An operation whose pre-assertion does not hold stops the program; nothing
\* else stops it but a file that cannot be opened.
Stop(op) ==
  /\ stopped' = TRUE /\ reply' = <<"error", op>> /\ UNCHANGED <<stored, p, M>>

Open(s, m) ==
  \/ stored' = s /\ p' = 0 /\ M' = m /\ reply' = <<>> /\ UNCHANGED stopped
  \/ Stop("open")
\* reset(input), rewrite(output) and extend(output) change nothing.
Kept == reply' = <<>> /\ UNCHANGED <<stored, p, M, stopped>>
Opened == Open(stored, "reading") \/ Open(<<>>, "writing") \/ Open(stored, "writing") \/ Kept

\* Take n components and answer r.
Read(op, pre, n, r) ==
  IF M = "reading" /\ pre
    THEN p' = p + n /\ reply' = <<op, r>> /\ UNCHANGED <<stored, M, stopped>>
    ELSE Stop(op)

Eof ==
  \/ M = "writing" /\ reply' = <<"eof", TRUE>> /\ UNCHANGED <<stored, p, M, stopped>>
  \/ M # "writing" /\ Read("eof", TRUE, 0, Rest = <<>>)
Eoln == Read("eoln", Rest # <<>>, 0, Head(Rest) = NL)
Look ==
  \/ /\ M = "writing" /\ \E c \in Char : reply' = <<"buffer", c>>
     /\ UNCHANGED <<stored, p, M, stopped>>
  \/ M # "writing" /\ Read("buffer", Rest # <<>>, 0, Shown(Head(Rest)))
Get == Read("get", Rest # <<>>, 1, 0)
ReadChar == Read("char", Rest # <<>>, 1, Shown(Head(Rest)))
LineLength == Min({i \in 1 .. Len(Rest) : Rest[i] = NL}) - 1
Readln == Read("readln", Rest # <<>>, LineLength + 1, 0)
ReadStr(cap) ==
  LET n == Min({cap, LineLength}) IN Read("string", Rest # <<>>, n, SubSeq(Rest, 1, n))
ReadInt(type) ==
  LET b == Blanks(Rest) r == From(Rest, b + 1) n == Longest(r, IsInteger)
      s == SubSeq(r, 1, n)
  IN Read(type, n > 0 /\ Magnitude(s) <= Limits[type], b + n, Value(s))
ReadReal ==
  LET b == Blanks(Rest) r == From(Rest, b + 1) n == Longest(r, IsReal)
  IN Read("real", n > 0, b + n, SubSeq(r, 1, n))
\* readstr's end: an error if the reads have consumed the whole line.
ReadEnd ==
  IF Rest = <<>> THEN Stop("readstr")
  ELSE M' = "closed" /\ p' = 0 /\ reply' = <<>> /\ UNCHANGED <<stored, stopped>>

Write(s) ==
  IF M = "writing"
    THEN stored' = stored \o s /\ reply' = <<>> /\ UNCHANGED <<p, M, stopped>>
    ELSE Stop("write")
\* page ends the line that is there, if it has anything on it.
Page == Write((IF stored = <<>> \/ Last(stored) \in {NL, FF} THEN <<>> ELSE <<NL>>) \o <<FF>>)

Next ==
  /\ ~stopped
  /\ \/ Opened \/ Eof \/ Eoln \/ Look \/ Get \/ ReadChar \/ Readln \/ ReadReal
     \/ ReadEnd \/ Page \/ Write(<<>>) \/ Write(<<NL>>) \/ \E c \in Char : Write(<<c>>)
     \/ \E cap \in Caps : ReadStr(cap)
     \/ \E type \in DOMAIN Limits : ReadInt(type)

Spec == Init /\ [][Next]_vars
=============================================================================
