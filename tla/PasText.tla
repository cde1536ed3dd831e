------------------------------- MODULE PasText -------------------------------
(***************************************************************************)
(* A text (struct pas_file with istext, runtime/pasrt.c): characters and   *)
(* line markers read through one lazily fetched character of lookahead and *)
(* two of give-back, the derived reads (read of a char, a string, an       *)
(* integer and a real, readln), the writes, page, and the auxiliary text   *)
(* of readstr.                                                             *)
(*                                                                         *)
(* Four kinds of text differ in what opens them: an external or temporary  *)
(* one, the standard input, the standard output, and readstr's string,     *)
(* whose characters and a final line marker are in memory.                 *)
(***************************************************************************)
EXTENDS TextState

NL == "nl"
FF == "ff"
Digit == {"0", "1", "2", "3", "4", "5", "6", "7", "8", "9"}
DigitValue ==
  [c \in Digit |->
     CASE c = "0" -> 0 [] c = "1" -> 1 [] c = "2" -> 2 [] c = "3" -> 3 [] c = "4" -> 4
       [] c = "5" -> 5 [] c = "6" -> 6 [] c = "7" -> 7 [] c = "8" -> 8 [] c = "9" -> 9]
Sign == {"+", "-"}

\* pas_file_init; pas_str_file's calloc leaves atbol 0.
Fresh == [at |-> 0, have |-> FALSE, lookahead |-> EOF, ch |-> " ", ateof |-> FALSE,
          pushback |-> <<>>, atbol |-> textKind # "string"]

Init ==
  /\ textKind \in DOMAIN Given
  /\ text \in {IF textKind = "string" THEN Append(s, NL) ELSE s : s \in Given[textKind]}
  /\ f = Fresh
  /\ textMode = CASE textKind = "external" -> "closed" [] textKind = "output" -> "writing"
              [] OTHER -> "reading"
  /\ followed = (textKind = "output") /\ answered = <<>> /\ failed = FALSE

-----------------------------------------------------------------------------
(* The lookahead.  These operators give the file after a step of the C     *)
(* code: pas_fill, `f->have = 0`, pas_unread and the loops around them.    *)

\* A character given back is next, before the stream; at the end of a stream
\* that is not at the start of a line, a line marker is delivered first.
Fill(g) ==
  LET raw == IF g.at < Len(text) THEN text[g.at + 1] ELSE EOF
      c == IF raw = EOF /\ ~g.atbol THEN NL ELSE raw
  IN CASE g.have -> g
       [] ~g.have /\ g.pushback # <<>> ->
            [g EXCEPT !.have = TRUE, !.ateof = FALSE, !.pushback = Front(@),
                      !.lookahead = Last(g.pushback), !.ch = Last(g.pushback)]
       [] OTHER ->
            [g EXCEPT !.have = TRUE, !.lookahead = c, !.ateof = c = EOF,
                      !.ch = IF c \in {NL, EOF} THEN " " ELSE c,
                      !.at = IF raw = EOF THEN @ ELSE @ + 1,
                      !.atbol = IF c = EOF THEN @ ELSE c = NL]

Consumed(g) == [g EXCEPT !.have = FALSE]
Advance(g) == Fill(Consumed(g))

\* Enough turns for any loop of the reads to come to its end.
Turns == Len(text) + 4
Repeat(Step(_), r) ==
  LET Turn[n \in 0 .. Turns] == IF n = 0 THEN r ELSE Step(Turn[n - 1])
  IN Turn[Turns]

At(C, g) == g.lookahead \in C
AtDigit(g) == At(Digit, g)
AtBlank(g) == At({" ", NL}, g)
SkipBlanks(g) == Repeat(LAMBDA h : IF AtBlank(h) THEN Advance(h) ELSE h, Fill(g))

\* pas_unread: what the lookahead held has not been consumed either, and goes
\* behind the character given back; a third one would be written past
\* pushback[2], which is to say lost.
Unread(g, c) ==
  [g EXCEPT !.pushback =
              IF g.have /\ g.lookahead # EOF /\ Len(@) < 2 THEN Append(@, g.lookahead) ELSE @,
            !.lookahead = c, !.ch = c, !.have = TRUE, !.ateof = FALSE]

-----------------------------------------------------------------------------
(* Reading a number: the file and the characters of the number so far.     *)

TakeOne(r) == [g |-> Advance(r.g), num |-> Append(r.num, r.g.lookahead)]
TakeSign(r) == IF At(Sign, r.g) THEN TakeOne(r) ELSE r
TakeDigits(r) == Repeat(LAMBDA q : IF AtDigit(q.g) THEN TakeOne(q) ELSE q, r)
HasDigits(r) == r.num # <<>> /\ Last(r.num) \in Digit

\* A point belongs to the number only if a digit follows it.
TakeFraction(r) ==
  LET h == Advance(r.g)
  IN CASE ~(At({"."}, r.g) /\ HasDigits(r)) -> r
       [] At({"."}, r.g) /\ HasDigits(r) /\ AtDigit(h) ->
            TakeDigits([g |-> h, num |-> Append(r.num, ".")])
       [] OTHER -> [r EXCEPT !.g = Unread(h, ".")]

\* An `e`, and a sign after it, only if a digit follows them.
MutantTakeScale(r) ==
  LET h == Advance(r.g)
      k == IF At(Sign, h) THEN Advance(h) ELSE h
  IN CASE ~(At({"e"}, r.g) /\ HasDigits(r)) -> r
       [] At({"e"}, r.g) /\ HasDigits(r) /\ AtDigit(k) ->
            TakeDigits([g |-> k, num |-> r.num \o <<"e">>])
       [] OTHER -> [r EXCEPT !.g = Unread(k, "e")]
TakeScale(r) ==
  LET h == Advance(r.g)
      sign == IF At(Sign, h) THEN <<h.lookahead>> ELSE <<>>
      k == IF sign = <<>> THEN h ELSE Advance(h)
  IN CASE ~(At({"e"}, r.g) /\ HasDigits(r)) -> r
       [] At({"e"}, r.g) /\ HasDigits(r) /\ AtDigit(k) ->
            TakeDigits([g |-> k, num |-> r.num \o <<"e">> \o sign])
       [] OTHER ->
            [r EXCEPT !.g = Unread(IF sign = <<>> THEN k ELSE Unread(k, sign[1]), "e")]

Begin == [g |-> SkipBlanks(f), num |-> <<>>]

\* pas_read_int_at's accumulation, refused before it would pass the limit.
Exceeds(value, digit, limit) ==
  value > limit \div 10 \/ (value = limit \div 10 /\ digit > limit % 10)
Accumulated(digits, limit) ==
  LET Upto[n \in 0 .. Len(digits)] ==
        LET value == Upto[n - 1]
            digit == DigitValue[digits[n]]
        IN IF n = 0 THEN 0
           ELSE IF value = -1 \/ Exceeds(value, digit, limit) THEN -1 ELSE 10 * value + digit
  IN Upto[Len(digits)]

-----------------------------------------------------------------------------
Fails(op) ==
  /\ failed' = TRUE /\ answered' = <<"error", op>>
  /\ UNCHANGED <<textKind, text, f, textMode, followed>>

\* reset, rewrite and extend.  reset(input) keeps the lookahead it may hold;
\* rewrite(output) and extend keep atbol.
Opened(s, g, m) ==
  \/ /\ text' = s /\ f' = g /\ textMode' = m
     /\ followed' = (s = <<>> \/ (textKind = "output" /\ followed))
     /\ answered' = <<>> /\ UNCHANGED <<textKind, failed>>
  \/ textKind = "external" /\ Fails("open")

Reset ==
  CASE textKind = "external" -> Opened(text, Fresh, "reading")
    [] textKind = "input" -> Opened(text, f, "reading")
    [] OTHER -> textKind = "output" /\ Fails("open")

Rewrite ==
  CASE textKind = "external" -> Opened(<<>>, Fresh, "writing")
    [] textKind = "output" -> Opened(text, [Fresh EXCEPT !.atbol = f.atbol], "writing")
    [] OTHER -> textKind = "input" /\ Fails("open")

Extend ==
  CASE textKind \in {"external", "output"} ->
         Opened(text, [Fresh EXCEPT !.atbol = f.atbol], "writing")
    [] OTHER -> textKind = "input" /\ Fails("open")

-----------------------------------------------------------------------------
(* What reads a text.                                                      *)

Read(op, g, ok, answer) ==
  IF textMode = "reading" /\ ok
    THEN /\ f' = g /\ answered' = <<op, answer>>
         /\ UNCHANGED <<textKind, text, textMode, followed, failed>>
    ELSE Fails(op)

Full == Fill(f)

Eof ==
  \/ /\ textMode = "writing" /\ answered' = <<"eof", TRUE>>
     /\ UNCHANGED <<textKind, text, f, textMode, followed, failed>>
  \/ textMode # "writing" /\ Read("eof", Full, TRUE, Full.ateof)

Eoln == Read("eoln", Full, Full.lookahead # EOF, Full.lookahead = NL)
\* f^ in a text being written is whatever was last put there.
Look ==
  \/ /\ textMode = "writing" /\ answered' = <<"buffer", f.ch>>
     /\ UNCHANGED <<textKind, text, f, textMode, followed, failed>>
  \/ textMode # "writing" /\ Read("buffer", Full, ~Full.ateof, Full.ch)
Get == Read("get", Consumed(Full), ~Full.ateof, 0)
ReadChar == Read("char", Consumed(Full), ~Full.ateof, Full.ch)

SkipLine(g) == Repeat(LAMBDA h : IF At({NL, EOF}, h) THEN h ELSE Advance(h), g)
Readln ==
  LET end == SkipLine(Full)
  IN Read("readln", IF end.lookahead = NL THEN Consumed(end) ELSE end,
          Full.lookahead # EOF, 0)

\* pas_read_str stops at the capacity with the next character unread.
InLine(g) == ~g.ateof /\ g.lookahead # NL
TakeChar(r, cap) ==
  LET h == Fill(r.g)
  IN CASE Len(r.num) >= cap -> r
       [] Len(r.num) < cap /\ InLine(h) -> [g |-> Consumed(h), num |-> Append(r.num, h.ch)]
       [] OTHER -> [r EXCEPT !.g = h]
TakeString(g, cap) == Repeat(LAMBDA r : TakeChar(r, cap), [g |-> g, num |-> <<>>])
ReadStr(cap) ==
  LET last == TakeString(Full, cap)
  IN Read("string", last.g, ~Full.ateof, last.num)

ReadInt(type) ==
  LET r == TakeDigits(TakeSign(Begin))
      signed == r.num # <<>> /\ r.num[1] \in Sign
      value == Accumulated(IF signed THEN Tail(r.num) ELSE r.num, Limits[type])
  IN Read(type, r.g, HasDigits(r) /\ value # -1,
          IF signed /\ r.num[1] = "-" THEN -value ELSE value)

ReadReal ==
  LET r == TakeScale(TakeFraction(TakeDigits(TakeSign(Begin))))
  IN Read("real", r.g, HasDigits(r), r.num)

\* pas_str_read_end: every value had characters to read.
ReadEnd ==
  /\ textKind = "string" /\ textMode = "reading"
  /\ IF Full.ateof THEN Fails("readstr")
     ELSE /\ textMode' = "closed" /\ answered' = <<>> /\ f' = Full
          /\ UNCHANGED <<textKind, text, followed, failed>>

-----------------------------------------------------------------------------
(* What writes one.                                                        *)

Wrote(s, g, follows) ==
  IF textMode = "writing"
    THEN /\ Len(text \o s) <= MaxText
         /\ text' = text \o s /\ f' = g /\ followed' = follows
         /\ answered' = <<>> /\ UNCHANGED <<textKind, textMode, failed>>
    ELSE Fails("write")

\* f^ := c; put(f)
Put(c) == Wrote(<<c>>, [f EXCEPT !.ch = c], FALSE)

\* pas_write_str of no or one character, width -1 when none was given.
Padded(s, width) == CASE width < 0 -> s [] width = 0 -> <<>>
                      [] OTHER -> IF s = <<>> THEN <<" ">> ELSE s
Write(s, width) ==
  Wrote(Padded(s, width),
        [f EXCEPT !.atbol = @ /\ ~(width # 0 /\ ~(width < 0 /\ s = <<>>))], followed)

Writeln == Wrote(<<NL>>, [f EXCEPT !.atbol = TRUE], followed)

Page == Wrote((IF f.atbol THEN <<>> ELSE <<NL>>) \o <<FF>>,
              [f EXCEPT !.atbol = TRUE, !.have = FALSE], followed)

-----------------------------------------------------------------------------
\* readstr's text is only read, until its end, and is not a variable the
\* program contains: its f^ cannot be named.
Readable == textKind # "string" \/ textMode = "reading"
Looks == (textKind # "string" /\ Look) \/ (Readable /\ ReadChar)

\* The calls that need no further care from the program.
Common ==
  \/ /\ textKind # "string"
     /\ \/ Reset \/ Rewrite \/ Extend \/ Writeln \/ Eof \/ Eoln \/ Get \/ Readln
        \/ \E c \in OutText : Put(c)
        \/ \E s \in SeqOf(OutText, 1), w \in -1 .. 1 : Write(s, w)
  \/ /\ Readable
     /\ \/ ReadReal \/ ReadEnd
        \/ \E type \in DOMAIN Limits : ReadInt(type)
        \/ \E cap \in Caps : ReadStr(cap)

\* Every program ...
Next == ~failed /\ (Common \/ Looks \/ (textKind # "string" /\ Page))

\* ... and one that does not look at a line marker a number was read up to,
\* and asks for a page only where the runtime knows how the line stands.
CarefulNext ==
  /\ ~failed
  /\ \/ Common
     \/ Full.ch # NL /\ Looks
     \/ followed /\ Page

Spec == Init /\ [][Next]_textVars
CarefulSpec == Init /\ [][CarefulNext]_textVars

=============================================================================
