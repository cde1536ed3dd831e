----------------------------- MODULE TextState -----------------------------
(***************************************************************************)
(* The state of a text (struct pas_file with istext, runtime/pasrt.c), the *)
(* part of it the program has read, and the text of the standard that it   *)
(* must implement.  PasText has the operations.                            *)
(***************************************************************************)
EXTENDS Integers, Sequences, SequencesExt

CONSTANTS
  Given,    \* what a text of each kind may hold when the program starts; the
            \* kinds are of "external", "input", "output" and "string"
  OutText,  \* the characters the program writes
  MaxText,  \* a bound of the model on the length of a written text
  Limits,   \* the largest magnitude each type of integer admits, by its name
  Caps      \* the capacities of the strings read

VARIABLES
  textKind,
  text,      \* what the stream, or readstr's buffer, holds
  f,         \* the fields of struct pas_file that reading uses
  textMode,
  followed,  \* history: atbol has followed all that is in the text
  answered,  \* what the last operation answered
  failed     \* an operation has stopped the program
textVars == <<textKind, text, f, textMode, followed, answered, failed>>

EOF == "eof"

\* How many components the program has read: what the stream has delivered,
\* with the line marker added at its end, but for the lookahead and what was
\* given back.
Unended == text # <<>> /\ Last(text) # "nl"
TextHere ==
  IF textMode # "reading" THEN 0
  ELSE f.at + (IF f.at = Len(text) /\ Unended /\ f.atbol THEN 1 ELSE 0)
       - Len(f.pushback) - (IF f.have /\ f.lookahead # EOF THEN 1 ELSE 0)

Std == INSTANCE TextSpec WITH
  stored <- text, p <- TextHere, M <- textMode, reply <- answered, stopped <- failed

\* The standard output is empty when the program starts.
ASSUME TextAssumption ==
  /\ DOMAIN Given \subseteq {"external", "input", "output", "string"}
  /\ \A k \in DOMAIN Given : Given[k] \subseteq Seq(Std!TextComponent)
  /\ "output" \in DOMAIN Given => Given["output"] \subseteq {<<>>}
  /\ OutText \subseteq Std!Char /\ MaxText \in Nat /\ Caps \subseteq Nat
  /\ \A type \in DOMAIN Limits : Limits[type] \in Nat

\* The lookahead, the give-back, the loops and the line marker added at the
\* end implement the text of the standard: every number read is the longest
\* prefix that forms one, nothing after it is lost or read twice, however deep
\* the over-read and whatever was read before, every line ends once, and an
\* operation is refused exactly when it should be.
ImplementsText == Std!Spec
=============================================================================
