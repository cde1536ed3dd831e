---------------------------- MODULE MCPasStreams ----------------------------
(***************************************************************************)
(* What a program reads and writes: files of components (PasFile), texts   *)
(* (PasText) and connections (PasSocket), each on small instances.  A      *)
(* behaviour is one of the three; the others' variables stay as they       *)
(* began.                                                                  *)
(***************************************************************************)
EXTENDS PasFile, SequencesExt, SocketState, TextState

CONSTANTS one, two, junk

VARIABLE which

TwoComponents == {one, two}

\* A sequential file, temporary and external, a temporary direct-access file of
\* an index-type with two values, and external direct-access files with and
\* without a bound.
AllKinds ==
  {[direct |-> FALSE, named |-> FALSE, capacity |-> 0],
   [direct |-> FALSE, named |-> TRUE, capacity |-> 0],
   [direct |-> TRUE, named |-> FALSE, capacity |-> 2],
   [direct |-> TRUE, named |-> TRUE, capacity |-> 2],
   [direct |-> TRUE, named |-> TRUE, capacity |-> 0]}

\* What a number may be made of, and what lines are; the standard output is
\* empty when the program starts.
Numbers == SeqOf({"1", ".", "e", "+"}, 5)
Lines == SeqOf({"1", ".", "x", "nl"}, 3)
Digits == SeqOf({"1", "9", "-", " "}, 4)
FourTexts ==
  [input |-> Numbers \cup Lines, external |-> Lines, output |-> {<<>>}, string |-> Digits]

\* A narrow and a wide integer type: 11 has its last digit as its bound, and
\* 119 takes one digit more.
TwoWidths == [integer |-> 11, int64 |-> 119]

\* What the far end of a connection may send.
FourBytes == SeqOf({"x", CR, LF}, 4)

OutChars == {"1", "x"}

Text == INSTANCE PasText
Sock == INSTANCE PasSocket

MCInit ==
  \/ /\ which = "files" /\ Init
     /\ textKind = "output" /\ Text!Init /\ sends = <<>> /\ Sock!Init
  \/ /\ which = "texts" /\ Text!Init
     /\ kind = (CHOOSE k \in Kinds : ~k.named) /\ Init /\ sends = <<>> /\ Sock!Init
  \/ /\ which = "sockets" /\ Sock!Init
     /\ kind = (CHOOSE k \in Kinds : ~k.named) /\ Init /\ textKind = "output" /\ Text!Init

MCNext ==
  \/ which = "files" /\ CarefulNext /\ UNCHANGED <<which, textVars, sockVars>>
  \/ which = "texts" /\ Text!CarefulNext /\ UNCHANGED <<which, vars, sockVars>>
  \/ which = "sockets" /\ Sock!Next /\ UNCHANGED <<which, vars, textVars>>

MCSpec == MCInit /\ [][MCNext]_<<which, vars, textVars, sockVars>>
=============================================================================
