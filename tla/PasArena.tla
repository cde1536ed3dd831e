------------------------------ MODULE PasArena ------------------------------
(***************************************************************************)
(* The string arena (pas_str_temp, runtime/pasrt.c): a stack of bytes from *)
(* which concatenations, addressed chars, padded and foreign strings and   *)
(* normalized texts are lent, and which the emitted code gives back by     *)
(* storing the level its function found at entry (ReleaseStrTemps), at the *)
(* end of every statement that may have taken some and after the condition *)
(* of a loop.                                                              *)
(*                                                                         *)
(* One chain of activations: the arena and its level are thread-local.  A  *)
(* level and a size count in units of bytes; a value is the interval it    *)
(* occupies.                                                               *)
(***************************************************************************)
EXTENDS ArenaState, SequencesExt

\* A statement being executed.  own: its expression, or its loop's condition,
\* has code that takes storage; any: or a statement inside it has.  held: what
\* its expression has taken and still uses.  entry: the level when a loop began.
Statement(kind, own, any) ==
  [kind |-> kind, own |-> own, any |-> any, held |-> {},
   entry |-> IF kind \in {"while", "repeat"} THEN pas_str_at ELSE 0,
   phase |-> IF kind = "repeat" THEN "body" ELSE "expr"]

Frame == Last(frames)
Inner == Last(Frame.open)
WithOpen(open) == [frames EXCEPT ![Len(frames)].open = open]
WithInner(s) == WithOpen([Frame.open EXCEPT ![Len(Frame.open)] = s])
Running == ~overfull /\ frames # <<>>
Evaluating == Running /\ Frame.open # <<>> /\ Inner.phase = "expr"
MayBegin == Running /\ (Frame.open # <<>> => Inner.phase = "body")

Init == pas_str_at = 0 /\ frames = <<[base |-> 0, open |-> <<>>]>> /\ overfull = FALSE

-----------------------------------------------------------------------------
(* Expressions.                                                            *)

\* Wraps to the start instead, as the arena did before it was a stack.
Mutantpas_str_temp(n) ==
  /\ Evaluating /\ Inner.own /\ n <= ArenaSize
  /\ LET from == IF pas_str_at + n > ArenaSize THEN 0 ELSE pas_str_at
     IN /\ pas_str_at' = from + n
        /\ frames' = WithInner([Inner EXCEPT !.held = @ \cup {from .. from + n - 1}])
        /\ UNCHANGED overfull

\* A producer takes n bytes for a value of the statement that is evaluated.
pas_str_temp(n) ==
  /\ Evaluating /\ Inner.own
  /\ IF n > ArenaSize \/ pas_str_at + n > ArenaSize
       THEN overfull' = TRUE /\ UNCHANGED <<pas_str_at, frames>>
       ELSE /\ pas_str_at' = pas_str_at + n
            /\ frames' = WithInner([Inner EXCEPT !.held =
                                      @ \cup {pas_str_at .. pas_str_at + n - 1}])
            /\ UNCHANGED overfull

\* A function called in an expression: its prologue reads the level.
Call ==
  /\ Evaluating /\ Len(frames) < MaxDepth
  /\ frames' = Append(frames, [base |-> pas_str_at, open |-> <<>>])
  /\ UNCHANGED <<pas_str_at, overfull>>

\* It returns, at the end of its body, by exit or from an expression by try: a
\* string result has been copied out, and the epilogue stores no level.
Return ==
  /\ Running /\ Len(frames) > 1
  /\ frames' = Front(frames)
  /\ UNCHANGED <<pas_str_at, overfull>>

-----------------------------------------------------------------------------
(* Statements.                                                             *)

\* EmitStmt: what a statement takes was counted while it was emitted, the
\* statements inside it included, so own implies any.
Begin(kind, own, any) ==
  /\ MayBegin /\ Len(Frame.open) < MaxNest
  /\ own => any
  /\ kind = "simple" => own = any
  /\ Frame.open # <<>> /\ any => Inner.any
  /\ frames' = WithOpen(Append(Frame.open, Statement(kind, own, any)))
  /\ UNCHANGED <<pas_str_at, overfull>>

\* The expression of an if or a case is reduced to what is branched on; its
\* storage is given back when the statement ends.
Branch ==
  /\ Evaluating /\ Inner.kind = "if"
  /\ frames' = WithInner([Inner EXCEPT !.held = {}, !.phase = "body"])
  /\ UNCHANGED <<pas_str_at, overfull>>

\* A release stores the level the function found.
ReleaseStrTemps == pas_str_at' = Frame.base

\* The condition's storage is left to the release after the whole loop.
MutantCondition(leaves) ==
  /\ Evaluating /\ Inner.kind \in {"while", "repeat"}
  /\ UNCHANGED pas_str_at
  /\ frames' = WithInner([Inner EXCEPT !.held = {}, !.phase = IF leaves THEN "end" ELSE "body"])
  /\ UNCHANGED overfull

\* EmitWhile, EmitRepeat: the condition is reduced and gives back at once.
Condition(leaves) ==
  /\ Evaluating /\ Inner.kind \in {"while", "repeat"}
  /\ IF Inner.own THEN ReleaseStrTemps ELSE UNCHANGED pas_str_at
  /\ frames' = WithInner([Inner EXCEPT !.held = {}, !.phase = IF leaves THEN "end" ELSE "body"])
  /\ UNCHANGED overfull

\* The body of a loop is done once, and the condition follows.
Again ==
  /\ MayBegin /\ Frame.open # <<>> /\ Inner.kind \in {"while", "repeat"}
  /\ frames' = WithInner([Inner EXCEPT !.phase = "expr"])
  /\ UNCHANGED <<pas_str_at, overfull>>

\* EmitForInText: the text walked is evaluated once and used by every turn.
Walk ==
  /\ Evaluating /\ Inner.kind = "forin"
  /\ frames' = WithInner([Inner EXCEPT !.phase = "body"])
  /\ UNCHANGED <<pas_str_at, overfull>>

\* A statement is done: a simple one when its expression is, a structured one
\* after its body, and what it and the statements inside it took is given back.
End ==
  /\ Running /\ Frame.open # <<>>
  /\ Inner.phase = CASE Inner.kind = "simple" -> "expr"
                     [] Inner.kind \in {"if", "forin"} -> "body"
                     [] OTHER -> "end"
  /\ IF Inner.any THEN ReleaseStrTemps ELSE UNCHANGED pas_str_at
  /\ frames' = WithOpen(Front(Frame.open))
  /\ UNCHANGED overfull

-----------------------------------------------------------------------------
(* Leaving statements otherwise: nothing is released on the way.           *)

IsLoop(s) == s.kind \in {"while", "repeat", "forin"}

\* continue, to the condition of the nearest loop, and break, past its body:
\* n statements inside it are abandoned.  A text's loop has no condition of
\* its own to go to.
Leave(n, next) ==
  /\ MayBegin /\ n < Len(Frame.open)
  /\ LET stays == SubSeq(Frame.open, 1, Len(Frame.open) - n)
         loop == Last(stays)
     IN /\ IsLoop(loop) /\ loop.phase = "body"
        /\ \A i \in Len(stays) + 1 .. Len(Frame.open) : ~IsLoop(Frame.open[i])
        /\ next \in IF loop.kind = "forin" THEN {"body"} ELSE {"expr", "end"}
        /\ frames' = WithOpen([stays EXCEPT ![Len(stays)] = [loop EXCEPT !.phase = next]])
  /\ UNCHANGED <<pas_str_at, overfull>>

\* goto a label of this or, past d activations, of an enclosing block: the
\* statements around the label stay open.
Goto(d, n) ==
  /\ MayBegin /\ d < Len(frames) /\ d + n > 0
  /\ LET cut == SubSeq(frames, 1, Len(frames) - d)
         open == Last(cut).open
         stays == SubSeq(open, 1, Len(open) - n)
     IN /\ n <= Len(open)
        /\ stays # <<>> => Last(stays).phase = "body"
        /\ frames' = [cut EXCEPT ![Len(cut)].open = stays]
  /\ UNCHANGED <<pas_str_at, overfull>>

-----------------------------------------------------------------------------
Kinds == {"simple", "if", "while", "repeat", "forin"}

InOrder ==
  \/ \E n \in Sizes : pas_str_temp(n)
  \/ Call \/ Branch \/ Again \/ Walk \/ End
  \/ \E leaves \in BOOLEAN : Condition(leaves)
  \/ \E kind \in Kinds, own, any \in BOOLEAN : Begin(kind, own, any)

LeavesEarly ==
  \/ Return
  \/ \E n \in 0 .. MaxNest - 1, next \in {"expr", "end", "body"} : Leave(n, next)
  \/ \E d \in 0 .. MaxDepth - 1, n \in 0 .. MaxNest : Goto(d, n)

Next == InOrder \/ LeavesEarly
Spec == Init /\ [][Next]_arenaVars

\* The open statements that hold the text they walk.
Walked == {p \in Open : At(p).kind = "forin" /\ At(p).held # {} /\ At(p).phase = "body"}

\* A program that walks a text of the arena only with a body that takes
\* nothing, and leaves early no statement whose own expression keeps storage
\* until the statement's end.
BodiesTakeNothing ==
  \A p \in Walked : \A q \in Open : q[1] = p[1] /\ q[2] > p[2] => ~At(q).any
Keeps(s) == s.own /\ ~(s.kind \in {"while", "repeat"} /\ s.phase = "body")
AbandonsNone == \A p \in Open : Keeps(At(p)) => p \in Open'

CarefulNext ==
  /\ InOrder \/ (LeavesEarly /\ AbandonsNone)
  /\ BodiesTakeNothing'
CarefulSpec == Init /\ [][CarefulNext]_arenaVars
=============================================================================
