----------------------------- MODULE ChannelSpec -----------------------------
(***************************************************************************)
(* What a channel promises the program (6.4.16, 6.9.3.13 and 6.9.3.15 of   *)
(* the dialect's specification, as the code of runtime/pasrt_task.c keeps  *)
(* them): a bounded first-in first-out queue that may be closed once and   *)
(* for all, is drained before its close is reported, and refuses a send    *)
(* after the close.  No lock, no waiting and no thread local state.        *)
(***************************************************************************)
EXTENDS Naturals, Sequences

CONSTANTS Thread, Chan, Value, Cap

VARIABLES queue, closed, result

vars == <<queue, closed, result>>

Answer(t, r) == result' = [result EXCEPT ![t] = r]

Init ==
  /\ queue = [c \in Chan |-> <<>>]
  /\ closed = [c \in Chan |-> FALSE]
  /\ result = [t \in Thread |-> <<"none">>]

\* A statement begins: nothing is known of its outcome.
Begin(t) == Answer(t, <<"none">>) /\ UNCHANGED <<queue, closed>>

Send(t, c, v) ==
  /\ ~closed[c] /\ Len(queue[c]) < Cap[c]
  /\ queue' = [queue EXCEPT ![c] = Append(@, v)]
  /\ Answer(t, <<"sent", c, v>>)
  /\ UNCHANGED closed

Receive(t, c) ==
  /\ queue[c] # <<>>
  /\ queue' = [queue EXCEPT ![c] = Tail(@)]
  /\ Answer(t, <<"got", c, Head(queue[c])>>)
  /\ UNCHANGED closed

\* A receive reports the close only of a channel that is drained.
ReportClose(t, c) ==
  /\ closed[c] /\ queue[c] = <<>>
  /\ Answer(t, <<"closed", c>>)
  /\ UNCHANGED <<queue, closed>>

Close(c) ==
  /\ closed' = [closed EXCEPT ![c] = TRUE]
  /\ UNCHANGED <<queue, result>>

GiveUp(t) == Answer(t, <<"gave up">>) /\ UNCHANGED <<queue, closed>>

\* The errors: a send after the close, and the faults of the statement itself.
Error(t) ==
  /\ \/ \E c \in Chan : closed[c] /\ Answer(t, <<"send on closed", c>>)
     \/ \E c \in Chan : Answer(t, <<"empty variable", c>>)
     \/ Answer(t, <<"negative time">>)
  /\ UNCHANGED <<queue, closed>>

Next ==
  \/ \E t \in Thread :
       \/ Begin(t) \/ GiveUp(t) \/ Error(t)
       \/ \E c \in Chan : \/ Receive(t, c) \/ ReportClose(t, c)
                          \/ \E v \in Value : Send(t, c, v)
  \/ \E c \in Chan : Close(c)

Spec == Init /\ [][Next]_vars
=============================================================================
