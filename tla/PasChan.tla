------------------------------- MODULE PasChan -------------------------------
(***************************************************************************)
(* The channels of the task runtime (runtime/pasrt_task.c): bounded ring   *)
(* buffers guarded by one mutex and two condition variables each, closed   *)
(* and reference counted separately, and the select statement, which polls *)
(* several channels under one process-wide "activity" mutex.               *)
(*                                                                         *)
(* A thread is the main activation or a task.  A critical section that     *)
(* takes no other lock is one step; the two mutexes are nevertheless       *)
(* explicit, because a selector holds the activity mutex across the locks  *)
(* it takes on its channels.  The compiler's part (which thread may name   *)
(* which channel, and which closer a variable was given) is Spawn, Release *)
(* and Leave.                                                              *)
(***************************************************************************)
EXTENDS Integers, FiniteSets, Sequences

CONSTANTS
  Thread,     \* the activations of the program
  Main,       \* the activation whose block declares the channels
  Chan,       \* the channels
  Value,      \* what a channel may carry
  Cap,        \* the capacity of each channel, a part of its type
  Selects,    \* the select statements of the program
  TurnMod,    \* the modulus of pas_select_turn: 2^32 in the C code
  MaxCalls,   \* how many channel statements and spurious wakeups each has
  NoThread,   \* the owner of a mutex nobody holds
  Junk        \* what malloc left in a ring slot nothing was put in

Kind == {"receive", "send"}
Arm == [kind : Kind, chan : Chan, val : Value]
Wait == {"forever", "deadline", "negative"}

NoResult == <<"none">>
NoSelect == [arms |-> <<>>, wait |-> "forever"]

ASSUME PasChanAssumption ==
  /\ IsFiniteSet(Thread)
  /\ Main \in Thread /\ NoThread \notin Thread /\ Junk \notin Value
  /\ Chan # {} /\ Value # {}
  /\ Cap \in [Chan -> Nat \ {0}]
  /\ TurnMod \in Nat \ {0} /\ MaxCalls \in Nat
  /\ \A s \in Selects : /\ s.arms \in Seq(Arm) /\ s.arms # <<>>
                        /\ s.wait \in Wait

VARIABLES
  buf, head, tail, n,     \* struct pas_chan: the ring
  closed, refs, freed,    \* ... its close flag, its count, and free(c)
  m, activity,            \* who holds each channel's mutex, and pas_activity
  pc,                     \* where each activation is
  asleep,                 \* the threads inside pthread_cond_wait, not yet woken
  cur, val,               \* the channel and the value of a statement under way
  sel, k, start,          \* pas_select's arguments, its loop index, its `turn`
  turn,                   \* pas_select_turn, one per thread
  after,                  \* what follows pas_activity_signal
  held,                   \* the channels an activation's variables hold
  spawner, ending,        \* whose block joins a task; who is in its epilogue
  calls, result,          \* statements executed; the outcome of the last one
  stopped                 \* pas_runtime_error has ended the program

ring == <<buf, head, tail, n>>
life == <<refs, freed, held>>
args == <<cur, val, sel>>
poll == <<k, start, turn>>
tree == <<spawner, ending>>
vars == <<ring, closed, life, m, activity, pc, asleep, args, poll, after,
          tree, calls, result, stopped>>

Location == {"new", "idle", "sendBody", "sendWait", "receiveBody",
             "receiveWait", "signal", "selectTry", "selectBody", "selectWait",
             "selectFired", "shut", "closer", "drop", "leaving", "done"}

Init ==
  /\ buf = [c \in Chan |-> [i \in 0 .. Cap[c] - 1 |-> Junk]]
  /\ head = [c \in Chan |-> 0]
  /\ tail = [c \in Chan |-> 0]
  /\ n = [c \in Chan |-> 0]
  /\ closed = [c \in Chan |-> FALSE]
  /\ refs = [c \in Chan |-> 1]
  /\ freed = [c \in Chan |-> FALSE]
  /\ m = [c \in Chan |-> NoThread]
  /\ activity = NoThread
  /\ pc = [t \in Thread |-> IF t = Main THEN "idle" ELSE "new"]
  /\ asleep = {}
  /\ cur \in [Thread -> {CHOOSE c \in Chan : TRUE}]
  /\ val \in [Thread -> {CHOOSE v \in Value : TRUE}]
  /\ sel = [t \in Thread |-> NoSelect]
  /\ k = [t \in Thread |-> 0]
  /\ start = [t \in Thread |-> 0]
  /\ turn = [t \in Thread |-> 0]
  /\ after = [t \in Thread |-> "idle"]
  /\ held = [t \in Thread |-> IF t = Main THEN Chan ELSE {}]
  /\ spawner = [t \in Thread |-> Main]
  /\ ending = {}
  /\ calls = [t \in Thread |-> 0]
  /\ result = [t \in Thread |-> NoResult]
  /\ stopped = FALSE

-----------------------------------------------------------------------------
(* What the critical sections do.                                          *)

At(t, ls) == ~stopped /\ pc[t] \in ls
Goto(t, l) == pc' = [pc EXCEPT ![t] = l]
Answer(t, r) == result' = [result EXCEPT ![t] = r]
Lock(t, c) == m[c] = NoThread /\ m' = [m EXCEPT ![c] = t]
MutantUnlock(c) == UNCHANGED m
Unlock(c) == m' = [m EXCEPT ![c] = NoThread]

\* The threads blocked on c's condition variable `notempty` or `notfull`.
WaitingAt(l, c) == {t \in asleep : pc[t] = l /\ cur[t] = c}
Selecting == {t \in asleep : pc[t] = "selectWait"}

\* Mutants are operators named Mutant...: each is the definition that follows
\* it with one plausible slip, and is used by nothing else.

\* pthread_cond_signal: one waiter, when there is one.
SignalOne(l, c) ==
  \/ WaitingAt(l, c) = {} /\ UNCHANGED asleep
  \/ \E w \in WaitingAt(l, c) : asleep' = asleep \ {w}

\* The index after i in c's ring.
MutantAdvance(i, c) == i + 1
Advance(i, c) == (i + 1) % Cap[c]

\* The ring write of pas_chan_send and of a send arm of pas_select_try.
Put(c, v) ==
  /\ buf' = [buf EXCEPT ![c][tail[c]] = v]
  /\ tail' = [tail EXCEPT ![c] = Advance(@, c)]
  /\ n' = [n EXCEPT ![c] = @ + 1]
  /\ UNCHANGED head
  /\ SignalOne("receiveWait", c)

\* The ring read of pas_chan_receive and of a receive arm.
MutantTake(c) ==
  /\ n' = [n EXCEPT ![c] = @ - 1]
  /\ UNCHANGED <<buf, head, tail>>
  /\ SignalOne("sendWait", c)
Take(c) ==
  /\ head' = [head EXCEPT ![c] = Advance(@, c)]
  /\ n' = [n EXCEPT ![c] = @ - 1]
  /\ UNCHANGED <<buf, tail>>
  /\ SignalOne("sendWait", c)

\* closed = 1 and the two broadcasts, as pas_chan_close and pas_chan_shut
\* both do them.
MutantMarkClosed(c) ==
  /\ closed' = [closed EXCEPT ![c] = TRUE]
  /\ asleep' = asleep \ WaitingAt("receiveWait", c)
MarkClosed(c) ==
  /\ closed' = [closed EXCEPT ![c] = TRUE]
  /\ asleep' = asleep \ (WaitingAt("receiveWait", c) \cup WaitingAt("sendWait", c))

\* Nothing is left to receive: the close may be reported.
Drained(c) == n[c] = 0

\* pas_runtime_error: the message, and the end of the program.
RuntimeError(t, why) ==
  /\ stopped' = TRUE
  /\ Answer(t, why)
  /\ UNCHANGED <<ring, closed, life, activity, pc, asleep, args, poll, after, tree>>

\* The beginning of a channel statement of the program.
Call(t) ==
  /\ At(t, {"idle"}) /\ calls[t] < MaxCalls
  /\ calls' = [calls EXCEPT ![t] = @ + 1]

-----------------------------------------------------------------------------
(* pas_chan_send.                                                          *)

Send(t, c, v) ==
  /\ Call(t)
  /\ \/ /\ c \notin held[t]
        /\ RuntimeError(t, <<"empty variable", c>>) /\ UNCHANGED m
     \/ /\ c \in held[t] /\ Lock(t, c)
        /\ cur' = [cur EXCEPT ![t] = c] /\ val' = [val EXCEPT ![t] = v]
        /\ Goto(t, "sendBody") /\ Answer(t, NoResult)
        /\ UNCHANGED <<ring, closed, life, activity, asleep, sel, poll, after,
                       tree, stopped>>

SendBody(t) ==
  LET c == cur[t] IN
  /\ At(t, {"sendBody"}) /\ Unlock(c) /\ UNCHANGED calls
  /\ \/ /\ n[c] = Cap[c] /\ ~closed[c]
        /\ asleep' = asleep \cup {t} /\ Goto(t, "sendWait")
        /\ UNCHANGED <<ring, closed, life, activity, args, poll, after, tree,
                       result, stopped>>
     \/ /\ closed[c]
        /\ RuntimeError(t, <<"send on closed", c>>)
     \/ /\ n[c] # Cap[c] /\ ~closed[c]
        /\ Put(c, val[t])
        /\ Goto(t, "signal") /\ after' = [after EXCEPT ![t] = "idle"]
        /\ Answer(t, <<"sent", c, val[t]>>)
        /\ UNCHANGED <<closed, life, activity, args, poll, tree, stopped>>

-----------------------------------------------------------------------------
(* pas_chan_receive.                                                       *)

Receive(t, c) ==
  /\ Call(t)
  /\ \/ /\ c \notin held[t]
        /\ RuntimeError(t, <<"empty variable", c>>) /\ UNCHANGED m
     \/ /\ c \in held[t] /\ Lock(t, c)
        /\ cur' = [cur EXCEPT ![t] = c]
        /\ Goto(t, "receiveBody") /\ Answer(t, NoResult)
        /\ UNCHANGED <<ring, closed, life, activity, asleep, val, sel, poll,
                       after, tree, stopped>>

ReceiveBody(t) ==
  LET c == cur[t] IN
  /\ At(t, {"receiveBody"}) /\ Unlock(c)
  /\ UNCHANGED <<closed, life, activity, args, poll, tree, calls, stopped>>
  /\ \/ /\ Drained(c) /\ ~closed[c]
        /\ asleep' = asleep \cup {t} /\ Goto(t, "receiveWait")
        /\ UNCHANGED <<ring, after, result>>
     \/ /\ Drained(c) /\ closed[c]
        /\ Goto(t, "idle") /\ Answer(t, <<"closed", c>>)
        /\ UNCHANGED <<ring, asleep, after>>
     \/ /\ ~Drained(c)
        /\ Answer(t, <<"got", c, buf[c][head[c]]>>)
        /\ Take(c)
        /\ Goto(t, "signal") /\ after' = [after EXCEPT ![t] = "idle"]

\* pthread_cond_wait returns: the thread has been woken and has the mutex again.
Resume(t) ==
  LET c == cur[t] IN
  /\ At(t, {"sendWait", "receiveWait"}) /\ t \notin asleep
  /\ Lock(t, c)
  /\ Goto(t, IF pc[t] = "sendWait" THEN "sendBody" ELSE "receiveBody")
  /\ UNCHANGED <<ring, closed, life, activity, asleep, args, poll, after, tree,
                 calls, result, stopped>>

\* POSIX lets a condition wait return with nothing signalled.  It counts
\* against MaxCalls, so that a behaviour has finitely many of them.
SpuriousWakeup(t) ==
  /\ ~stopped /\ t \in asleep /\ asleep' = asleep \ {t}
  /\ calls[t] < MaxCalls /\ calls' = [calls EXCEPT ![t] = @ + 1]
  /\ UNCHANGED <<ring, closed, life, m, activity, pc, args, poll, after, tree,
                 result, stopped>>

\* pas_activity_signal, called with no channel mutex held.
MutantActivitySignal(t) ==
  /\ At(t, {"signal"})
  /\ asleep' = IF activity = NoThread THEN asleep \ Selecting ELSE asleep
  /\ Goto(t, after[t])
  /\ UNCHANGED <<ring, closed, life, m, activity, args, poll, after, tree,
                 calls, result, stopped>>
ActivitySignal(t) ==
  /\ At(t, {"signal"}) /\ activity = NoThread
  /\ asleep' = asleep \ Selecting
  /\ Goto(t, after[t])
  /\ UNCHANGED <<ring, closed, life, m, activity, args, poll, after, tree,
                 calls, result, stopped>>

-----------------------------------------------------------------------------
(* pas_select.                                                             *)

ArmCount(t) == Len(sel[t].arms)

\* i = (turn + k) % n in unsigned arithmetic, arms counted from 1 here.
ArmIndex(t) == (((start[t] + k[t]) % TurnMod) % ArmCount(t)) + 1
ArmAt(t) == sel[t].arms[ArmIndex(t)]

\* The head of the loop: the activity mutex is held, a round of polling begins.
BeginRound(t) ==
  /\ activity = NoThread /\ activity' = t
  /\ start' = [start EXCEPT ![t] = turn[t]]
  /\ turn' = [turn EXCEPT ![t] = (@ + 1) % TurnMod]
  /\ k' = [k EXCEPT ![t] = 0]
  /\ Goto(t, "selectTry")

\* The compiler lends every arm's channel before the call, so an empty
\* variable is the error of pas_handle_lend, whichever arm would be first.
Select(t, s) ==
  LET chans == {s.arms[i].chan : i \in DOMAIN s.arms} IN
  /\ Call(t)
  /\ \/ \E c \in chans \ held[t] : RuntimeError(t, <<"empty variable", c>>)
     \/ /\ chans \subseteq held[t] /\ s.wait = "negative"
        /\ RuntimeError(t, <<"negative time">>)
     \/ /\ chans \subseteq held[t] /\ s.wait # "negative"
        /\ BeginRound(t)
        /\ sel' = [sel EXCEPT ![t] = s]
        /\ Answer(t, NoResult)
        /\ UNCHANGED <<ring, closed, life, asleep, cur, val, after, tree, stopped>>
  /\ UNCHANGED m

\* pas_select_try up to the lock of the arm's channel.
SelectTry(t) ==
  LET c == ArmAt(t).chan IN
  /\ At(t, {"selectTry"}) /\ Lock(t, c)
  /\ cur' = [cur EXCEPT ![t] = c]
  /\ Goto(t, "selectBody")
  /\ UNCHANGED <<ring, closed, life, activity, asleep, val, sel, poll, after,
                 tree, calls, result, stopped>>

\* The arm cannot proceed: the next arm, or the wait when all were looked at.
NotReady(t) ==
  /\ k' = [k EXCEPT ![t] = @ + 1]
  /\ IF k[t] + 1 < ArmCount(t)
       THEN Goto(t, "selectTry") /\ UNCHANGED <<activity, asleep>>
       ELSE /\ Goto(t, "selectWait")
            /\ activity' = NoThread
            /\ asleep' = asleep \cup {t}
  /\ UNCHANGED <<ring, start, turn, result>>

\* The rest of pas_select_try, under the channel's mutex.
SelectBody(t) ==
  LET arm == ArmAt(t)
      c == cur[t] IN
  /\ At(t, {"selectBody"}) /\ Unlock(c) /\ UNCHANGED calls
  /\ \/ /\ arm.kind = "send" /\ closed[c]
        /\ RuntimeError(t, <<"send on closed", c>>)
     \/ /\ ~(arm.kind = "send" /\ closed[c])
        /\ UNCHANGED <<closed, life, args, after, tree, stopped>>
        /\ \/ /\ arm.kind = "receive" /\ ~Drained(c)
              /\ Answer(t, <<"got", c, buf[c][head[c]]>>)
              /\ Take(c) /\ Goto(t, "selectFired") /\ UNCHANGED <<activity, poll>>
           \/ /\ arm.kind = "receive" /\ Drained(c) /\ closed[c]
              /\ Answer(t, <<"closed", c>>) /\ Goto(t, "selectFired")
              /\ UNCHANGED <<ring, asleep, activity, poll>>
           \/ /\ arm.kind = "send" /\ n[c] < Cap[c]
              /\ Put(c, arm.val) /\ Answer(t, <<"sent", c, arm.val>>)
              /\ Goto(t, "selectFired") /\ UNCHANGED <<activity, poll>>
           \/ /\ \/ arm.kind = "receive" /\ Drained(c) /\ ~closed[c]
                 \/ arm.kind = "send" /\ n[c] = Cap[c]
              /\ NotReady(t)

\* The selector has changed a channel itself, so it broadcasts before it
\* gives the activity mutex back.
SelectFired(t) ==
  /\ At(t, {"selectFired"})
  /\ asleep' = asleep \ Selecting
  /\ activity' = NoThread
  /\ Goto(t, "idle")
  /\ UNCHANGED <<ring, closed, life, m, args, poll, after, tree, calls, result,
                 stopped>>

SelectAgain(t) ==
  /\ At(t, {"selectWait"}) /\ t \notin asleep
  /\ BeginRound(t)
  /\ UNCHANGED <<ring, closed, life, m, asleep, args, after, tree, calls,
                 result, stopped>>

\* pthread_cond_timedwait answers ETIMEDOUT, with the mutex taken again.
MutantSelectTimeout(t) ==
  /\ At(t, {"selectWait"}) /\ sel[t].wait = "deadline" /\ t \notin asleep
  /\ activity = NoThread
  /\ Goto(t, "idle") /\ Answer(t, <<"gave up">>)
  /\ UNCHANGED <<ring, closed, life, m, activity, asleep, args, poll, after,
                 tree, calls, stopped>>
SelectTimeout(t) ==
  /\ At(t, {"selectWait"}) /\ sel[t].wait = "deadline"
  /\ activity = NoThread
  /\ asleep' = asleep \ {t}
  /\ Goto(t, "idle") /\ Answer(t, <<"gave up">>)
  /\ UNCHANGED <<ring, closed, life, m, activity, args, poll, after, tree,
                 calls, stopped>>

-----------------------------------------------------------------------------
(* The life of a channel: lent to a task, closed, dropped, freed.          *)

\* pas_chan_ref on every channel of S.
MutantReferenced(S) == refs
Referenced(S) == [c \in Chan |-> IF c \in S THEN refs[c] + 1 ELSE refs[c]]

\* A spawn statement: pas_chan_ref for every channel the task is lent, each
\* under its mutex, and only then the thread.
Spawn(t, u, S) ==
  /\ At(t, {"idle"}) /\ pc[u] = "new" /\ S \subseteq held[t]
  /\ \A c \in S : m[c] = NoThread
  /\ refs' = Referenced(S)
  /\ held' = [held EXCEPT ![u] = S]
  /\ spawner' = [spawner EXCEPT ![u] = t]
  /\ Goto(u, "idle")
  /\ UNCHANGED <<ring, closed, freed, m, activity, asleep, args, poll, after,
                 ending, calls, result, stopped>>

\* A release the program wrote: pas_chan_shut, then the variable's closer.
Release(t, c) ==
  /\ Call(t) /\ c \in held[t]
  /\ cur' = [cur EXCEPT ![t] = c]
  /\ Goto(t, "shut") /\ Answer(t, NoResult)
  /\ UNCHANGED <<ring, closed, life, m, activity, asleep, val, sel, poll, after,
                 tree, stopped>>

\* pas_chan_close belongs to the owner's variable, pas_chan_unref to a task's.
CloserOf(t) == IF t = Main THEN "closer" ELSE "drop"

\* pas_chan_shut, and the first half of pas_chan_close.
Shut(t) ==
  /\ At(t, {"shut", "closer"}) /\ m[cur[t]] = NoThread
  /\ MarkClosed(cur[t])
  /\ Goto(t, "signal")
  /\ after' = [after EXCEPT ![t] = IF pc[t] = "shut" THEN CloserOf(t) ELSE "drop"]
  /\ UNCHANGED <<ring, life, m, activity, args, poll, tree, calls, result, stopped>>

\* The reference pas_chan_drop is dropping is the last.
MutantLastRef(c) == refs[c] = 0
LastRef(c) == refs[c] = 1

\* pas_chan_drop.
Drop(t) ==
  LET c == cur[t] IN
  /\ At(t, {"drop"}) /\ m[c] = NoThread
  /\ refs' = [refs EXCEPT ![c] = @ - 1]
  /\ freed' = [freed EXCEPT ![c] = @ \/ LastRef(c)]
  /\ held' = [held EXCEPT ![t] = @ \ {c}]
  /\ Goto(t, IF t \in ending THEN "leaving" ELSE "idle")
  /\ UNCHANGED <<ring, closed, m, activity, asleep, args, poll, after, tree,
                 calls, result, stopped>>

\* The end of a block: its tasks are joined before any variable is released.
Leave(t) ==
  /\ At(t, {"idle"})
  /\ \A u \in Thread \ {t} : spawner[u] = t => pc[u] \in {"new", "done"}
  /\ Goto(t, "leaving") /\ ending' = ending \cup {t}
  /\ UNCHANGED <<ring, closed, life, m, activity, asleep, args, poll, after,
                 spawner, calls, result, stopped>>

ReleaseVariable(t) ==
  /\ At(t, {"leaving"})
  /\ \/ \E c \in held[t] : /\ cur' = [cur EXCEPT ![t] = c]
                           /\ Goto(t, CloserOf(t))
     \/ held[t] = {} /\ Goto(t, "done") /\ UNCHANGED cur
  /\ UNCHANGED <<ring, closed, life, m, activity, asleep, val, sel, poll, after,
                 tree, calls, result, stopped>>

-----------------------------------------------------------------------------
\* The steps a thread takes of itself once a statement has begun.
Continue(t) ==
  \/ SendBody(t) \/ ReceiveBody(t) \/ Resume(t) \/ ActivitySignal(t)
  \/ SelectTry(t) \/ SelectBody(t) \/ SelectFired(t) \/ SelectAgain(t)
  \/ Shut(t) \/ Drop(t) \/ ReleaseVariable(t)

\* The statements of the program, and the two things the system may do.
Begin(t) ==
  \/ \E c \in Chan, v \in Value : Send(t, c, v)
  \/ \E c \in Chan : Receive(t, c) \/ Release(t, c)
  \/ \E s \in Selects : Select(t, s)
  \/ \E u \in Thread, S \in SUBSET Chan : Spawn(t, u, S)
  \/ Leave(t)
  \/ SpuriousWakeup(t)
  \/ SelectTimeout(t)

Next == \E t \in Thread : Continue(t) \/ Begin(t)

Spec == Init /\ [][Next]_vars

\* Every thread goes on running, and time passes: a deadline comes.  Nothing
\* obliges the program to begin a statement, nor a wait to end by itself.
FairSpec ==
  /\ Spec
  /\ \A t \in Thread : /\ WF_vars(Continue(t))
                       /\ WF_vars(SelectTimeout(t))

-----------------------------------------------------------------------------
(* Properties.                                                             *)

\* Every variable keeps its type; in particular the ring indices stay inside
\* the allocation that pas_chan_new made.
RingType ==
  /\ DOMAIN buf = Chan
  /\ \A c \in Chan : buf[c] \in [0 .. Cap[c] - 1 -> Value \cup {Junk}]
  /\ head \in [Chan -> Nat] /\ \A c \in Chan : head[c] < Cap[c]
  /\ tail \in [Chan -> Nat] /\ \A c \in Chan : tail[c] < Cap[c]
  /\ n \in [Chan -> Nat] /\ \A c \in Chan : n[c] <= Cap[c]
ChanType ==
  /\ closed \in [Chan -> BOOLEAN] /\ freed \in [Chan -> BOOLEAN]
  /\ refs \in [Chan -> Int]
  /\ m \in [Chan -> Thread \cup {NoThread}]
  /\ activity \in Thread \cup {NoThread}
ThreadType ==
  /\ pc \in [Thread -> Location] /\ after \in [Thread -> {"idle", "closer", "drop"}]
  /\ asleep \subseteq Thread /\ ending \subseteq Thread
  /\ cur \in [Thread -> Chan] /\ val \in [Thread -> Value]
  /\ held \in [Thread -> SUBSET Chan] /\ spawner \in [Thread -> Thread]
  /\ calls \in [Thread -> Nat] /\ stopped \in BOOLEAN
PollType ==
  /\ sel \in [Thread -> Selects \cup {NoSelect}]
  /\ k \in [Thread -> Nat]
  /\ start \in [Thread -> 0 .. TurnMod - 1]
  /\ turn \in [Thread -> 0 .. TurnMod - 1]
TypeOK == RingType /\ ChanType /\ ThreadType /\ PollType

\* The lock order: a thread inside a channel's critical section waits for
\* nothing, and only a selector holds the activity mutex, so "holding a
\* channel and wanting activity" has no first half (pasrt_task.c, the comment
\* above pas_activity).
Critical == {"sendBody", "receiveBody", "selectBody"}
Polling == {"selectTry", "selectBody", "selectFired"}
LockOrder ==
  ~stopped =>
  /\ \A t \in Thread, c \in Chan :
       m[c] = t <=> pc[t] \in Critical /\ cur[t] = c
  /\ \A t \in Thread : activity = t <=> pc[t] \in Polling

\* The count is the number of variables that hold the channel, and the
\* storage is freed when there is none, by the last of them.
RefsCountHolders ==
  \A c \in Chan : /\ refs[c] = Cardinality({t \in Thread : c \in held[t]})
                  /\ freed[c] <=> refs[c] = 0

\* The channels the next step of t may dereference.
Uses(t) ==
  CASE pc[t] \in {"sendBody", "sendWait", "receiveBody", "receiveWait", "shut",
                  "closer", "drop"} -> {cur[t]}
    [] pc[t] = "signal" /\ after[t] # "idle" -> {cur[t]}
    [] pc[t] \in {"selectTry", "selectBody", "selectWait"} ->
         {sel[t].arms[i].chan : i \in DOMAIN sel[t].arms}
    [] OTHER -> {}

\* No thread is on its way to a channel whose storage has been freed.
NoUseAfterFree == \A t \in Thread : \A c \in Uses(t) : ~freed[c]

\* 6.9.3.15.1: when a channel-arm can proceed (a send on a closed channel
\* proceeds to its error).
Ready(arm) ==
  \/ closed[arm.chan]
  \/ arm.kind = "receive" /\ n[arm.chan] > 0
  \/ arm.kind = "send" /\ n[arm.chan] < Cap[arm.chan]
AnyReady(t) == \E i \in DOMAIN sel[t].arms : Ready(sel[t].arms[i])

\* No wakeup is lost by a selector: while it sleeps with an arm that could
\* proceed, somebody is about to broadcast the activity condition.
NoLostSelectWakeup ==
  \A t \in Selecting : AnyReady(t) =>
    \E u \in Thread : pc[u] \in {"signal", "selectFired"}

\* No wakeup is lost by a receiver or a sender: pthread_cond_signal wakes one
\* waiter per element, so while somebody sleeps on notempty (notfull) there
\* are at least as many woken receivers (senders) as elements (free slots);
\* and nobody sleeps on a closed channel.
Woken(l, c) == {t \in Thread \ asleep : pc[t] = l /\ cur[t] = c}
InBody(l, c) == {t \in Thread : pc[t] = l /\ cur[t] = c}
NoLostWakeup ==
  \A c \in Chan :
    /\ WaitingAt("receiveWait", c) # {} =>
         n[c] <= Cardinality(Woken("receiveWait", c) \cup InBody("receiveBody", c))
    /\ WaitingAt("sendWait", c) # {} =>
         Cap[c] - n[c] <= Cardinality(Woken("sendWait", c) \cup InBody("sendBody", c))
    /\ closed[c] => WaitingAt("receiveWait", c) \cup WaitingAt("sendWait", c) = {}

\* The ring, read from head, is the queue of the abstract channel.
queueOf == [c \in Chan |-> [i \in 1 .. n[c] |-> buf[c][(head[c] + i - 1) % Cap[c]]]]
Abstract == INSTANCE ChannelSpec WITH queue <- queueOf

\* The locks, condition variables and indices implement the abstract channel:
\* first in first out, drained before the close is reported, no value lost,
\* duplicated or read from a slot nothing was put in.
ImplementsChannel == Abstract!Spec

\* A close releases everybody who is blocked on the channel.
CloseReleases ==
  \A t \in Thread, c \in Chan :
    closed[c] /\ cur[t] = c /\ pc[t] \in {"sendWait", "receiveWait"}
      ~> pc[t] = "idle" \/ stopped

\* A selector does not sleep on while one of its arms can proceed.
SelectorServed ==
  \A t \in Thread :
    t \in Selecting /\ AnyReady(t) ~> t \notin asleep \/ ~AnyReady(t) \/ stopped

\* A select with a deadline or an otherwise part comes to an end.
BoundedSelectEnds ==
  \A t \in Thread :
    pc[t] = "selectTry" /\ sel[t].wait = "deadline" ~> pc[t] = "idle" \/ stopped
=============================================================================
