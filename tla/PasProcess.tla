----------------------------- MODULE PasProcess -----------------------------
(***************************************************************************)
(* A program run from an argument vector (runtime/pasrt_posix.c): the      *)
(* vector and its deadline, starting the child with its output on a pipe,  *)
(* reading what it writes and waiting for it, as the loop of PasProcess    *)
(* (Spawn) does, for one vector and one child at a time.                   *)
(*                                                                         *)
(* The operating system is part of the model: a pipe holds a few bytes and *)
(* is at its end when nobody has its writing end; the child may write, let *)
(* go of its output, leave a descendant behind that holds it, and end;     *)
(* another task of the program may start a child of its own at any time.   *)
(* The parent does not ignore SIGCHLD, so waitpid has a child to wait for. *)
(***************************************************************************)
EXTENDS ProcessState

vars == <<argv, runPc, proc, fds, shielded, held, pipe, child, answer>>

Outside == {"child", "descendant", "other"}
Nothing == "nothing"
NoVector == [words |-> 0, slots |-> 0, deadline |-> FALSE]
NoProc == [allocated |-> FALSE, captured |-> FALSE, killed |-> FALSE, deadline |-> FALSE,
           late |-> FALSE, refused |-> FALSE, unread |-> 0]

Init ==
  /\ argv = NoVector /\ runPc = "idle" /\ proc = NoProc
  /\ fds = {} /\ shielded = FALSE /\ held = {} /\ pipe = 0
  /\ child = "none" /\ answer = Nothing

os == <<shielded, held, pipe, child>>

-----------------------------------------------------------------------------
(* The vector.                                                             *)

pasx_argv_new ==
  /\ runPc = "idle" /\ argv.slots = 0
  /\ argv' = [words |-> 0, slots |-> FirstSlots, deadline |-> FALSE]
  /\ UNCHANGED <<runPc, proc, fds, os, answer>>

\* A word, and the NULL after it; the array doubles when both do not fit.
pasx_argv_push ==
  /\ runPc = "idle" /\ argv.slots > 0 /\ argv.words < ArgvMax
  /\ argv' = [argv EXCEPT !.words = @ + 1,
                          !.slots = IF argv.words + 2 > @ THEN 2 * @ ELSE @]
  /\ UNCHANGED <<runPc, proc, fds, os, answer>>

pasx_argv_drop(keep) ==
  /\ runPc = "idle" /\ argv.words > keep
  /\ argv' = [argv EXCEPT !.words = keep]
  /\ UNCHANGED <<runPc, proc, fds, os, answer>>

pasx_argv_deadline(some) ==
  /\ runPc = "idle" /\ argv.slots > 0 /\ argv.deadline # some
  /\ argv' = [argv EXCEPT !.deadline = some]
  /\ UNCHANGED <<runPc, proc, fds, os, answer>>

pasx_argv_free ==
  /\ runPc = "idle" /\ argv.slots > 0
  /\ argv' = NoVector
  /\ UNCHANGED <<runPc, proc, fds, os, answer>>

-----------------------------------------------------------------------------
(* pasx_exec_start.                                                        *)

\* The process record, and a pipe when the output is captured; the deadline
\* counts from here.
Begin(capture) ==
  /\ runPc = "idle" /\ argv.words > 0
  /\ proc' = [NoProc EXCEPT !.allocated = TRUE, !.captured = capture, !.deadline = argv.deadline]
  /\ fds' = IF capture THEN {"read", "write"} ELSE {}
  /\ runPc' = IF capture THEN "pipe" ELSE "spawn"
  /\ shielded' = FALSE /\ held' = {} /\ pipe' = 0 /\ child' = "none" /\ answer' = Nothing
  /\ UNCHANGED argv

\* No word to run, and no memory or no pipe.
Refuse ==
  /\ runPc = "idle" /\ argv.slots > 0
  /\ answer' = IF argv.words = 0 THEN "errAbsent" ELSE "errIO"
  /\ UNCHANGED <<argv, runPc, proc, fds, os>>

pasx_cloexec ==
  /\ runPc = "pipe" /\ shielded' = TRUE /\ runPc' = "spawn"
  /\ UNCHANGED <<argv, proc, fds, held, pipe, child, answer>>

\* A file action that could not be recorded, or a program that could not be
\* started: both ends of the pipe are closed again.
MutantFailStart ==
  /\ runPc = "spawn"
  /\ fds' = fds \ {"write"} /\ proc' = NoProc /\ answer' = "errIO" /\ runPc' = "idle"
  /\ UNCHANGED <<argv, os>>
FailStart ==
  /\ runPc = "spawn"
  /\ fds' = {} /\ proc' = NoProc /\ answer' = "errIO" /\ runPc' = "idle"
  /\ UNCHANGED <<argv, os>>

\* posix_spawnp: the child has the writing end as its output, and this side
\* lets go of it.
Spawn ==
  /\ runPc = "spawn"
  /\ child' = "running"
  /\ held' = IF proc.captured THEN held \cup {"child"} ELSE held
  /\ fds' = fds \ {"write"}
  /\ runPc' = IF proc.captured THEN "read" ELSE "close"
  /\ UNCHANGED <<argv, proc, shielded, pipe, answer>>

-----------------------------------------------------------------------------
(* Reading: pasx_exec_getc, until it answers -1.                           *)

\* A character of the buffer.
TakeBuffered ==
  /\ runPc = "read" /\ proc.unread > 0
  /\ proc' = [proc EXCEPT !.unread = @ - 1]
  /\ UNCHANGED <<argv, runPc, fds, os, answer>>

\* poll finds bytes, or that nobody can write any more.
Writers == held \cup (fds \cap {"write"})
MutantReady == pipe > 0 \/ "child" \notin held
Ready == pipe > 0 \/ Writers = {}

\* What has arrived is read, its first byte answered; at the end the answer
\* is -1.
Read ==
  LET n == IF pipe < BufSize THEN pipe ELSE BufSize
  IN /\ runPc = "read" /\ proc.unread = 0 /\ "read" \in fds /\ Ready
     /\ pipe' = pipe - n
     /\ proc' = [proc EXCEPT !.unread = IF n > 0 THEN n - 1 ELSE 0]
     /\ runPc' = IF n > 0 THEN "read" ELSE "close"
     /\ UNCHANGED <<argv, fds, shielded, held, child, answer>>

\* poll or read is refused, which answers -1 as the end does.
ReadRefused ==
  /\ runPc = "read" /\ proc.unread = 0 /\ "read" \in fds
  /\ proc' = [proc EXCEPT !.refused = TRUE] /\ runPc' = "close"
  /\ UNCHANGED <<argv, fds, os, answer>>

\* pasx_exec_expire: one signal, and no more reading.
Expired(then) ==
  /\ proc' = [proc EXCEPT !.killed = TRUE]
  /\ fds' = {} /\ runPc' = then

\* Leaves the pipe open and waits for its end.
MutantExpire ==
  /\ runPc = "read" /\ proc.unread = 0 /\ "read" \in fds /\ ~Ready
  /\ proc.deadline /\ proc.late /\ ~proc.killed
  /\ proc' = [proc EXCEPT !.killed = TRUE]
  /\ UNCHANGED <<argv, runPc, fds, os, answer>>

\* Nothing to read, and no time left to wait for it.
Expire ==
  /\ runPc = "read" /\ proc.unread = 0 /\ "read" \in fds /\ ~Ready
  /\ proc.deadline /\ proc.late
  /\ Expired("close")
  /\ UNCHANGED <<argv, os, answer>>

-----------------------------------------------------------------------------
(* The wait: pasx_exec_close.                                              *)

pasx_exec_close ==
  /\ runPc = "close" /\ runPc' = "wait" /\ fds' = {}
  /\ UNCHANGED <<argv, proc, os, answer>>

Ended == child \in {"signalled"} \cup Codes

\* waitpid has the child's status: its exit code, if this side did not kill it.
Reap ==
  /\ runPc = "wait" /\ Ended
  /\ answer' = IF child \in Codes /\ ~proc.killed THEN child ELSE "errIO"
  /\ child' = "reaped" /\ proc' = NoProc /\ runPc' = "idle"
  /\ UNCHANGED <<argv, fds, shielded, held, pipe>>

\* WNOHANG has nothing and the time is up.  The look and the signal are two
\* steps, between which the child may end.
LookInVain ==
  /\ runPc = "wait" /\ proc.deadline /\ ~proc.killed /\ ~Ended /\ proc.late
  /\ runPc' = "kill"
  /\ UNCHANGED <<argv, proc, fds, os, answer>>
KillLate ==
  /\ runPc = "kill" /\ Expired("wait")
  /\ UNCHANGED <<argv, os, answer>>

-----------------------------------------------------------------------------
(* What goes on outside.                                                   *)

ofParent == <<argv, runPc, fds, answer>>

\* Time passes: the deadline is over.
Tick ==
  /\ proc.deadline /\ ~proc.late
  /\ proc' = [proc EXCEPT !.late = TRUE]
  /\ UNCHANGED <<ofParent, os>>

\* A process that holds the pipe writes to it while there is room, if somebody
\* can still read.
Write(w) ==
  /\ w \in held /\ pipe < PipeSize /\ "read" \in fds
  /\ pipe' = pipe + 1
  /\ UNCHANGED <<ofParent, proc, shielded, held, child>>

\* The child starts a process of its own with its output.
Fork ==
  /\ child = "running" /\ "child" \in held /\ "descendant" \notin held
  /\ held' = held \cup {"descendant"}
  /\ UNCHANGED <<ofParent, proc, shielded, pipe, child>>

LetGo(w) ==
  /\ w \in held /\ held' = held \ {w}
  /\ UNCHANGED <<ofParent, proc, shielded, pipe, child>>

\* It ends of itself, or by the signal.
Exit(code) ==
  /\ child = "running" /\ child' = code
  /\ held' = held \ {"child"}
  /\ UNCHANGED <<ofParent, proc, shielded, pipe>>
Die ==
  /\ child = "running" /\ proc.killed /\ child' = "signalled"
  /\ held' = held \ {"child"}
  /\ UNCHANGED <<ofParent, proc, shielded, pipe>>

\* Another task's child is started while the new pipe is not yet marked, and
\* has both its ends.
OtherSpawns ==
  /\ runPc = "pipe" /\ ~shielded /\ "other" \notin held
  /\ held' = held \cup {"other"}
  /\ UNCHANGED <<ofParent, proc, shielded, pipe, child>>

-----------------------------------------------------------------------------
Vector ==
  \/ pasx_argv_new \/ pasx_argv_push \/ pasx_argv_free
  \/ \E keep \in 0 .. ArgvMax : pasx_argv_drop(keep)
  \/ \E some \in BOOLEAN : pasx_argv_deadline(some)

\* What a run does once it has begun.
Running ==
  \/ pasx_cloexec \/ FailStart \/ Spawn
  \/ TakeBuffered \/ Read \/ Expire
  \/ pasx_exec_close \/ Reap \/ LookInVain \/ KillLate

Quietly ==
  \/ Tick \/ Fork \/ Die \/ OtherSpawns
  \/ \E w \in Outside : LetGo(w)
  \/ \E code \in Codes : Exit(code)

Next ==
  \/ Vector \/ Running \/ Quietly
  \/ Refuse \/ ReadRefused \/ \E capture \in BOOLEAN : Begin(capture)
  \/ \E w \in Outside : Write(w)

\* Whoever writes stops when the time is up.
QuietNext ==
  \/ Vector \/ Running \/ Quietly
  \/ Refuse \/ ReadRefused \/ \E capture \in BOOLEAN : Begin(capture)
  \/ ~proc.late /\ \E w \in Outside : Write(w)

\* The run goes on, finding the pipe empty if it is so again and again, time
\* passes and a signal kills; nobody has to end, to let go or to be quiet of
\* itself.
Fairness == WF_vars(Running) /\ SF_vars(Expire) /\ WF_vars(Tick) /\ WF_vars(Die)

Spec == Init /\ [][Next]_vars /\ Fairness
QuietSpec == Init /\ [][QuietNext]_vars /\ Fairness

-----------------------------------------------------------------------------
(* Properties.                                                             *)

\* A run with a deadline comes to its end, whatever holds the pipe and whether
\* or not the child ends by itself ("When the time is up the child is killed
\* and the run answers").
DeadlineEnds == proc.deadline ~> runPc = "idle"
=============================================================================
