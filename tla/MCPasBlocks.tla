---------------------------- MODULE MCPasBlocks ----------------------------
(***************************************************************************)
(* What is left in order when a block or the process ends, each on a small *)
(* instance: the tasks a block commenced (PasTask: three that may spawn    *)
(* each other, a set that grows from one entry to two and no further), the *)
(* files, handles and deferred statements it declared (PasUnwind, beside   *)
(* one heap variable), and the terminal and the measures of a process of   *)
(* four threads (PasExit).  A behaviour is one of the three; the others'   *)
(* variables stay as they began.                                           *)
(***************************************************************************)
EXTENDS PasTask, UnwindState, ExitState, TLC

CONSTANTS program, taskA, taskB, taskC, nobody, cellA, stream1, stream2, empty

VARIABLE which

ThreeTasks == {taskA, taskB, taskC}
OneCell == {cellA}
TwoStreams == {stream1, stream2}
BothSymmetric == Permutations(ThreeTasks) \cup Permutations(TwoStreams)

Block == INSTANCE PasUnwind
Process == INSTANCE PasExit

exitVars == <<threadPc, arming, flags, raced, leaving, handlers, written, alive, tty, saved,
              savedFd, termArmed, spoilt>>

MCInit ==
  /\ which \in {"tasks", "block", "exit"} /\ Init /\ Block!Init /\ Process!Init
  /\ which # "block" => declares[1] = {}

MCNext ==
  \/ which = "tasks" /\ Next /\ UNCHANGED <<which, blockVars, exitVars>>
  \/ which = "block" /\ Block!CarefulNext /\ UNCHANGED <<which, vars, exitVars>>
  \/ which = "exit" /\ Process!Next /\ UNCHANGED <<which, vars, blockVars>>

MCSpec == MCInit /\ [][MCNext]_<<which, vars, blockVars, exitVars>>
=============================================================================
