----------------------------- MODULE MCPasEnds -----------------------------
(***************************************************************************)
(* What has to come to an end, each on a small instance of its own: waits  *)
(* and joins (PasTask), leaving a block (PasUnwind) and a child process    *)
(* with a deadline (PasProcess).  A behaviour is one of the three; the     *)
(* others' variables stay as they began.                                   *)
(***************************************************************************)
EXTENDS UnwindState, ProcessState

CONSTANTS program, taskA, taskB, nobody, stream1, empty

VARIABLES which,
  refs, claimed, done, freed, joins, tasks, cap, next, names, spawner, taskPc, taskTarget,
  after, over, stopped                                                     \* PasTask

OneStream == {stream1}
TwoTasks == {taskA, taskB}

Waits == INSTANCE PasTask WITH
  Task <- TwoTasks, Main <- program, NoTask <- nobody, FirstCap <- 1, MaxInt <- 4,
  pc <- taskPc, target <- taskTarget
Block == INSTANCE PasUnwind
Child == INSTANCE PasProcess

waitVars == <<refs, claimed, done, freed, joins, tasks, cap, next, names, spawner, taskPc,
              taskTarget, after, over, stopped>>
childVars == <<argv, runPc, proc, fds, shielded, held, pipe, child, answer>>

Topics == {"waits", "blocks", "child"}
MCInit ==
  /\ which \in Topics /\ Block!Init /\ Waits!Init /\ Child!Init
  /\ which # "blocks" => declares[1] = {}

OfWaits ==
  which = "waits" /\ Waits!Next /\ UNCHANGED <<which, blockVars, childVars>>
OfBlocks ==
  which = "blocks" /\ Block!CarefulNext /\ UNCHANGED <<which, waitVars, childVars>>
OfChild ==
  which = "child" /\ Child!QuietNext /\ UNCHANGED <<which, blockVars, waitVars>>

all == <<which, blockVars, waitVars, childVars>>
MCNext == OfWaits \/ OfBlocks \/ OfChild

\* The fairness each of the modules assumes, of the one that runs.
Fairness ==
  /\ \A a \in Waits!Activation :
       /\ WF_waitVars(which = "waits" /\ Waits!Continue(a))
       /\ SF_waitVars(which = "waits" /\ Waits!JoinTasks(a, TRUE))
  /\ WF_blockVars(which = "blocks" /\ Block!Unwinding)
  /\ WF_childVars(which = "child" /\ Child!Running)
  /\ SF_childVars(which = "child" /\ Child!Expire)
  /\ WF_childVars(which = "child" /\ Child!Tick)
  /\ WF_childVars(which = "child" /\ Child!Die)

MCSpec == MCInit /\ [][MCNext]_all /\ Fairness

\* Every wait and every join of a block's tasks returns.
WaitEnds == Waits!WaitEnds

\* Every way out of a block, once begun, comes to its end.
UnwindingEnds == Block!UnwindingEnds

\* A run with a deadline comes to its end, whoever keeps the pipe open.
DeadlineEnds == Child!DeadlineEnds
=============================================================================
