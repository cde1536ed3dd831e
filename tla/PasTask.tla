------------------------------- MODULE PasTask -------------------------------
(***************************************************************************)
(* Tasks (runtime/pasrt_task.c): the record that says whether an           *)
(* activation has been joined, the set each block keeps of the activations *)
(* it commenced, `wait`, and the join at the end of the block.             *)
(*                                                                         *)
(* An activation spawns tasks, named or not; a name (a task-variable) may  *)
(* be waited for, released, overwritten, or moved into another task.  A    *)
(* record is therefore reached from two places at once, the block's set    *)
(* and the variable, and pthread_join may be called only once for it.      *)
(***************************************************************************)
EXTENDS Integers, Sequences, FiniteSets, SequencesExt

CONSTANTS
  Task,       \* the activations that spawn statements may commence
  Main,       \* the program's own activation
  FirstCap,   \* what a task set grows to first: 8 in the C code
  MaxInt,     \* INT_MAX, the bound of the doubling
  NoTask

Activation == Task \cup {Main}

ASSUME PasTaskAssumption ==
  /\ Main \notin Task /\ NoTask \notin Activation
  /\ FirstCap \in Nat \ {0} /\ MaxInt \in Nat \ {0} /\ FirstCap <= MaxInt

VARIABLES
  refs, claimed, done, freed,   \* struct pas_task
  joins,                        \* how often pthread_join was called for it
  tasks, cap,                   \* struct pas_taskset of each activation's block
  next,                         \* the index pas_tasks_join is at
  names,                        \* the activations its task-variables hold
  spawner,                      \* the activation whose block commenced it
  pc, target,                   \* where it is; the record it is joining
  after,                        \* what follows pas_task_join
  over,                         \* the block is over: what follows the join
  stopped                       \* pas_runtime_error has ended the program

record == <<refs, claimed, done, freed, joins>>
sets == <<tasks, cap>>
vars == <<record, sets, next, names, spawner, pc, target, after, over, stopped>>

\* "joinWait" is inside pthread_join, "doneWait" inside pthread_cond_wait.
Location == {"unborn", "idle", "join", "joinWait", "doneWait", "dropSet",
             "releasing", "exited"}

Init ==
  /\ refs = [u \in Task |-> 0]
  /\ claimed = [u \in Task |-> FALSE]
  /\ done = [u \in Task |-> FALSE]
  /\ freed = [u \in Task |-> FALSE]
  /\ joins = [u \in Task |-> 0]
  /\ tasks = [a \in Activation |-> <<>>]
  /\ cap = [a \in Activation |-> 0]
  /\ next = [a \in Activation |-> 0]
  /\ names = [a \in Activation |-> {}]
  /\ spawner = [u \in Task |-> NoTask]
  /\ pc = [a \in Activation |-> IF a = Main THEN "idle" ELSE "unborn"]
  /\ target = [a \in Activation |-> NoTask]
  /\ after = [a \in Activation |-> "idle"]
  /\ over = [a \in Activation |-> FALSE]
  /\ stopped = FALSE

-----------------------------------------------------------------------------
At(a, l) == ~stopped /\ pc[a] = l
Goto(a, l) == pc' = [pc EXCEPT ![a] = l]

\* pas_task_drop_ref on every record of the set S.
MutantDropped(S) ==
  /\ refs' = [u \in Task |-> IF u \in S /\ refs[u] > 1 THEN refs[u] - 1 ELSE refs[u]]
  /\ freed' = [u \in Task |-> freed[u] \/ (u \in S /\ refs[u] <= 2)]
Dropped(S) ==
  /\ refs' = [u \in Task |-> IF u \in S THEN refs[u] - 1 ELSE refs[u]]
  /\ freed' = [u \in Task |-> freed[u] \/ (u \in S /\ refs[u] = 1)]

\* pas_tasks_start's growth of the array.
Full(a) == Len(tasks[a]) = cap[a]
Grown(a) == IF cap[a] = 0 THEN FirstCap ELSE cap[a] * 2
TooMany(a) == Full(a) /\ cap[a] > MaxInt \div 2

\* The references a new record starts with: the set's, and the variable's.
StartRefs(named) == IF named THEN 2 ELSE 1

\* The actuals are evaluated, and moved, before the variable is given the new
\* activation: a task is never handed its own name.
MutantMovedIn(M, u, named) == IF named THEN M \cup {u} ELSE M
MovedIn(M, u, named) == M

\* spawn U(take(x), ...), or spawn v := U(...): the record with the set's
\* reference, and a second for the variable; the variable's old value is
\* released when the new one is put there.  M is what is moved into the task.
Spawn(a, u, named, old, M) ==
  /\ At(a, "idle") /\ pc[u] = "unborn" /\ M \subseteq names[a]
  /\ ~TooMany(a)
  /\ cap' = [cap EXCEPT ![a] = IF Full(a) THEN Grown(a) ELSE @]
  /\ tasks' = [tasks EXCEPT ![a] = Append(@, u)]
  /\ pc' = [pc EXCEPT ![u] = "idle"]
  /\ \/ /\ ~named /\ old = NoTask
        /\ names' = [names EXCEPT ![a] = @ \ M,
                                ![u] = MovedIn(M, u, named)]
        /\ refs' = [refs EXCEPT ![u] = StartRefs(FALSE)]
        /\ UNCHANGED freed
     \/ /\ named /\ old \in (names[a] \ M) \cup {NoTask}
        /\ names' = [names EXCEPT ![a] = (@ \ (M \cup {old})) \cup {u},
                                ![u] = MovedIn(M, u, named)]
        /\ refs' = [x \in Task |-> CASE x = u -> StartRefs(TRUE)
                                     [] x = old -> refs[x] - 1
                                     [] OTHER -> refs[x]]
        /\ freed' = [x \in Task |-> freed[x] \/ (x = old /\ refs[x] = 1)]
  /\ spawner' = [spawner EXCEPT ![u] = a]
  /\ UNCHANGED <<claimed, done, joins, next, target, after, over, stopped>>

\* The set cannot grow, memory is exhausted, or pthread_create fails.
SpawnFails(a) ==
  /\ At(a, "idle") /\ \E u \in Task : pc[u] = "unborn"
  /\ stopped' = TRUE
  /\ UNCHANGED <<record, sets, next, names, spawner, pc, target, after, over>>

\* wait(t) on a task-variable.
Wait(a, u) ==
  /\ At(a, "idle") /\ u \in names[a]
  /\ target' = [target EXCEPT ![a] = u] /\ after' = [after EXCEPT ![a] = "idle"]
  /\ Goto(a, "join")
  /\ UNCHANGED <<record, sets, next, names, over, spawner, stopped>>

\* wait on an empty variable is pas_handle_lend's error.
WaitEmpty(a) ==
  /\ At(a, "idle") /\ names[a] = {}
  /\ stopped' = TRUE
  /\ UNCHANGED <<record, sets, next, names, spawner, pc, target, after, over>>

\* release(t), t := nil: pas_task_drop, which does not join.
Release(a, u) ==
  /\ At(a, "idle") /\ u \in names[a]
  /\ names' = [names EXCEPT ![a] = @ \ {u}]
  /\ Dropped({u})
  /\ UNCHANGED <<claimed, done, joins, sets, next, pc, target, after, over, spawner, stopped>>

-----------------------------------------------------------------------------
(* pas_task_join.                                                          *)

\* The first to arrive claims the join under the record's mutex and lets go
\* of the mutex before it calls pthread_join.
Join(a) ==
  LET u == target[a] IN
  /\ At(a, "join")
  /\ \/ /\ ~claimed[u]
        /\ claimed' = [claimed EXCEPT ![u] = TRUE]
        /\ joins' = [joins EXCEPT ![u] = @ + 1]
        /\ Goto(a, "joinWait")
     \/ /\ claimed[u] /\ ~done[u]
        /\ Goto(a, "doneWait") /\ UNCHANGED <<claimed, joins>>
     \/ /\ claimed[u] /\ done[u]
        /\ Goto(a, after[a]) /\ UNCHANGED <<claimed, joins>>
  /\ UNCHANGED <<refs, done, freed, sets, next, names, target, after, over, spawner, stopped>>

\* pthread_join has returned, the task's thread having ended: done, broadcast.
MutantJoined(a) ==
  /\ At(a, "joinWait") /\ pc[target[a]] = "exited"
  /\ Goto(a, after[a])
  /\ UNCHANGED <<record, sets, next, names, target, after, over, spawner, stopped>>
Joined(a) ==
  LET u == target[a] IN
  /\ At(a, "joinWait") /\ pc[u] = "exited"
  /\ done' = [done EXCEPT ![u] = TRUE]
  /\ Goto(a, after[a])
  /\ UNCHANGED <<refs, claimed, freed, joins, sets, next, names, target, after,
                 over, spawner, stopped>>

\* A later arrival: while (!t->done) pthread_cond_wait.
MutantSeenDone(a) ==
  /\ At(a, "doneWait")
  /\ Goto(a, after[a])
  /\ UNCHANGED <<record, sets, next, names, target, after, over, spawner, stopped>>
SeenDone(a) ==
  /\ At(a, "doneWait") /\ done[target[a]]
  /\ Goto(a, after[a])
  /\ UNCHANGED <<record, sets, next, names, target, after, over, spawner, stopped>>

-----------------------------------------------------------------------------
(* pas_tasks_join, and the end of a block.                                 *)

\* The next task of the set, or the end of the loop: the array is freed, the
\* set is empty again, and the block goes on to what stood after the join.
JoinNext(a, i) ==
  /\ next' = [next EXCEPT ![a] = i]
  /\ IF i <= Len(tasks[a])
       THEN /\ target' = [target EXCEPT ![a] = tasks[a][i]]
            /\ after' = [after EXCEPT ![a] = "dropSet"]
            /\ Goto(a, "join") /\ UNCHANGED sets
       ELSE /\ tasks' = [tasks EXCEPT ![a] = <<>>] /\ cap' = [cap EXCEPT ![a] = 0]
            /\ Goto(a, IF over[a] THEN "releasing" ELSE "idle")
            /\ UNCHANGED <<target, after>>

\* The join before the block's deferred statements, and the join of the
\* epilogue, after which the block's variables are released.
MutantJoinTasks(a, ending) ==
  /\ At(a, "idle") /\ ending
  /\ over' = [over EXCEPT ![a] = TRUE]
  /\ Goto(a, "releasing")
  /\ UNCHANGED <<record, sets, next, names, target, after, spawner, stopped>>
JoinTasks(a, ending) ==
  /\ At(a, "idle")
  /\ over' = [over EXCEPT ![a] = ending]
  /\ next' = [next EXCEPT ![a] = 1]
  /\ IF tasks[a] # <<>>
       THEN /\ target' = [target EXCEPT ![a] = tasks[a][1]]
            /\ after' = [after EXCEPT ![a] = "dropSet"]
            /\ Goto(a, "join")
       ELSE /\ ending /\ Goto(a, "releasing") /\ UNCHANGED <<target, after>>
  /\ UNCHANGED <<record, sets, names, spawner, stopped>>

\* pas_task_drop_ref of the set's own reference, then the next of the loop.
DropSet(a) ==
  /\ At(a, "dropSet")
  /\ Dropped({target[a]})
  /\ JoinNext(a, next[a] + 1)
  /\ UNCHANGED <<claimed, done, joins, names, over, spawner, stopped>>

\* The epilogue releases the task-variables, and the thread ends.
EndBlock(a) ==
  /\ At(a, "releasing")
  /\ Dropped(names[a])
  /\ names' = [names EXCEPT ![a] = {}]
  /\ Goto(a, "exited")
  /\ UNCHANGED <<claimed, done, joins, sets, next, target, after, over, spawner, stopped>>

\* A non-local goto out of the block: pas_jump_go releases the handles of the
\* abandoned activation, its task-variables among them, and cuts the stack
\* back.  Nothing on this path calls pas_tasks_join.
JumpOut(a) ==
  /\ At(a, "idle") /\ a = Main
  /\ Dropped(names[a])
  /\ names' = [names EXCEPT ![a] = {}]
  /\ Goto(a, "exited")
  /\ UNCHANGED <<claimed, done, joins, sets, next, target, after, over, spawner, stopped>>

-----------------------------------------------------------------------------
\* What a running activation goes on to do; a body that has nothing more to
\* do reaches its end, JoinTasks(a, TRUE).
Continue(a) ==
  \/ JoinTasks(a, TRUE) \/ Join(a) \/ Joined(a) \/ SeenDone(a) \/ DropSet(a)
  \/ EndBlock(a)

Choose(a) ==
  \/ \E u \in Task, M \in SUBSET Task : \E old \in Task \cup {NoTask} :
       Spawn(a, u, TRUE, old, M) \/ Spawn(a, u, FALSE, old, M)
  \/ \E u \in Task : Wait(a, u) \/ Release(a, u)
  \/ SpawnFails(a) \/ WaitEmpty(a) \/ JoinTasks(a, FALSE)

Next == \E a \in Activation : Continue(a) \/ Choose(a)

Spec == Init /\ [][Next]_vars

\* A thread that can go on does; and, as a hypothesis on the program, every
\* body that is entered comes to its end.
FairSpec ==
  /\ Spec
  /\ \A a \in Activation : WF_vars(Continue(a)) /\ SF_vars(JoinTasks(a, TRUE))

\* With the non-local goto out of the program's own block.
JumpSpec == Init /\ [][Next \/ JumpOut(Main)]_vars

-----------------------------------------------------------------------------
(* Properties.                                                             *)

Born(u) == pc[u] # "unborn"
Waiting(a) == pc[a] \in {"join", "joinWait", "doneWait"}

\* The records a block's set still holds a reference to: the loop of
\* pas_tasks_join has dropped those before the index it is at.
InSet(a) ==
  LET first == IF Waiting(a) \/ pc[a] = "dropSet"
                 THEN IF after[a] = "dropSet" THEN next[a] ELSE 1 ELSE 1
  IN {tasks[a][i] : i \in first .. Len(tasks[a])}

\* Every variable has its type.
TypeOK ==
  /\ refs \in [Task -> Nat] /\ joins \in [Task -> Nat]
  /\ claimed \in [Task -> BOOLEAN] /\ done \in [Task -> BOOLEAN]
  /\ freed \in [Task -> BOOLEAN]
  /\ tasks \in [Activation -> Seq(Task)]
  /\ cap \in [Activation -> Nat]
  /\ next \in [Activation -> Nat]
  /\ names \in [Activation -> SUBSET Task]
  /\ spawner \in [Task -> Activation \cup {NoTask}]
  /\ pc \in [Activation -> Location]
  /\ target \in [Activation -> Task \cup {NoTask}]
  /\ after \in [Activation -> {"idle", "dropSet"}]
  /\ over \in [Activation -> BOOLEAN] /\ stopped \in BOOLEAN

\* A record's count is the number of sets and task-variables that name it, so
\* releasing, overwriting or moving a variable never loses or doubles one.
RefsCountHolders ==
  \A u \in Task : Born(u) =>
    refs[u] = Cardinality({a \in Activation : u \in InSet(a)})
              + Cardinality({a \in Activation : u \in names[a]})

\* A block's set has never more entries than its array has room for, and the
\* doubling of its capacity never passes INT_MAX (pas_tasks_start).
SetFits == \A a \in Activation : Len(tasks[a]) <= cap[a] /\ cap[a] <= MaxInt

\* No record is reached after pas_task_drop_ref freed it: not the one being
\* joined, not one a variable names, not one the set will still join.  The
\* count is the number of those, the set has room for its own, and however
\* many wait statements and joins reach one record, pthread_join is called
\* once for it (the claim in pas_task_join).
NoRecordUseAfterFree ==
  /\ RefsCountHolders /\ SetFits
  /\ \A u \in Task : joins[u] <= 1
  /\ \A a \in Activation :
       /\ Waiting(a) \/ pc[a] = "dropSet" => ~freed[target[a]]
       /\ \A u \in names[a] \cup InSet(a) : ~freed[u]

\* Once a block releases its own variables, and after it has ended, every
\* activation it commenced is over: no task outlives the frame its static
\* link points into, whoever joined it.
BlockOutlivesItsTasks ==
  \A u \in Task :
    Born(u) /\ pc[spawner[u]] \in {"releasing", "exited"} => pc[u] = "exited"

\* A wait, and a join, returns only when the activation it names is complete,
\* also when another thread claimed the join first.
WaitsForTheEnd ==
  [][\A a \in Activation :
       Waiting(a) /\ pc'[a] \notin {"join", "joinWait", "doneWait"}
         => pc[target[a]] = "exited"]_vars

\* No activations wait in a ring, each for another of them: names are moved
\* only into younger activations, so the waits cannot close one.
NoWaitCycle ==
  \A S \in SUBSET Activation : S # {} =>
    \E a \in S : stopped \/ ~Waiting(a) \/ target[a] \notin S

\* Every wait and every join ends, or the program has stopped.
WaitEnds == \A a \in Activation : Waiting(a) ~> (~Waiting(a) \/ stopped)
=============================================================================
