---------------------------- MODULE PasTaskProofs ----------------------------
(***************************************************************************)
(* Proofs about PasTask, for every set of activations, every first         *)
(* capacity of a task set and every bound of its doubling: no record is    *)
(* used after it was freed, pthread_join is called once for each, a block  *)
(* outlives the tasks it commenced, and a wait returns only when the task  *)
(* has ended.                                                              *)
(***************************************************************************)
EXTENDS PasTask, TLAPS, FiniteSetTheorems, WellFoundedInduction

\* The loop of pas_tasks_join has a set's entry in hand.
InLoop(a) == (Waiting(a) \/ pc[a] = "dropSet") /\ after[a] = "dropSet"

\* What an activation is joining: an entry of its set, or a name it holds.
TargetInv ==
  \A a \in Activation :
    /\ pc[a] = "dropSet" => after[a] = "dropSet"
    /\ InLoop(a) => /\ next[a] \in 1 .. Len(tasks[a])
                    /\ target[a] = tasks[a][next[a]]
    /\ Waiting(a) /\ after[a] = "idle" => target[a] \in names[a]

\* The entries of a set are the block's own, one each; a block that has not
\* begun or has passed its join has none.
SetInv ==
  \A a \in Activation :
    /\ \A i \in 1 .. Len(tasks[a]) : Born(tasks[a][i]) /\ spawner[tasks[a][i]] = a
    /\ \A i, j \in 1 .. Len(tasks[a]) : tasks[a][i] = tasks[a][j] => i = j
    /\ pc[a] \in {"unborn", "releasing", "exited"} => tasks[a] = <<>>

\* A name has one holder, which has begun and has not ended.
NameInv ==
  /\ \A a \in Activation : \A u \in names[a] : Born(u)
  /\ \A a, b \in Activation : names[a] \cap names[b] # {} => a = b
  /\ \A a \in Activation : pc[a] \in {"unborn", "exited"} => names[a] = {}

\* A record is marked done only when its task has ended, and an activation
\* leaves the set of its block only then.
EndInv ==
  /\ \A u \in Task : done[u] => pc[u] = "exited"
  /\ \A a \in Activation : pc[a] = "dropSet" => pc[target[a]] = "exited"
  /\ \A u \in Task : Born(u) =>
       /\ spawner[u] \in Activation
       /\ \A a \in Activation : spawner[u] = a => pc[u] = "exited" \/ u \in InSet(a)

\* The count of a record, and when it is freed.
Kept(u) == \E a \in Activation : u \in InSet(a)
Named(u) == \E a \in Activation : u \in names[a]
Count(u) == (IF Kept(u) THEN 1 ELSE 0) + (IF Named(u) THEN 1 ELSE 0)
RefInv ==
  \A u \in Task : /\ refs[u] = Count(u)
                  /\ freed[u] <=> Born(u) /\ refs[u] = 0

\* The claim of a join is made once.
ClaimInv == \A u \in Task : joins[u] <= 1 /\ (claimed[u] \/ joins[u] = 0)

TaskInv ==
  /\ TypeOK /\ SetFits /\ TargetInv /\ SetInv /\ NameInv /\ EndInv /\ RefInv /\ ClaimInv

-----------------------------------------------------------------------------
(* Types.                                                                  *)

LEMMA InitTaskInv == Init => TaskInv
<1> SUFFICES ASSUME Init PROVE TaskInv
  OBVIOUS
<1> USE DEF Init
<1>1. TypeOK
  <2>1. tasks \in [Activation -> Seq(Task)] /\ pc \in [Activation -> Location]
    BY DEF Location
  <2> QED BY <2>1 DEF TypeOK
<1>2. \A a \in Activation : tasks[a] = <<>> /\ Len(tasks[a]) = 0 /\ InSet(a) = {}
  BY DEF InSet
<1>3. SetFits
  BY <1>2, PasTaskAssumption DEF SetFits
<1>4. TargetInv
  BY DEF TargetInv, InLoop, Waiting
<1>5. SetInv
  BY <1>2 DEF SetInv
<1>6. NameInv
  BY DEF NameInv
<1>7. EndInv
  BY PasTaskAssumption DEF EndInv, Born, Activation
<1>8. RefInv
  <2>1. \A u \in Task : ~Kept(u) /\ ~Named(u) /\ ~Born(u)
    BY <1>2, PasTaskAssumption DEF Kept, Named, Born, Activation
  <2> QED BY <2>1 DEF RefInv, Count
<1>9. ClaimInv
  BY DEF ClaimInv
<1> QED BY <1>1, <1>3, <1>4, <1>5, <1>6, <1>7, <1>8, <1>9 DEF TaskInv

\* A record that a set or a name holds has a reference to give up.
LEMMA HeldHasRef ==
  ASSUME TaskInv, NEW u \in Task, Kept(u) \/ Named(u)
  PROVE  refs[u] \in Nat \ {0} /\ ~freed[u]
BY DEF TaskInv, RefInv, Count

\* Dropping references that are held keeps the types.
LEMMA DroppedType ==
  ASSUME TaskInv, NEW S \in SUBSET Task, \A u \in S : Kept(u) \/ Named(u), Dropped(S)
  PROVE  refs' \in [Task -> Nat] /\ freed' \in [Task -> BOOLEAN]
<1>1. \A u \in S : refs[u] - 1 \in Nat
  BY HeldHasRef
<1>2. refs \in [Task -> Nat] /\ freed \in [Task -> BOOLEAN]
  BY DEF TaskInv, TypeOK
<1> QED BY <1>1, <1>2 DEF Dropped

\* What is being joined is a task that has begun, and is held.
LEMMA TargetHeld ==
  ASSUME TaskInv, NEW a \in Activation, Waiting(a) \/ pc[a] = "dropSet"
  PROVE  /\ target[a] \in Task /\ Born(target[a])
         /\ InLoop(a) => target[a] \in InSet(a)
         /\ target[a] \in InSet(a) \/ target[a] \in names[a]
<1> USE DEF TaskInv
<1>1. after[a] = "idle" \/ after[a] = "dropSet"
  BY DEF TypeOK
<1>2. CASE after[a] = "idle"
  <2>1. Waiting(a) /\ target[a] \in names[a]
    BY <1>2 DEF TargetInv
  <2> QED BY <2>1, <1>2 DEF NameInv, TypeOK, InLoop
<1>3. CASE after[a] = "dropSet"
  <2>1. InLoop(a) /\ next[a] \in 1 .. Len(tasks[a]) /\ target[a] = tasks[a][next[a]]
    BY <1>3 DEF InLoop, TargetInv
  <2>2. target[a] \in Task
    BY <2>1 DEF TypeOK
  <2>3. Born(target[a])
    BY <2>1 DEF SetInv
  <2>4. target[a] \in InSet(a)
    <3>1. next[a] \in next[a] .. Len(tasks[a])
      BY <2>1 DEF TypeOK
    <3> QED BY <2>1, <3>1, <1>3 DEF InSet
  <2> QED BY <2>1, <2>2, <2>3, <2>4
<1> QED BY <1>1, <1>2, <1>3
-----------------------------------------------------------------------------
(* Steps that hold and give up no reference.                               *)

First(a) == IF InLoop(a) THEN next[a] ELSE 1

LEMMA InSetStays ==
  ASSUME NEW b \in Activation, tasks'[b] = tasks[b], First(b)' = First(b)
  PROVE  InSet(b)' = InSet(b)
BY DEF InSet, First, InLoop, Waiting

\* A step of one activation to another place, with every set and name left
\* as it is.
Quiet(a, l) ==
  /\ pc' = [pc EXCEPT ![a] = l]
  /\ pc[a] \notin {"unborn", "releasing", "exited"}
  /\ l \in Location \ {"unborn", "exited"}
  /\ l = "releasing" => tasks[a] = <<>>
  /\ UNCHANGED <<refs, freed, sets, names, spawner>>
  /\ \A b \in Activation : First(b)' = First(b)

LEMMA QuietKeeps ==
  ASSUME TaskInv, NEW a \in Activation, NEW l, Quiet(a, l)
  PROVE  /\ SetFits' /\ SetInv' /\ NameInv' /\ RefInv'
         /\ \A b \in Activation : InSet(b)' = InSet(b)
         /\ \A b \in Activation : Born(b)' = Born(b) /\ (pc'[b] = "exited" <=> pc[b] = "exited")
<1> USE DEF TaskInv
<1>1. UNCHANGED <<refs, freed, tasks, cap, names, spawner>>
  BY DEF Quiet, sets
<1>2. \A b \in Activation : InSet(b)' = InSet(b)
  <2> TAKE b \in Activation
  <2>1. First(b)' = First(b) /\ tasks'[b] = tasks[b]
    BY <1>1 DEF Quiet
  <2> QED BY <2>1, InSetStays
<1>3. \A b \in Activation : pc[b] \in Location /\ pc'[b] = IF b = a THEN l ELSE pc[b]
  BY DEF TypeOK, Quiet
<1>4. \A b \in Activation : Born(b)' = Born(b) /\ (pc'[b] = "exited" <=> pc[b] = "exited")
  BY <1>3 DEF Born, Quiet
<1>5. \A u \in Task : u \in Activation
  BY DEF Activation
<1>6. SetFits'
  BY <1>1 DEF SetFits
<1>7. SetInv'
  <2> SUFFICES ASSUME NEW b \in Activation
               PROVE  /\ \A i \in 1 .. Len(tasks[b]) :
                           pc'[tasks[b][i]] # "unborn" /\ spawner[tasks[b][i]] = b
                      /\ \A i, j \in 1 .. Len(tasks[b]) : tasks[b][i] = tasks[b][j] => i = j
                      /\ pc'[b] \in {"unborn", "releasing", "exited"} => tasks[b] = <<>>
    BY <1>1 DEF SetInv, Born
  <2>1. \A i \in 1 .. Len(tasks[b]) : tasks[b][i] \in Task
    BY DEF TypeOK
  <2>2. pc'[b] \in {"unborn", "releasing", "exited"} => tasks[b] = <<>>
    BY <1>3 DEF Quiet, SetInv
  <2> QED BY <2>1, <2>2, <1>4, <1>5 DEF SetInv, Born
<1>8. NameInv'
  <2>1. \A b \in Activation : \A u \in names[b] : Born(u)'
    BY <1>4, <1>5 DEF NameInv, TypeOK
  <2>2. \A b \in Activation : pc'[b] \in {"unborn", "exited"} => names[b] = {}
    BY <1>3 DEF NameInv, Quiet
  <2> QED BY <1>1, <2>1, <2>2 DEF NameInv
<1>9. RefInv'
  <2> SUFFICES ASSUME NEW u \in Task
               PROVE  refs[u] = Count(u)' /\ (freed[u] <=> Born(u)' /\ refs[u] = 0)
    BY <1>1 DEF RefInv
  <2>1. Count(u)' = Count(u)
    BY <1>1, <1>2 DEF Count, Kept, Named
  <2> QED BY <2>1, <1>4, <1>5 DEF RefInv
<1> QED BY <1>2, <1>4, <1>6, <1>7, <1>8, <1>9

\* What is left to show of EndInv for such a step.
LEMMA QuietEnds ==
  ASSUME TaskInv, NEW a \in Activation, NEW l, Quiet(a, l),
         \A u \in Task : done'[u] => done[u] \/ pc[u] = "exited",
         \A b \in Activation : b # a => target'[b] = target[b],
         l = "dropSet" => pc[target'[a]] = "exited" /\ target'[a] \in Task
  PROVE  EndInv'
<1> USE DEF TaskInv
<1>1. \A b \in Activation : InSet(b)' = InSet(b)
  BY QuietKeeps
<1>2. \A b \in Activation : Born(b)' = Born(b) /\ (pc'[b] = "exited" <=> pc[b] = "exited")
  BY QuietKeeps
<1>3. \A u \in Task : u \in Activation
  BY DEF Activation
<1>4. \A u \in Task : done'[u] => pc'[u] = "exited"
  BY <1>2, <1>3 DEF EndInv
<1>5. \A b \in Activation : pc'[b] = "dropSet" => pc'[target'[b]] = "exited"
  <2> SUFFICES ASSUME NEW b \in Activation, pc'[b] = "dropSet"
               PROVE  pc'[target'[b]] = "exited"
    OBVIOUS
  <2>1. CASE b = a
    BY <2>1, <1>2, <1>3 DEF Quiet, TypeOK
  <2>2. CASE b # a
    <3>1. pc[b] = "dropSet" /\ target'[b] = target[b]
      BY <2>2 DEF Quiet, TypeOK
    <3>2. target[b] \in Task
      BY <3>1, TargetHeld
    <3> QED BY <3>1, <3>2, <1>2, <1>3 DEF EndInv
  <2> QED BY <2>1, <2>2
<1>6. \A u \in Task : Born(u)' =>
        /\ spawner'[u] \in Activation
        /\ \A b \in Activation : spawner'[u] = b => pc'[u] = "exited" \/ u \in InSet(b)'
  BY <1>1, <1>2, <1>3 DEF EndInv, Quiet
<1> QED BY <1>4, <1>5, <1>6 DEF EndInv
\* And of TargetInv: the others' places are as they were.
LEMMA QuietTargets ==
  ASSUME TaskInv, NEW a \in Activation, NEW l, Quiet(a, l),
         \A b \in Activation :
           b # a => target'[b] = target[b] /\ after'[b] = after[b] /\ next'[b] = next[b],
         l = "dropSet" => after'[a] = "dropSet",
         l \in {"join", "joinWait", "doneWait", "dropSet"} =>
           /\ after'[a] = "dropSet" =>
                next'[a] \in 1 .. Len(tasks[a]) /\ target'[a] = tasks[a][next'[a]]
           /\ after'[a] = "idle" => target'[a] \in names[a]
  PROVE  TargetInv'
<1> USE DEF TaskInv
<1>1. UNCHANGED <<tasks, names>> /\ \A b \in Activation : pc'[b] = IF b = a THEN l ELSE pc[b]
  BY DEF Quiet, sets, TypeOK
<1>2. ASSUME NEW b \in Activation
      PROVE  /\ pc'[b] = "dropSet" => after'[b] = "dropSet"
             /\ InLoop(b)' => next'[b] \in 1 .. Len(tasks'[b]) /\ target'[b] = tasks'[b][next'[b]]
             /\ Waiting(b)' /\ after'[b] = "idle" => target'[b] \in names'[b]
  <2>1. CASE b = a
    BY <1>1, <2>1 DEF InLoop, Waiting
  <2>2. CASE b # a
    BY <1>1, <2>2 DEF InLoop, Waiting, TargetInv
  <2> QED BY <2>1, <2>2
<1> QED BY <1>2 DEF TargetInv

LEMMA WaitKeeps ==
  ASSUME TaskInv, NEW a \in Activation, NEW u \in Task, Wait(a, u)
  PROVE  TaskInv'
<1> USE DEF TaskInv
<1>1. /\ pc[a] = "idle" /\ u \in names[a]
      /\ pc' = [pc EXCEPT ![a] = "join"]
      /\ target' = [target EXCEPT ![a] = u] /\ after' = [after EXCEPT ![a] = "idle"]
      /\ UNCHANGED <<refs, claimed, done, freed, joins, sets, next, names, over, spawner, stopped>>
  BY DEF Wait, At, Goto, record
<1>2. TypeOK'
  BY <1>1 DEF TypeOK, Location, sets
<1>3. Quiet(a, "join")
  <2>1. \A b \in Activation : First(b)' = First(b)
    BY <1>1 DEF First, InLoop, Waiting, TypeOK
  <2> QED BY <1>1, <2>1 DEF Quiet, Location
<1>4. TargetInv'
  BY <1>1, <1>3, QuietTargets DEF TypeOK
<1>5. EndInv'
  BY <1>1, <1>3, QuietEnds DEF TypeOK
<1>6. ClaimInv'
  BY <1>1 DEF ClaimInv
<1> QED BY <1>2, <1>3, <1>4, <1>5, <1>6, QuietKeeps

\* pas_task_join, and what follows it, with the record in hand.
LEMMA JoiningKeeps ==
  ASSUME TaskInv, NEW a \in Activation, Waiting(a), NEW l \in Location,
         pc' = [pc EXCEPT ![a] = l],
         l \in {"joinWait", "doneWait"} \/ (l = after[a] /\ pc[target[a]] = "exited"),
         UNCHANGED <<refs, freed, sets, next, names, target, after, over, spawner, stopped>>,
         \A u \in Task : done'[u] => done[u] \/ pc[u] = "exited",
         claimed' \in [Task -> BOOLEAN], done' \in [Task -> BOOLEAN],
         joins' \in [Task -> Nat], ClaimInv'
  PROVE  TaskInv'
<1> USE DEF TaskInv
<1>1. /\ UNCHANGED <<tasks, cap>> /\ after[a] \in {"idle", "dropSet"}
      /\ pc[a] \in {"join", "joinWait", "doneWait"} /\ target[a] \in Task
  BY TargetHeld DEF sets, TypeOK, Waiting
<1>2. TypeOK'
  BY <1>1 DEF TypeOK
<1>3. Quiet(a, l)
  <2>1. \A b \in Activation : First(b)' = First(b)
    <3> TAKE b \in Activation
    <3>1. pc'[b] = IF b = a THEN l ELSE pc[b]
      BY DEF TypeOK
    <3> QED BY <1>1, <3>1 DEF First, InLoop, Waiting
  <2> QED BY <1>1, <2>1 DEF Quiet
<1>4. TargetInv'
  <2>1. /\ InLoop(a) => next[a] \in 1 .. Len(tasks[a]) /\ target[a] = tasks[a][next[a]]
        /\ after[a] = "idle" => target[a] \in names[a]
    BY DEF TargetInv
  <2>2. l = "dropSet" => after'[a] = "dropSet"
    BY <1>1
  <2>3. after'[a] = "dropSet" => InLoop(a)
    BY DEF InLoop
  <2> QED BY <1>3, <2>1, <2>2, <2>3, QuietTargets
<1>5. EndInv'
  <2>1. l = "dropSet" => pc[target'[a]] = "exited" /\ target'[a] \in Task
    BY <1>1
  <2> QED BY <1>3, <2>1, QuietEnds
<1> QED BY <1>2, <1>3, <1>4, <1>5, QuietKeeps

LEMMA JoinKeeps == ASSUME TaskInv, NEW a \in Activation, Join(a) PROVE TaskInv'
<1> USE DEF TaskInv
<1>1. Waiting(a) /\ target[a] \in Task /\ after[a] \in {"idle", "dropSet"} /\ pc[a] = "join"
  <2>1. Waiting(a) /\ pc[a] = "join"
    BY DEF Join, At, Waiting
  <2> QED BY <2>1, TargetHeld DEF TypeOK
<1> DEFINE u == target[a]
<1>2. CASE ~claimed[u]
  <2>1. /\ claimed' = [claimed EXCEPT ![u] = TRUE] /\ joins' = [joins EXCEPT ![u] = @ + 1]
        /\ pc' = [pc EXCEPT ![a] = "joinWait"]
        /\ UNCHANGED <<refs, done, freed, sets, next, names, target, after, over, spawner, stopped>>
    BY <1>2 DEF Join, Goto
  <2>2. joins[u] = 0
    BY <1>1, <1>2 DEF ClaimInv
  <2>3. claimed' \in [Task -> BOOLEAN] /\ done' \in [Task -> BOOLEAN] /\ joins' \in [Task -> Nat]
    BY <2>1, <1>1 DEF TypeOK
  <2>4. ClaimInv'
    BY <2>1, <2>2, <1>1 DEF ClaimInv, TypeOK
  <2> QED BY <1>1, <2>1, <2>3, <2>4, JoiningKeeps DEF Location
<1>3. CASE claimed[u] /\ ~done[u]
  <2>1. /\ UNCHANGED <<claimed, joins>> /\ pc' = [pc EXCEPT ![a] = "doneWait"]
        /\ UNCHANGED <<refs, done, freed, sets, next, names, target, after, over, spawner, stopped>>
    BY <1>3 DEF Join, Goto
  <2>2. claimed' \in [Task -> BOOLEAN] /\ done' \in [Task -> BOOLEAN] /\ joins' \in [Task -> Nat]
    BY <2>1 DEF TypeOK
  <2>3. ClaimInv'
    BY <2>1 DEF ClaimInv
  <2> QED BY <1>1, <2>1, <2>2, <2>3, JoiningKeeps DEF Location
<1>4. CASE claimed[u] /\ done[u]
  <2>1. /\ UNCHANGED <<claimed, joins>> /\ pc' = [pc EXCEPT ![a] = after[a]]
        /\ UNCHANGED <<refs, done, freed, sets, next, names, target, after, over, spawner, stopped>>
    BY <1>4 DEF Join, Goto
  <2>2. claimed' \in [Task -> BOOLEAN] /\ done' \in [Task -> BOOLEAN] /\ joins' \in [Task -> Nat]
    BY <2>1 DEF TypeOK
  <2>3. ClaimInv' /\ pc[u] = "exited"
    BY <2>1, <1>1, <1>4 DEF ClaimInv, EndInv
  <2>4. after[a] \in Location
    BY <1>1 DEF Location
  <2> QED BY <1>1, <2>1, <2>2, <2>3, <2>4, JoiningKeeps
<1> QED BY <1>1, <1>2, <1>3, <1>4

LEMMA JoinedKeeps ==
  ASSUME TaskInv, NEW a \in Activation, Joined(a) \/ SeenDone(a)
  PROVE  TaskInv'
<1> USE DEF TaskInv
<1> DEFINE u == target[a]
<1>1. Waiting(a) /\ after[a] \in {"idle", "dropSet"} /\ after[a] \in Location
  BY DEF Joined, SeenDone, At, Waiting, TypeOK, Location
<1>2. u \in Task
  BY <1>1, TargetHeld
<1>3. /\ pc' = [pc EXCEPT ![a] = after[a]] /\ UNCHANGED <<claimed, joins>>
      /\ done' = done \/ done' = [done EXCEPT ![u] = TRUE]
      /\ UNCHANGED <<refs, freed, sets, next, names, target, after, over, spawner, stopped>>
  BY DEF Joined, SeenDone, Goto, record
<1>4. pc[u] = "exited"
  BY <1>2 DEF Joined, SeenDone, EndInv
<1>5. \A x \in Task : done'[x] => done[x] \/ pc[x] = "exited"
  BY <1>2, <1>3, <1>4 DEF TypeOK
<1>6. /\ ClaimInv' /\ claimed' \in [Task -> BOOLEAN] /\ done' \in [Task -> BOOLEAN]
      /\ joins' \in [Task -> Nat]
  BY <1>3 DEF ClaimInv, TypeOK
<1> QED BY <1>1, <1>3, <1>4, <1>5, <1>6, JoiningKeeps

LEMMA JoinTasksKeeps ==
  ASSUME TaskInv, NEW a \in Activation, NEW ending \in BOOLEAN, JoinTasks(a, ending)
  PROVE  TaskInv'
<1> USE DEF TaskInv
<1>1. /\ pc[a] = "idle"
      /\ over' = [over EXCEPT ![a] = ending] /\ next' = [next EXCEPT ![a] = 1]
      /\ UNCHANGED <<refs, claimed, done, freed, joins, sets, tasks, cap, names, spawner, stopped>>
  BY DEF JoinTasks, At, record, sets
<1>2. ClaimInv'
  BY <1>1 DEF ClaimInv
<1>3. CASE tasks[a] # <<>>
  <2>1. /\ target' = [target EXCEPT ![a] = tasks[a][1]]
        /\ after' = [after EXCEPT ![a] = "dropSet"] /\ pc' = [pc EXCEPT ![a] = "join"]
    BY <1>3 DEF JoinTasks, Goto
  <2>2. 1 \in 1 .. Len(tasks[a]) /\ tasks[a][1] \in Task
    BY <1>3 DEF TypeOK
  <2>3. TypeOK'
    BY <1>1, <2>1, <2>2 DEF TypeOK, Location
  <2>4. Quiet(a, "join")
    <3>1. \A b \in Activation : First(b)' = First(b)
      BY <1>1, <2>1 DEF First, InLoop, Waiting, TypeOK
    <3> QED BY <1>1, <2>1, <3>1 DEF Quiet, Location
  <2>5. TargetInv'
    <3>1. after'[a] = "dropSet" /\ next'[a] = 1 /\ target'[a] = tasks[a][1]
      BY <1>1, <2>1 DEF TypeOK
    <3> QED BY <1>1, <2>1, <2>2, <2>4, <3>1, QuietTargets
  <2>6. EndInv'
    BY <1>1, <2>1, <2>4, QuietEnds
  <2> QED BY <1>2, <2>3, <2>4, <2>5, <2>6, QuietKeeps
<1>4. CASE tasks[a] = <<>>
  <2>1. UNCHANGED <<target, after>> /\ pc' = [pc EXCEPT ![a] = "releasing"]
    BY <1>4 DEF JoinTasks, Goto
  <2>2. TypeOK'
    BY <1>1, <2>1 DEF TypeOK, Location
  <2>3. Quiet(a, "releasing")
    <3>1. \A b \in Activation : First(b)' = First(b)
      BY <1>1, <2>1 DEF First, InLoop, Waiting, TypeOK
    <3> QED BY <1>1, <1>4, <2>1, <3>1 DEF Quiet, Location
  <2>4. TargetInv'
    BY <1>1, <2>1, <2>3, QuietTargets
  <2>5. EndInv'
    BY <1>1, <2>1, <2>3, QuietEnds
  <2> QED BY <1>2, <2>2, <2>3, <2>4, <2>5, QuietKeeps
<1> QED BY <1>3, <1>4
-----------------------------------------------------------------------------
(* Steps that give up references.                                          *)

\* What a set holds is the block's own, and has begun.
LEMMA InSetOwn ==
  ASSUME TaskInv, NEW b \in Activation, NEW x \in InSet(b)
  PROVE  /\ x \in Task /\ Born(x) /\ spawner[x] = b
         /\ \E i \in 1 .. Len(tasks[b]) : i >= First(b) /\ x = tasks[b][i]
<1> USE DEF TaskInv
<1>1. First(b) \in Nat /\ First(b) >= 1 /\ Len(tasks[b]) \in Nat
  BY DEF First, TargetInv, TypeOK
<1>2. InSet(b) = {tasks[b][i] : i \in First(b) .. Len(tasks[b])}
  BY DEF InSet, First, InLoop, Waiting
<1>3. PICK i \in First(b) .. Len(tasks[b]) : x = tasks[b][i]
  BY <1>2
<1>4. i \in 1 .. Len(tasks[b]) /\ i >= First(b)
  BY <1>1
<1> QED BY <1>3, <1>4 DEF SetInv, TypeOK

\* Names of one activation are given up.
LEMMA NamesDropped ==
  ASSUME TaskInv, NEW a \in Activation, NEW S \in SUBSET names[a],
         names' = [names EXCEPT ![a] = @ \ S], Dropped(S),
         \A b \in Activation : InSet(b)' = InSet(b),
         \A x \in Task : Born(x)' = Born(x)
  PROVE  /\ RefInv'
         /\ refs' \in [Task -> Nat] /\ freed' \in [Task -> BOOLEAN]
         /\ names' \in [Activation -> SUBSET Task]
         /\ \A b, c \in Activation : names'[b] \cap names'[c] # {} => b = c
         /\ \A b \in Activation : names'[b] \subseteq names[b]
<1> USE DEF TaskInv
<1>1. S \in SUBSET Task /\ \A u \in S : Named(u)
  BY DEF TypeOK, Named
<1>2. refs' \in [Task -> Nat] /\ freed' \in [Task -> BOOLEAN]
  BY <1>1, DroppedType
<1>3. names' \in [Activation -> SUBSET Task] /\ \A b \in Activation : names'[b] \subseteq names[b]
  BY DEF TypeOK
<1>4. \A b, c \in Activation : names'[b] \cap names'[c] # {} => b = c
  BY <1>3 DEF NameInv
<1>5. ASSUME NEW u \in Task
      PROVE  refs'[u] = Count(u)' /\ (freed'[u] <=> Born(u)' /\ refs'[u] = 0)
  <2>1. Kept(u)' = Kept(u)
    BY DEF Kept
  <2>2. CASE u \in S
    <3>1. Named(u) /\ ~Named(u)'
      <4>1. \A b \in Activation : u \in names'[b] => u \in names[b] /\ b = a
        BY <1>3, <2>2 DEF NameInv
      <4>2. u \notin names'[a]
        BY <2>2 DEF TypeOK
      <4> QED BY <1>1, <2>2, <4>1, <4>2 DEF Named
    <3>2. Count(u)' = Count(u) - 1 /\ Count(u) \in Nat
      BY <2>1, <3>1 DEF Count
    <3>3. refs'[u] = refs[u] - 1 /\ (freed'[u] <=> freed[u] \/ refs[u] = 1)
      BY <2>2 DEF Dropped
    <3>4. Born(u)
      BY <2>2 DEF NameInv
    <3>5. refs[u] = Count(u) /\ (freed[u] <=> refs[u] = 0)
      BY <3>4 DEF RefInv
    <3>6. refs[u] # 0
      BY <3>1, <3>5 DEF Count
    <3> QED BY <3>2, <3>3, <3>4, <3>5, <3>6
  <2>3. CASE u \notin S
    <3>1. \A b \in Activation : u \in names'[b] <=> u \in names[b]
      BY <2>3 DEF TypeOK
    <3>2. Count(u)' = Count(u)
      BY <2>1, <3>1 DEF Count, Named
    <3>3. refs'[u] = refs[u] /\ (freed'[u] <=> freed[u])
      BY <2>3 DEF Dropped, TypeOK
    <3> QED BY <3>2, <3>3 DEF RefInv
  <2> QED BY <2>2, <2>3
<1>6. RefInv'
  BY <1>5 DEF RefInv
<1> QED BY <1>2, <1>3, <1>4, <1>6

LEMMA ReleaseKeeps ==
  ASSUME TaskInv, NEW a \in Activation, NEW u \in Task, Release(a, u)
  PROVE  TaskInv'
<1> USE DEF TaskInv
<1>1. /\ pc[a] = "idle" /\ u \in names[a]
      /\ names' = [names EXCEPT ![a] = @ \ {u}] /\ Dropped({u})
      /\ UNCHANGED <<claimed, done, joins, tasks, cap, next, pc, target, after, over, spawner, stopped>>
  BY DEF Release, At, sets
<1>2. \A b \in Activation : InSet(b)' = InSet(b)
  BY <1>1 DEF InSet, Waiting
<1>3. \A x \in Task : Born(x)' = Born(x)
  BY <1>1 DEF Born
<1>4. /\ RefInv' /\ refs' \in [Task -> Nat] /\ freed' \in [Task -> BOOLEAN]
      /\ names' \in [Activation -> SUBSET Task]
      /\ \A b, c \in Activation : names'[b] \cap names'[c] # {} => b = c
      /\ \A b \in Activation : names'[b] \subseteq names[b]
  BY <1>1, <1>2, <1>3, NamesDropped
<1>5. TypeOK'
  BY <1>1, <1>4 DEF TypeOK
<1>6. TargetInv'
  BY <1>1 DEF TargetInv, InLoop, Waiting, TypeOK
<1>7. SetInv' /\ SetFits' /\ ClaimInv'
  BY <1>1 DEF SetInv, SetFits, ClaimInv, Born
<1>8. NameInv'
  BY <1>1, <1>4 DEF NameInv, Born
<1>9. EndInv'
  BY <1>1, <1>2 DEF EndInv, Born
<1> QED BY <1>4, <1>5, <1>6, <1>7, <1>8, <1>9

LEMMA EndBlockKeeps == ASSUME TaskInv, NEW a \in Activation, EndBlock(a) PROVE TaskInv'
<1> USE DEF TaskInv
<1>1. /\ pc[a] = "releasing" /\ names' = [names EXCEPT ![a] = @ \ names[a]]
      /\ Dropped(names[a]) /\ pc' = [pc EXCEPT ![a] = "exited"]
      /\ UNCHANGED <<claimed, done, joins, tasks, cap, next, target, after, over, spawner, stopped>>
  <2>1. names[a] \ names[a] = {}
    OBVIOUS
  <2> QED BY <2>1 DEF EndBlock, At, sets, Goto
<1>p. \A b \in Activation : pc'[b] = IF b = a THEN "exited" ELSE pc[b]
  BY <1>1 DEF TypeOK
<1>t. \A u \in Task : u \in Activation
  BY DEF Activation
<1>2. \A b \in Activation : InSet(b)' = InSet(b)
  BY <1>1, <1>p DEF InSet, Waiting
<1>3. \A x \in Activation : Born(x)' = Born(x)
  BY <1>1, <1>p DEF Born
<1>4. /\ RefInv' /\ refs' \in [Task -> Nat] /\ freed' \in [Task -> BOOLEAN]
      /\ names' \in [Activation -> SUBSET Task]
      /\ \A b, c \in Activation : names'[b] \cap names'[c] # {} => b = c
      /\ \A b \in Activation : names'[b] \subseteq names[b]
  BY <1>1, <1>2, <1>3, <1>t, NamesDropped
<1>5. TypeOK'
  BY <1>1, <1>4 DEF TypeOK, Location
<1>6. TargetInv'
  BY <1>1, <1>p DEF TargetInv, InLoop, Waiting, TypeOK
<1>7. SetInv'
  <2>1. ASSUME NEW b \in Activation, NEW i \in 1 .. Len(tasks[b])
        PROVE  pc'[tasks[b][i]] # "unborn" /\ spawner[tasks[b][i]] = b
    <3>1. tasks[b][i] \in Task
      BY DEF TypeOK
    <3> QED BY <3>1, <1>p, <1>t DEF SetInv, Born
  <2> QED BY <2>1, <1>1, <1>p DEF SetInv, Born
<1>8. SetFits' /\ ClaimInv'
  BY <1>1 DEF SetFits, ClaimInv
<1>9. NameInv'
  <2>1. \A b \in Activation : \A x \in names'[b] : Born(x)'
    BY <1>3, <1>4, <1>t DEF NameInv
  <2>2. \A b \in Activation : pc'[b] \in {"unborn", "exited"} => names'[b] = {}
    BY <1>1, <1>p DEF NameInv, TypeOK
  <2> QED BY <1>4, <2>1, <2>2 DEF NameInv
<1>10. EndInv'
  <2>1. \A u \in Task : pc[u] = "exited" => pc'[u] = "exited"
    BY <1>p, <1>t
  <2>2. \A b \in Activation : pc'[b] = "dropSet" => pc'[target'[b]] = "exited"
    <3> SUFFICES ASSUME NEW b \in Activation, pc'[b] = "dropSet"
                 PROVE  pc'[target[b]] = "exited"
      BY <1>1
    <3>1. pc[b] = "dropSet"
      BY <1>p
    <3>2. target[b] \in Task
      BY <3>1, TargetHeld
    <3> QED BY <2>1, <3>1, <3>2 DEF EndInv
  <2> QED BY <2>1, <2>2, <1>1, <1>2, <1>3, <1>t DEF EndInv
<1> QED BY <1>4, <1>5, <1>6, <1>7, <1>8, <1>9, <1>10
\* The set gives up the entry the loop is at: InSet loses that one.
LEMMA DropSetKeeps == ASSUME TaskInv, NEW a \in Activation, DropSet(a) PROVE TaskInv'
<1> USE DEF TaskInv
<1> DEFINE u == target[a]
           i == next[a] + 1
           l == IF i <= Len(tasks[a]) THEN "join" ELSE IF over[a] THEN "releasing" ELSE "idle"
<1>1. /\ pc[a] = "dropSet" /\ Dropped({u}) /\ next' = [next EXCEPT ![a] = i]
      /\ UNCHANGED <<claimed, done, joins, names, over, spawner, stopped>>
      /\ pc' = [pc EXCEPT ![a] = l]
      /\ i <= Len(tasks[a]) => /\ target' = [target EXCEPT ![a] = tasks[a][i]]
                               /\ after' = [after EXCEPT ![a] = "dropSet"]
                               /\ UNCHANGED <<tasks, cap>>
      /\ ~(i <= Len(tasks[a])) => /\ tasks' = [tasks EXCEPT ![a] = <<>>]
                                  /\ cap' = [cap EXCEPT ![a] = 0]
                                  /\ UNCHANGED <<target, after>>
  BY DEF DropSet, JoinNext, At, Goto, sets
<1>2. /\ InLoop(a) /\ next[a] \in 1 .. Len(tasks[a]) /\ u = tasks[a][next[a]]
      /\ after[a] = "dropSet" /\ Len(tasks[a]) \in Nat /\ i \in Nat
  BY <1>1 DEF TargetInv, InLoop, Waiting, TypeOK
<1>3. u \in Task /\ u \in InSet(a) /\ spawner[u] = a
  BY <1>1, <1>2, TargetHeld, InSetOwn
<1>p. \A b \in Activation : pc'[b] = IF b = a THEN l ELSE pc[b]
  BY <1>1 DEF TypeOK
<1>t. \A x \in Task : x \in Activation
  BY DEF Activation
<1>4. InSet(a)' = InSet(a) \ {u}
  <2>1. InSet(a) = {tasks[a][j] : j \in next[a] .. Len(tasks[a])}
    BY <1>2, <1>1 DEF InSet
  <2>2. \A j \in next[a] .. Len(tasks[a]) : tasks[a][j] = u <=> j = next[a]
    BY <1>2 DEF SetInv
  <2>3. InSet(a) \ {u} = {tasks[a][j] : j \in i .. Len(tasks[a])}
    <3>1. \A j \in Int : j \in i .. Len(tasks[a]) <=> j \in next[a] .. Len(tasks[a]) /\ j # next[a]
      BY <1>2
    <3> QED BY <2>1, <2>2, <3>1
  <2>4. CASE i <= Len(tasks[a])
    <3>1. InSet(a)' = {tasks[a][j] : j \in i .. Len(tasks[a])}
      <4>1. pc'[a] = "join" /\ after'[a] = "dropSet" /\ next'[a] = i /\ tasks' = tasks
        BY <1>1, <2>4 DEF TypeOK
      <4> QED BY <4>1 DEF InSet, Waiting
    <3> QED BY <3>1, <2>3
  <2>5. CASE ~(i <= Len(tasks[a]))
    <3>1. tasks'[a] = <<>> /\ pc'[a] \in {"releasing", "idle"}
      BY <1>1, <2>5 DEF TypeOK
    <3>2. InSet(a)' = {}
      BY <3>1 DEF InSet, Waiting
    <3>3. i .. Len(tasks[a]) = {}
      BY <2>5, <1>2
    <3> QED BY <3>2, <3>3, <2>3
  <2> QED BY <2>4, <2>5
<1>5. \A b \in Activation : b # a => InSet(b)' = InSet(b)
  <2> SUFFICES ASSUME NEW b \in Activation, b # a PROVE InSet(b)' = InSet(b)
    OBVIOUS
  <2>1. pc'[b] = pc[b] /\ after'[b] = after[b] /\ next'[b] = next[b] /\ tasks'[b] = tasks[b]
    BY <1>1 DEF TypeOK
  <2> QED BY <2>1 DEF InSet, Waiting
<1>6. \A b \in Activation : Born(b)' = Born(b) /\ (pc'[b] = "exited" <=> pc[b] = "exited")
  BY <1>1, <1>p DEF Born
<1>7. refs' \in [Task -> Nat] /\ freed' \in [Task -> BOOLEAN]
  BY <1>1, <1>3, DroppedType DEF Kept
<1>8. TypeOK'
  <2>1. l \in Location
    BY DEF Location
  <2>2. CASE i <= Len(tasks[a])
    <3>1. tasks[a][i] \in Task
      BY <2>2, <1>2 DEF TypeOK
    <3> QED BY <1>1, <1>2, <1>7, <2>1, <2>2, <3>1 DEF TypeOK
  <2>3. CASE ~(i <= Len(tasks[a]))
    <3>1. tasks' \in [Activation -> Seq(Task)] /\ cap' \in [Activation -> Nat]
      <4>1. <<>> \in Seq(Task)
        OBVIOUS
      <4>2. \A e \in Seq(Task) : [tasks EXCEPT ![a] = e] \in [Activation -> Seq(Task)]
        BY DEF TypeOK
      <4>3. tasks' = [tasks EXCEPT ![a] = <<>>] /\ cap' = [cap EXCEPT ![a] = 0]
        BY <1>1, <2>3
      <4>4. cap' \in [Activation -> Nat]
        BY <4>3 DEF TypeOK
      <4> QED BY <4>1, <4>2, <4>3, <4>4
    <3> QED BY <1>1, <1>2, <1>7, <2>1, <2>3, <3>1 DEF TypeOK
  <2> QED BY <2>2, <2>3
<1>9. SetFits'
  <2>1. CASE i <= Len(tasks[a])
    BY <1>1, <2>1 DEF SetFits
  <2>2. CASE ~(i <= Len(tasks[a]))
    <3>1. \A b \in Activation : /\ tasks'[b] = IF b = a THEN <<>> ELSE tasks[b]
                                /\ cap'[b] = IF b = a THEN 0 ELSE cap[b]
      BY <1>1, <2>2 DEF TypeOK
    <3>2. Len(<<>>) = 0 /\ 0 <= MaxInt
      BY PasTaskAssumption
    <3> QED BY <3>1, <3>2 DEF SetFits
  <2> QED BY <2>1, <2>2
<1>10. TargetInv'
  <2> SUFFICES ASSUME NEW b \in Activation
               PROVE  /\ pc'[b] = "dropSet" => after'[b] = "dropSet"
                      /\ InLoop(b)' => /\ next'[b] \in 1 .. Len(tasks'[b])
                                       /\ target'[b] = tasks'[b][next'[b]]
                      /\ Waiting(b)' /\ after'[b] = "idle" => target'[b] \in names'[b]
    BY DEF TargetInv
  <2>1. CASE b = a /\ i <= Len(tasks[a])
    BY <1>1, <1>2, <1>p, <2>1 DEF InLoop, Waiting, TypeOK
  <2>2. CASE b = a /\ ~(i <= Len(tasks[a]))
    BY <1>1, <1>p, <2>2 DEF InLoop, Waiting
  <2>3. CASE b # a
    <3>1. /\ pc'[b] = pc[b] /\ after'[b] = after[b] /\ next'[b] = next[b]
          /\ tasks'[b] = tasks[b] /\ target'[b] = target[b] /\ names' = names
      BY <1>1, <2>3 DEF TypeOK
    <3> QED BY <3>1 DEF TargetInv, InLoop, Waiting
  <2> QED BY <2>1, <2>2, <2>3
<1>11. SetInv'
  <2> SUFFICES ASSUME NEW b \in Activation
               PROVE  /\ \A j \in 1 .. Len(tasks'[b]) :
                           pc'[tasks'[b][j]] # "unborn" /\ spawner[tasks'[b][j]] = b
                      /\ \A j, k \in 1 .. Len(tasks'[b]) : tasks'[b][j] = tasks'[b][k] => j = k
                      /\ pc'[b] \in {"unborn", "releasing", "exited"} => tasks'[b] = <<>>
    BY <1>1 DEF SetInv, Born
  <2>1. CASE tasks'[b] = <<>>
    BY <2>1
  <2>2. CASE tasks'[b] # <<>>
    <3>1. tasks'[b] = tasks[b] /\ (b = a => l = "join")
      BY <1>1, <2>2 DEF TypeOK
    <3>2. \A j \in 1 .. Len(tasks[b]) : tasks[b][j] \in Activation
      BY <1>t DEF TypeOK
    <3> QED BY <3>1, <3>2, <1>p, <1>6 DEF SetInv, Born
  <2> QED BY <2>1, <2>2
<1>12. NameInv'
  <2>1. \A b \in Activation : \A x \in names[b] : Born(x)'
    BY <1>6, <1>t DEF NameInv, TypeOK
  <2>2. \A b \in Activation : pc'[b] \in {"unborn", "exited"} => names[b] = {}
    BY <1>p DEF NameInv
  <2> QED BY <1>1, <2>1, <2>2 DEF NameInv
<1>13. EndInv'
  <2>1. pc[u] = "exited"
    BY <1>1 DEF EndInv
  <2>2. \A x \in Task : Born(x)' =>
          /\ spawner'[x] \in Activation
          /\ \A b \in Activation : spawner'[x] = b => pc'[x] = "exited" \/ x \in InSet(b)'
    BY <2>1, <1>1, <1>4, <1>5, <1>6, <1>t DEF EndInv
  <2>3. \A b \in Activation : pc'[b] = "dropSet" => pc'[target'[b]] = "exited"
    <3> SUFFICES ASSUME NEW b \in Activation, pc'[b] = "dropSet"
                 PROVE  pc'[target'[b]] = "exited"
      OBVIOUS
    <3>1. b # a /\ pc[b] = "dropSet" /\ target'[b] = target[b]
      BY <1>p, <1>1 DEF TypeOK
    <3>2. target[b] \in Task
      BY <3>1, TargetHeld
    <3> QED BY <1>6, <1>t, <3>1, <3>2 DEF EndInv
  <2>4. \A x \in Task : done'[x] => pc'[x] = "exited"
    BY <1>1, <1>6, <1>t DEF EndInv
  <2> QED BY <2>2, <2>3, <2>4 DEF EndInv
<1>14. ASSUME NEW x \in Task
       PROVE  refs'[x] = Count(x)' /\ (freed'[x] <=> Born(x)' /\ refs'[x] = 0)
  <2>1. Named(x)' = Named(x) /\ Born(x)' = Born(x)
    BY <1>1, <1>6, <1>t DEF Named
  <2>2. CASE x = u
    <3>1. Kept(x) /\ ~Kept(x)'
      <4>1. \A b \in Activation : b # a => x \notin InSet(b)
        BY <2>2, <1>3, InSetOwn
      <4> QED BY <4>1, <2>2, <1>3, <1>4, <1>5 DEF Kept
    <3>2. Count(x)' = Count(x) - 1 /\ Count(x) \in Nat \ {0}
      BY <2>1, <3>1 DEF Count
    <3>3. refs'[x] = refs[x] - 1 /\ (freed'[x] <=> freed[x] \/ refs[x] = 1)
      BY <2>2, <1>1 DEF Dropped
    <3>4. Born(x)
      BY <2>2, <1>3, InSetOwn
    <3>5. refs[x] = Count(x) /\ (freed[x] <=> refs[x] = 0)
      BY <3>4 DEF RefInv
    <3> QED BY <2>1, <3>2, <3>3, <3>4, <3>5
  <2>3. CASE x # u
    <3>1. Kept(x)' = Kept(x)
      BY <2>3, <1>4, <1>5 DEF Kept
    <3>2. Count(x)' = Count(x)
      BY <2>1, <3>1 DEF Count
    <3>3. refs'[x] = refs[x] /\ (freed'[x] <=> freed[x])
      BY <2>3, <1>1 DEF Dropped, TypeOK
    <3> QED BY <2>1, <3>2, <3>3 DEF RefInv
  <2> QED BY <2>2, <2>3
<1>15. RefInv' /\ ClaimInv'
  BY <1>14, <1>1 DEF RefInv, ClaimInv
<1> QED BY <1>8, <1>9, <1>10, <1>11, <1>12, <1>13, <1>15
-----------------------------------------------------------------------------
(* The spawn statement.                                                    *)

\* What the array grows to fits the new entry, and INT_MAX.
LEMMA GrownFits ==
  ASSUME TaskInv, NEW a \in Activation, ~TooMany(a)
  PROVE  LET c == IF Full(a) THEN Grown(a) ELSE cap[a]
         IN  c \in Nat /\ Len(tasks[a]) + 1 <= c /\ c <= MaxInt
<1>1. Len(tasks[a]) \in Nat /\ cap[a] \in Nat /\ Len(tasks[a]) <= cap[a] /\ cap[a] <= MaxInt
  BY DEF TaskInv, TypeOK, SetFits
<1>2. FirstCap \in Nat \ {0} /\ MaxInt \in Nat /\ FirstCap <= MaxInt
  BY PasTaskAssumption
<1>3. CASE ~Full(a)
  BY <1>1, <1>3 DEF Full
<1>4. CASE Full(a) /\ cap[a] = 0
  BY <1>1, <1>2, <1>4 DEF Full, Grown
<1>5. CASE Full(a) /\ cap[a] # 0
  <2>1. cap[a] <= MaxInt \div 2
    BY <1>1, <1>2, <1>5 DEF TooMany
  <2>2. cap[a] * 2 <= MaxInt
    BY <2>1, <1>1, <1>2
  <2> QED BY <2>2, <1>1, <1>5 DEF Full, Grown
<1> QED BY <1>3, <1>4, <1>5

LEMMA AppendIs ==
  ASSUME NEW S, NEW s \in Seq(S), NEW e \in S
  PROVE  /\ Len(s) \in Nat /\ Len(Append(s, e)) = Len(s) + 1
         /\ \A i \in 1 .. Len(s) : Append(s, e)[i] = s[i]
         /\ Append(s, e)[Len(s) + 1] = e
OBVIOUS

\* The entry is the set's last, the names moved are the new task's.
SpawnedInto(a, u) ==
  /\ a # u /\ u \in Activation /\ tasks[u] = <<>> /\ names[u] = {}
  /\ \A b \in Activation : pc'[b] = IF b = u THEN "idle" ELSE pc[b]
  /\ \A b \in Activation : tasks'[b] = IF b = a THEN Append(tasks[a], u) ELSE tasks[b]
  /\ tasks' \in [Activation -> Seq(Task)]
  /\ \A b \in Activation : InSet(b)' = IF b = a THEN InSet(a) \cup {u} ELSE InSet(b)
  /\ \A b \in Activation : u \notin InSet(b) /\ u \notin names[b]

LEMMA SpawnSets ==
  ASSUME TaskInv, NEW a \in Activation, NEW u \in Task, NEW named \in BOOLEAN,
         NEW old \in Task \cup {NoTask}, NEW M \in SUBSET Task, Spawn(a, u, named, old, M)
  PROVE  SpawnedInto(a, u)
<1> USE DEF TaskInv
<1>1. /\ pc[a] = "idle" /\ pc[u] = "unborn" /\ pc' = [pc EXCEPT ![u] = "idle"]
      /\ tasks' = [tasks EXCEPT ![a] = Append(@, u)] /\ UNCHANGED <<next, after>>
  BY DEF Spawn, At
<1>2. a # u /\ u \in Activation
  BY <1>1 DEF Activation
<1>3. tasks[u] = <<>> /\ names[u] = {}
  BY <1>1, <1>2 DEF SetInv, NameInv
<1>4. \A b \in Activation : pc'[b] = IF b = u THEN "idle" ELSE pc[b]
  BY <1>1 DEF TypeOK
<1>5. \A b \in Activation : tasks'[b] = IF b = a THEN Append(tasks[a], u) ELSE tasks[b]
  BY <1>1 DEF TypeOK
<1>6. tasks[a] \in Seq(Task) /\ Append(tasks[a], u) \in Seq(Task)
  BY DEF TypeOK
<1>7. tasks' \in [Activation -> Seq(Task)]
  BY <1>1, <1>6 DEF TypeOK
<1>8. ASSUME NEW b \in Activation
      PROVE  InSet(b)' = IF b = a THEN InSet(a) \cup {u} ELSE InSet(b)
  <2>1. CASE b = a
    <3>1. InSet(a) = {tasks[a][i] : i \in 1 .. Len(tasks[a])}
      BY <1>1 DEF InSet, Waiting
    <3>2. InSet(a)' = {tasks'[a][i] : i \in 1 .. Len(tasks'[a])}
      BY <1>1, <1>2, <1>4 DEF InSet, Waiting
    <3>3. /\ Len(tasks[a]) \in Nat /\ Len(tasks'[a]) = Len(tasks[a]) + 1
          /\ \A i \in 1 .. Len(tasks[a]) : tasks'[a][i] = tasks[a][i]
          /\ tasks'[a][Len(tasks[a]) + 1] = u
      <4>1. tasks'[a] = Append(tasks[a], u)
        BY <1>5
      <4> QED BY <4>1, <1>6, AppendIs
    <3>4. \A i \in Int : i \in 1 .. Len(tasks'[a])
                           <=> i \in 1 .. Len(tasks[a]) \/ i = Len(tasks[a]) + 1
      BY <3>3
    <3>5. {tasks'[a][i] : i \in 1 .. Len(tasks'[a])}
            = {tasks[a][i] : i \in 1 .. Len(tasks[a])} \cup {u}
      <4>1. ASSUME NEW x \in {tasks'[a][i] : i \in 1 .. Len(tasks'[a])}
            PROVE  x \in {tasks[a][i] : i \in 1 .. Len(tasks[a])} \cup {u}
        BY <3>3, <3>4
      <4>2. ASSUME NEW x \in {tasks[a][i] : i \in 1 .. Len(tasks[a])} \cup {u}
            PROVE  x \in {tasks'[a][i] : i \in 1 .. Len(tasks'[a])}
        BY <3>3, <3>4
      <4> QED BY <4>1, <4>2
    <3> QED BY <2>1, <3>1, <3>2, <3>5
  <2>2. CASE b = u
    <3>1. tasks[b] = <<>> /\ tasks'[b] = <<>> /\ Len(<<>>) = 0
      BY <1>2, <1>3, <1>5, <2>2
    <3>2. InSet(b) = {} /\ InSet(b)' = {}
      BY <3>1, <1>1, <1>4, <2>2 DEF InSet, Waiting
    <3> QED BY <3>2, <2>2, <1>2
  <2>3. CASE b # a /\ b # u
    BY <2>3, <1>1, <1>4, <1>5 DEF InSet, Waiting
  <2> QED BY <2>1, <2>2, <2>3
<1>9. \A b \in Activation : u \notin InSet(b) /\ u \notin names[b]
  BY <1>1, InSetOwn DEF NameInv, Born
<1> QED BY <1>2, <1>3, <1>4, <1>5, <1>7, <1>8, <1>9 DEF SpawnedInto

\* Who holds which name after a spawn statement.
LEMMA SpawnNames ==
  ASSUME TaskInv, NEW a \in Activation, NEW u \in Task, NEW named \in BOOLEAN,
         NEW old \in Task \cup {NoTask}, NEW M \in SUBSET Task, Spawn(a, u, named, old, M)
  PROVE  /\ names' \in [Activation -> SUBSET Task]
         /\ names'[a] = (names[a] \ (M \cup {old})) \cup (IF named THEN {u} ELSE {})
         /\ names'[u] = M /\ M \subseteq names[a]
         /\ \A b \in Activation \ {a, u} : names'[b] = names[b]
         /\ old # NoTask => old \in names[a] \ M
<1> USE DEF TaskInv
<1>1. a # u /\ u \in Activation
  BY SpawnSets DEF SpawnedInto
<1>2. NoTask \notin Activation /\ \A x \in names[a] : x # NoTask
  BY PasTaskAssumption DEF TypeOK, Activation
<1>3. CASE ~named
  <2>1. names' = [names EXCEPT ![a] = @ \ M, ![u] = M] /\ M \subseteq names[a] /\ old = NoTask
    BY <1>3 DEF Spawn, MovedIn
  <2>2. names[a] \ (M \cup {old}) = names[a] \ M
    BY <2>1, <1>2
  <2> QED BY <1>1, <1>3, <2>1, <2>2 DEF TypeOK
<1>4. CASE named
  <2>1. /\ names' = [names EXCEPT ![a] = (@ \ (M \cup {old})) \cup {u}, ![u] = M]
        /\ M \subseteq names[a] /\ old \in (names[a] \ M) \cup {NoTask}
    BY <1>4 DEF Spawn, MovedIn
  <2> QED BY <1>1, <1>4, <2>1 DEF TypeOK
<1> QED BY <1>3, <1>4

LEMMA SpawnRefs ==
  ASSUME TaskInv, NEW a \in Activation, NEW u \in Task, NEW named \in BOOLEAN,
         NEW old \in Task \cup {NoTask}, NEW M \in SUBSET Task, Spawn(a, u, named, old, M)
  PROVE  RefInv' /\ refs' \in [Task -> Nat] /\ freed' \in [Task -> BOOLEAN]
<1> USE DEF TaskInv
<1>1. pc[u] = "unborn"
  BY DEF Spawn
<1>2. /\ a # u /\ u \in Activation
      /\ \A b \in Activation : pc'[b] = IF b = u THEN "idle" ELSE pc[b]
      /\ \A b \in Activation : InSet(b)' = IF b = a THEN InSet(a) \cup {u} ELSE InSet(b)
      /\ \A b \in Activation : u \notin InSet(b) /\ u \notin names[b]
  <2>1. SpawnedInto(a, u)
    BY SpawnSets
  <2> QED BY <2>1, Zenon DEF SpawnedInto
<1>3. /\ names'[a] = (names[a] \ (M \cup {old})) \cup (IF named THEN {u} ELSE {})
      /\ names'[u] = M /\ M \subseteq names[a]
      /\ \A b \in Activation \ {a, u} : names'[b] = names[b]
      /\ old # NoTask => old \in names[a] \ M
  BY SpawnNames
<1>t. \A x \in Task : x \in Activation /\ x # NoTask
  BY PasTaskAssumption DEF Activation
<1>4. /\ refs' = [x \in Task |-> IF x = u THEN IF named THEN 2 ELSE 1
                                 ELSE IF x = old THEN refs[x] - 1 ELSE refs[x]]
      /\ freed' = [x \in Task |-> freed[x] \/ (x = old /\ refs[x] = 1)]
  <2>1. CASE ~named
    <3>1. refs' = [refs EXCEPT ![u] = 1] /\ freed' = freed /\ old = NoTask
      BY <2>1 DEF Spawn, StartRefs
    <3> QED BY <2>1, <3>1, <1>t DEF TypeOK
  <2>2. CASE named
    <3>1. old # u
      BY <1>2, <1>3, <1>t
    <3>2. /\ refs' = [x \in Task |-> CASE x = u -> 2 [] x = old -> refs[x] - 1 [] OTHER -> refs[x]]
          /\ freed' = [x \in Task |-> freed[x] \/ (x = old /\ refs[x] = 1)]
      BY <2>2 DEF Spawn, StartRefs
    <3>3. \A x \in Task : (CASE x = u -> 2 [] x = old -> refs[x] - 1 [] OTHER -> refs[x])
                             = IF x = u THEN 2 ELSE IF x = old THEN refs[x] - 1 ELSE refs[x]
      BY <3>1
    <3> QED BY <2>2, <3>2, <3>3
  <2> QED BY <2>1, <2>2
<1>5. \A x \in Task : Born(x)' = (Born(x) \/ x = u)
  BY <1>2, <1>t DEF Born
<1>6. \A x \in Task : x # u => Kept(x)' = Kept(x)
  BY <1>2 DEF Kept
<1>7. Kept(u)' /\ (Named(u)' <=> named)
  <2>1. Kept(u)'
    BY <1>2 DEF Kept
  <2>2. \A b \in Activation : u \in names'[b] <=> b = a /\ named
    BY <1>2, <1>3
  <2> QED BY <2>1, <2>2 DEF Named
<1>8. ASSUME NEW x \in Task, x # u, x # old PROVE Named(x)' = Named(x)
  <2>1. ASSUME NEW b \in Activation, x \in names[b] PROVE Named(x)'
    <3>1. CASE b = a /\ x \in M
      BY <3>1, <1>2, <1>3 DEF Named
    <3>2. CASE b = a /\ x \notin M
      BY <3>2, <2>1, <1>3, <1>8 DEF Named
    <3>3. CASE b # a
      <4>1. b # u
        BY <2>1, <1>1, <1>2 DEF NameInv
      <4>2. x \in names'[b]
        BY <2>1, <3>3, <4>1, <1>3
      <4> QED BY <4>2 DEF Named
    <3> QED BY <3>1, <3>2, <3>3
  <2>2. ASSUME NEW b \in Activation, x \in names'[b] PROVE Named(x)
    BY <2>2, <1>2, <1>3, <1>8 DEF Named
  <2> QED BY <2>1, <2>2 DEF Named
<1>9. ASSUME NEW x \in Task, x = old PROVE Named(x) /\ ~Named(x)' /\ x # u
  <2>1. x \in names[a] \ M /\ x # u
    BY <1>9, <1>t, <1>2, <1>3
  <2>2. \A b \in Activation : x \in names[b] => b = a
    BY <2>1 DEF NameInv
  <2>3. \A b \in Activation : x \notin names'[b]
    <3> TAKE b \in Activation
    <3>1. CASE b = a
      BY <3>1, <1>3, <1>9, <2>1
    <3>2. CASE b = u
      BY <3>2, <1>3, <2>1
    <3>3. CASE b # a /\ b # u
      BY <3>3, <1>3, <2>2
    <3> QED BY <3>1, <3>2, <3>3
  <2> QED BY <2>1, <2>3 DEF Named
<1>10. ASSUME NEW x \in Task
       PROVE  /\ refs'[x] = Count(x)' /\ (freed'[x] <=> Born(x)' /\ refs'[x] = 0)
              /\ refs'[x] \in Nat /\ freed'[x] \in BOOLEAN
  <2>1. /\ refs[x] = Count(x) /\ (freed[x] <=> Born(x) /\ refs[x] = 0) /\ refs[x] \in Nat
        /\ freed[x] \in BOOLEAN
    BY DEF RefInv, TypeOK
  <2>2. CASE x = u
    <3>1. ~Kept(x) /\ ~Named(x) /\ ~Born(x)
      BY <2>2, <1>1, <1>2 DEF Kept, Named, Born
    <3>2. refs[x] = 0 /\ ~freed[x]
      BY <3>1, <2>1 DEF Count
    <3>3. refs'[x] = (IF named THEN 2 ELSE 1) /\ ~freed'[x]
      <4>1. refs'[x] = IF named THEN 2 ELSE 1
        BY <2>2, <1>4
      <4>2. freed'[x] <=> freed[x] \/ (x = old /\ refs[x] = 1)
        BY <1>4
      <4>3. refs[x] # 1
        BY <3>2
      <4> QED BY <4>1, <4>2, <4>3, <3>2
    <3>4. Count(x)' = IF named THEN 2 ELSE 1
      BY <2>2, <1>7 DEF Count
    <3>5. freed'[x] \in BOOLEAN
      BY <1>4
    <3> QED BY <3>3, <3>4, <3>5
  <2>3. CASE x = old
    <3>1. Named(x) /\ ~Named(x)' /\ x # u
      BY <2>3, <1>9
    <3>2. Count(x) \in Nat \ {0} /\ Count(x)' = Count(x) - 1
      BY <3>1, <1>6 DEF Count
    <3>3. refs'[x] = refs[x] - 1 /\ (freed'[x] <=> freed[x] \/ refs[x] = 1)
      BY <2>3, <3>1, <1>4
    <3>4. Born(x) /\ Born(x)'
      <4>1. Born(x)
        BY <3>1 DEF Named, NameInv
      <4> QED BY <4>1, <1>5
    <3>5. freed'[x] \in BOOLEAN
      BY <1>4
    <3> QED BY <2>1, <3>2, <3>3, <3>4, <3>5
  <2>4. CASE x # u /\ x # old
    <3>1. Count(x)' = Count(x)
      BY <2>4, <1>6, <1>8 DEF Count
    <3>2. refs'[x] = refs[x] /\ (freed'[x] <=> freed[x]) /\ freed'[x] \in BOOLEAN
      BY <2>4, <1>4, <2>1
    <3>3. Born(x)' = Born(x)
      BY <2>4, <1>5 DEF Born
    <3> QED BY <2>1, <3>1, <3>2, <3>3
  <2> QED BY <2>2, <2>3, <2>4
<1>11. RefInv'
  BY <1>10 DEF RefInv
<1>12. refs' \in [Task -> Nat] /\ freed' \in [Task -> BOOLEAN]
  <2>1. DOMAIN refs' = Task /\ DOMAIN freed' = Task
    BY <1>4
  <2>2. refs' = [x \in Task |-> refs'[x]] /\ freed' = [x \in Task |-> freed'[x]]
    BY <1>4
  <2> QED BY <2>2, <1>10
<1> QED BY <1>11, <1>12

LEMMA SpawnKeeps ==
  ASSUME TaskInv, NEW a \in Activation, NEW u \in Task, NEW named \in BOOLEAN,
         NEW old \in Task \cup {NoTask}, NEW M \in SUBSET Task, Spawn(a, u, named, old, M)
  PROVE  TaskInv'
<1> USE DEF TaskInv
<1>1. /\ pc[a] = "idle" /\ pc[u] = "unborn" /\ ~TooMany(a)
      /\ cap' = [cap EXCEPT ![a] = IF Full(a) THEN Grown(a) ELSE @]
      /\ pc' = [pc EXCEPT ![u] = "idle"] /\ spawner' = [spawner EXCEPT ![u] = a]
      /\ UNCHANGED <<claimed, done, joins, next, target, after, over, stopped>>
  BY DEF Spawn, At
<1>2. /\ a # u /\ u \in Activation /\ tasks[u] = <<>> /\ names[u] = {}
      /\ \A b \in Activation : pc'[b] = IF b = u THEN "idle" ELSE pc[b]
      /\ \A b \in Activation : tasks'[b] = IF b = a THEN Append(tasks[a], u) ELSE tasks[b]
      /\ tasks' \in [Activation -> Seq(Task)]
      /\ \A b \in Activation : InSet(b)' = IF b = a THEN InSet(a) \cup {u} ELSE InSet(b)
      /\ \A b \in Activation : u \notin InSet(b) /\ u \notin names[b]
  <2>1. SpawnedInto(a, u)
    BY SpawnSets
  <2> QED BY <2>1, Zenon DEF SpawnedInto
<1>3. /\ names' \in [Activation -> SUBSET Task]
      /\ names'[a] = (names[a] \ (M \cup {old})) \cup (IF named THEN {u} ELSE {})
      /\ names'[u] = M /\ M \subseteq names[a]
      /\ \A b \in Activation \ {a, u} : names'[b] = names[b]
  BY SpawnNames
<1>4. RefInv' /\ refs' \in [Task -> Nat] /\ freed' \in [Task -> BOOLEAN]
  BY SpawnRefs
<1>t. \A x \in Task : x \in Activation
  BY DEF Activation
<1>b. \A x \in Task : Born(x)' = (Born(x) \/ x = u) /\ (pc'[x] = "exited" <=> pc[x] = "exited")
  BY <1>1, <1>2, <1>t DEF Born
<1>c. \A b \in Activation : cap'[b] = IF b = a THEN IF Full(a) THEN Grown(a) ELSE cap[a] ELSE cap[b]
  BY <1>1 DEF TypeOK
<1>l. tasks[a] \in Seq(Task) /\ tasks'[a] = Append(tasks[a], u)
  BY <1>2 DEF TypeOK
<1>m. /\ Len(tasks[a]) \in Nat /\ Len(tasks'[a]) = Len(tasks[a]) + 1
      /\ \A i \in 1 .. Len(tasks[a]) : tasks'[a][i] = tasks[a][i]
      /\ tasks'[a][Len(tasks[a]) + 1] = u
  BY <1>l, AppendIs
<1>5. TypeOK' /\ SetFits'
  <2>1. LET c == IF Full(a) THEN Grown(a) ELSE cap[a]
        IN  c \in Nat /\ Len(tasks[a]) + 1 <= c /\ c <= MaxInt
    BY <1>1, GrownFits
  <2>2. cap' \in [Activation -> Nat]
    BY <2>1, <1>1 DEF TypeOK
  <2>3. SetFits'
    BY <2>1, <1>2, <1>c, <1>m DEF SetFits
  <2> QED BY <1>1, <1>2, <1>3, <1>4, <2>2, <2>3 DEF TypeOK, Location
<1>6. TargetInv'
  <2> SUFFICES ASSUME NEW b \in Activation
               PROVE  /\ pc'[b] = "dropSet" => after'[b] = "dropSet"
                      /\ InLoop(b)' => /\ next'[b] \in 1 .. Len(tasks'[b])
                                       /\ target'[b] = tasks'[b][next'[b]]
                      /\ Waiting(b)' /\ after'[b] = "idle" => target'[b] \in names'[b]
    BY DEF TargetInv
  <2>1. CASE b = a \/ b = u
    BY <2>1, <1>1, <1>2 DEF InLoop, Waiting
  <2>2. CASE b # a /\ b # u
    BY <2>2, <1>1, <1>2, <1>3 DEF InLoop, Waiting, TargetInv
  <2> QED BY <2>1, <2>2
<1>s. \A x \in Task : spawner'[x] = IF x = u THEN a ELSE spawner[x]
  BY <1>1 DEF TypeOK
<1>7. SetInv'
  <2> SUFFICES ASSUME NEW b \in Activation
               PROVE  /\ \A j \in 1 .. Len(tasks'[b]) :
                           pc'[tasks'[b][j]] # "unborn" /\ spawner'[tasks'[b][j]] = b
                      /\ \A j, k \in 1 .. Len(tasks'[b]) : tasks'[b][j] = tasks'[b][k] => j = k
                      /\ pc'[b] \in {"unborn", "releasing", "exited"} => tasks'[b] = <<>>
    BY DEF SetInv, Born
  <2>1. \A j \in 1 .. Len(tasks[b]) : /\ tasks[b][j] \in Task /\ tasks[b][j] # u
                                      /\ pc'[tasks[b][j]] # "unborn"
                                      /\ spawner'[tasks[b][j]] = b
    <3> TAKE j \in 1 .. Len(tasks[b])
    <3>1. tasks[b][j] \in Task
      BY DEF TypeOK
    <3>2. Born(tasks[b][j]) /\ spawner[tasks[b][j]] = b
      BY DEF SetInv
    <3>3. tasks[b][j] # u
      BY <3>2, <1>1 DEF Born
    <3> QED BY <3>1, <3>2, <3>3, <1>2, <1>s, <1>t DEF Born
  <2>2. CASE b = a
    <3>1. \A j \in 1 .. Len(tasks'[a]) : j \in 1 .. Len(tasks[a]) \/ j = Len(tasks[a]) + 1
      BY <1>m
    <3>2. \A j \in 1 .. Len(tasks[a]) : /\ tasks[a][j] \in Task /\ tasks[a][j] # u
                                        /\ pc'[tasks[a][j]] # "unborn"
                                        /\ spawner'[tasks[a][j]] = a
      BY <2>1, <2>2
    <3>3. ASSUME NEW j \in 1 .. Len(tasks'[a])
          PROVE  pc'[tasks'[a][j]] # "unborn" /\ spawner'[tasks'[a][j]] = a
      <4>1. CASE j \in 1 .. Len(tasks[a])
        <5>1. tasks'[a][j] = tasks[a][j]
          BY <4>1, <1>m
        <5> QED BY <4>1, <5>1, <3>2
      <4>2. CASE j = Len(tasks[a]) + 1
        <5>1. tasks'[a][j] = u
          BY <4>2, <1>m
        <5> QED BY <5>1, <1>s, <1>2
      <4> QED BY <3>1, <4>1, <4>2
    <3>4. ASSUME NEW j \in 1 .. Len(tasks'[a]), NEW k \in 1 .. Len(tasks'[a]),
                 tasks'[a][j] = tasks'[a][k]
          PROVE  j = k
      <4>1. CASE j \in 1 .. Len(tasks[a]) /\ k \in 1 .. Len(tasks[a])
        <5>1. tasks[a][j] = tasks[a][k]
          BY <4>1, <3>4, <1>m
        <5> QED BY <4>1, <5>1 DEF SetInv
      <4>2. CASE j = Len(tasks[a]) + 1 /\ k \in 1 .. Len(tasks[a])
        BY <4>2, <3>2, <3>4, <1>m
      <4>3. CASE j \in 1 .. Len(tasks[a]) /\ k = Len(tasks[a]) + 1
        BY <4>3, <3>2, <3>4, <1>m
      <4> QED BY <3>1, <4>1, <4>2, <4>3
    <3>5. pc'[a] = "idle"
      BY <1>1, <1>2
    <3> QED BY <2>2, <3>3, <3>4, <3>5
  <2>3. CASE b # a
    <3>1. tasks'[b] = tasks[b] /\ (pc'[b] = pc[b] \/ b = u)
      BY <2>3, <1>2
    <3>2. pc'[b] \in {"unborn", "releasing", "exited"} => tasks[b] = <<>>
      BY <3>1, <1>2 DEF SetInv
    <3>3. \A j, k \in 1 .. Len(tasks[b]) : tasks[b][j] = tasks[b][k] => j = k
      BY DEF SetInv
    <3> QED BY <2>1, <3>1, <3>2, <3>3
  <2> QED BY <2>2, <2>3
<1>8. NameInv'
  <2>1. \A b \in Activation : \A x \in names'[b] : Born(x)'
    <3> TAKE b \in Activation
    <3>1. names'[b] \subseteq names[b] \cup {u} \cup names[a]
      BY <1>2, <1>3
    <3>2. \A x \in names[b] \cup names[a] : x \in Task /\ Born(x)
      BY DEF NameInv, TypeOK
    <3> QED BY <3>1, <3>2, <1>b
  <2>2. \A b, c \in Activation : names'[b] \cap names'[c] # {} => b = c
    <3> SUFFICES ASSUME NEW b \in Activation, NEW c \in Activation, NEW x,
                        x \in names'[b], x \in names'[c]
                 PROVE  b = c
      OBVIOUS
    <3>1. CASE x = u
      BY <3>1, <1>2, <1>3
    <3>2. CASE x # u
      <4>1. \A d \in Activation : x \in names'[d] =>
              \/ d = u /\ x \in names[a] /\ x \in M
              \/ d = a /\ x \in names[a] /\ x \notin M
              \/ d # a /\ d # u /\ x \in names[d]
        BY <3>2, <1>3
      <4>2. \A d, e \in Activation : x \in names[d] /\ x \in names[e] => d = e
        BY DEF NameInv
      <4> QED BY <4>1, <4>2
    <3> QED BY <3>1, <3>2
  <2>3. \A b \in Activation : pc'[b] \in {"unborn", "exited"} => names'[b] = {}
    BY <1>1, <1>2, <1>3 DEF NameInv
  <2> QED BY <2>1, <2>2, <2>3 DEF NameInv
<1>9. EndInv'
  <2>1. \A x \in Task : done'[x] => pc'[x] = "exited"
    BY <1>1, <1>b DEF EndInv
  <2>2. \A b \in Activation : pc'[b] = "dropSet" => pc'[target'[b]] = "exited"
    <3> SUFFICES ASSUME NEW b \in Activation, pc'[b] = "dropSet"
                 PROVE  pc'[target'[b]] = "exited"
      OBVIOUS
    <3>1. pc[b] = "dropSet" /\ target'[b] = target[b]
      BY <1>1, <1>2
    <3>2. target[b] \in Task
      BY <3>1, TargetHeld
    <3> QED BY <1>b, <3>1, <3>2 DEF EndInv
  <2>3. ASSUME NEW x \in Task, Born(x)'
        PROVE  /\ spawner'[x] \in Activation
               /\ \A b \in Activation : spawner'[x] = b => pc'[x] = "exited" \/ x \in InSet(b)'
    <3>1. CASE x = u
      BY <3>1, <1>s, <1>2
    <3>2. CASE x # u
      <4>1. Born(x) /\ spawner'[x] = spawner[x] /\ (pc'[x] = "exited" <=> pc[x] = "exited")
        BY <3>2, <2>3, <1>s, <1>b
      <4>2. \A b \in Activation : x \in InSet(b) => x \in InSet(b)'
        BY <1>2
      <4> QED BY <4>1, <4>2 DEF EndInv
    <3> QED BY <3>1, <3>2
  <2> QED BY <2>1, <2>2, <2>3 DEF EndInv
<1>10. ClaimInv'
  BY <1>1 DEF ClaimInv
<1> QED BY <1>4, <1>5, <1>6, <1>7, <1>8, <1>9, <1>10
-----------------------------------------------------------------------------
(* The invariant, and what follows from it.                                *)

\* The program stops: nothing is said about a set, a name or a record.
LEMMA StopKeeps ==
  ASSUME TaskInv, stopped' \in BOOLEAN,
         UNCHANGED <<record, sets, next, names, spawner, pc, target, after, over>>
  PROVE  TaskInv'
<1>1. UNCHANGED <<refs, claimed, done, freed, joins, tasks, cap, next, names, spawner, pc,
                  target, after, over>>
  BY DEF record, sets
<1>2. \A b \in Activation : InSet(b)' = InSet(b)
  BY <1>1 DEF InSet, Waiting
<1>3. TypeOK' /\ SetFits' /\ ClaimInv'
  BY <1>1 DEF TaskInv, TypeOK, SetFits, ClaimInv
<1>4. TargetInv' /\ SetInv' /\ NameInv'
  BY <1>1 DEF TaskInv, TargetInv, SetInv, NameInv, InLoop, Waiting, Born
<1>5. EndInv'
  BY <1>1, <1>2 DEF TaskInv, EndInv, Born
<1>6. RefInv'
  BY <1>1, <1>2 DEF TaskInv, RefInv, Count, Kept, Named, Born
<1> QED BY <1>3, <1>4, <1>5, <1>6 DEF TaskInv

LEMMA NextTaskInv == TaskInv /\ [Next]_vars => TaskInv'
<1> SUFFICES ASSUME TaskInv, [Next]_vars PROVE TaskInv'
  OBVIOUS
<1>1. CASE UNCHANGED vars
  BY <1>1, StopKeeps DEF vars, TaskInv, TypeOK
<1>2. ASSUME NEW a \in Activation, Continue(a) PROVE TaskInv'
  <2>1. CASE JoinTasks(a, TRUE)
    BY <2>1, JoinTasksKeeps
  <2>2. CASE Join(a)
    BY <2>2, JoinKeeps
  <2>3. CASE Joined(a) \/ SeenDone(a)
    BY <2>3, JoinedKeeps
  <2>4. CASE DropSet(a)
    BY <2>4, DropSetKeeps
  <2>5. CASE EndBlock(a)
    BY <2>5, EndBlockKeeps
  <2> QED BY <1>2, <2>1, <2>2, <2>3, <2>4, <2>5 DEF Continue
<1>3. ASSUME NEW a \in Activation, Choose(a) PROVE TaskInv'
  <2>1. ASSUME NEW u \in Task, NEW M \in SUBSET Task, NEW old \in Task \cup {NoTask},
               Spawn(a, u, TRUE, old, M) \/ Spawn(a, u, FALSE, old, M)
        PROVE  TaskInv'
    BY <2>1, SpawnKeeps
  <2>2. ASSUME NEW u \in Task, Wait(a, u) \/ Release(a, u) PROVE TaskInv'
    BY <2>2, WaitKeeps, ReleaseKeeps
  <2>3. CASE SpawnFails(a) \/ WaitEmpty(a)
    BY <2>3, StopKeeps DEF SpawnFails, WaitEmpty
  <2>4. CASE JoinTasks(a, FALSE)
    BY <2>4, JoinTasksKeeps
  <2> QED BY <1>3, <2>1, <2>2, <2>3, <2>4 DEF Choose
<1> QED BY <1>1, <1>2, <1>3 DEF Next

\* The inductive invariant of tasks, sets and names.
THEOREM TaskInvariant == Spec => []TaskInv
BY InitTaskInv, NextTaskInv, PTL DEF Spec

\* Every variable has its type, whatever is spawned, waited for, released and
\* joined (pasrt_task.c).
THEOREM TaskTypes == Spec => []TypeOK
<1>1. TaskInv => TypeOK
  BY DEF TaskInv
<1> QED BY <1>1, TaskInvariant, PTL

\* Counting holders: each record has at most one of either kind.
LEMMA HoldersCounted == TaskInv => RefsCountHolders
<1> SUFFICES ASSUME TaskInv, NEW u \in Task
             PROVE  refs[u] = Cardinality({a \in Activation : u \in InSet(a)})
                              + Cardinality({a \in Activation : u \in names[a]})
  BY DEF RefsCountHolders
<1>1. \A a, b \in Activation : u \in InSet(a) /\ u \in InSet(b) => a = b
  BY InSetOwn
<1>2. \A a, b \in Activation : u \in names[a] /\ u \in names[b] => a = b
  BY DEF TaskInv, NameInv
<1>3. Cardinality({a \in Activation : u \in InSet(a)}) = IF Kept(u) THEN 1 ELSE 0
  <2>1. CASE Kept(u)
    <3>1. PICK b \in Activation : u \in InSet(b)
      BY <2>1 DEF Kept
    <3>2. {a \in Activation : u \in InSet(a)} = {b}
      BY <1>1, <3>1
    <3> QED BY <2>1, <3>2, FS_Singleton
  <2>2. CASE ~Kept(u)
    <3>1. {a \in Activation : u \in InSet(a)} = {}
      BY <2>2 DEF Kept
    <3> QED BY <2>2, <3>1, FS_EmptySet
  <2> QED BY <2>1, <2>2
<1>4. Cardinality({a \in Activation : u \in names[a]}) = IF Named(u) THEN 1 ELSE 0
  <2>1. CASE Named(u)
    <3>1. PICK b \in Activation : u \in names[b]
      BY <2>1 DEF Named
    <3>2. {a \in Activation : u \in names[a]} = {b}
      BY <1>2, <3>1
    <3> QED BY <2>1, <3>2, FS_Singleton
  <2>2. CASE ~Named(u)
    <3>1. {a \in Activation : u \in names[a]} = {}
      BY <2>2 DEF Named
    <3> QED BY <2>2, <3>1, FS_EmptySet
  <2> QED BY <2>1, <2>2
<1> QED BY <1>3, <1>4 DEF TaskInv, RefInv, Count

\* No record of a task is reached after pas_task_drop_ref freed it, its count
\* is the number of sets and variables that hold it, the set has room for its
\* entries and pthread_join is called at most once for it.
THEOREM RecordsAreSafe == Spec => []NoRecordUseAfterFree
<1>1. ASSUME TaskInv PROVE NoRecordUseAfterFree
  <2>1. RefsCountHolders
    BY <1>1, HoldersCounted
  <2>2. SetFits /\ \A u \in Task : joins[u] <= 1
    BY <1>1 DEF TaskInv, ClaimInv
  <2>3. ASSUME NEW a \in Activation, NEW u \in names[a] \cup InSet(a) PROVE ~freed[u]
    <3>1. u \in Task /\ (Kept(u) \/ Named(u))
      BY <1>1, InSetOwn DEF TaskInv, TypeOK, Kept, Named
    <3> QED BY <1>1, <3>1, HeldHasRef
  <2>4. ASSUME NEW a \in Activation, Waiting(a) \/ pc[a] = "dropSet" PROVE ~freed[target[a]]
    <3>1. target[a] \in names[a] \cup InSet(a)
      BY <1>1, <2>4, TargetHeld
    <3> QED BY <3>1, <2>3
  <2> QED BY <2>1, <2>2, <2>3, <2>4 DEF NoRecordUseAfterFree
<1> QED BY <1>1, TaskInvariant, PTL

\* Whoever joins it, by a name or by the set, a task that a block commenced is
\* over when the block releases its variables and ends (pas_tasks_join before
\* the epilogue's releases).
THEOREM BlocksOutliveTasks == Spec => []BlockOutlivesItsTasks
<1>1. ASSUME TaskInv PROVE BlockOutlivesItsTasks
  <2> SUFFICES ASSUME NEW u \in Task, Born(u), pc[spawner[u]] \in {"releasing", "exited"}
               PROVE  pc[u] = "exited"
    BY DEF BlockOutlivesItsTasks
  <2> DEFINE a == spawner[u]
  <2>1. a \in Activation
    BY <1>1 DEF TaskInv, EndInv
  <2>2. tasks[a] = <<>> /\ Len(<<>>) = 0
    BY <1>1, <2>1 DEF TaskInv, SetInv
  <2>3. u \notin InSet(a)
    BY <1>1, <2>1, <2>2, InSetOwn
  <2> QED BY <1>1, <2>1, <2>3 DEF TaskInv, EndInv
<1> QED BY <1>1, TaskInvariant, PTL

\* A wait statement, and a block's join, goes on only when the activation it
\* names has ended, also where another thread claimed the join and this one
\* only saw done (pas_task_join).
THEOREM WaitsSeeTheEnd == Spec => WaitsForTheEnd
<1> DEFINE A == \A a \in Activation :
                  Waiting(a) /\ pc'[a] \notin {"join", "joinWait", "doneWait"}
                    => pc[target[a]] = "exited"
<1>1. ASSUME TaskInv, [Next]_vars PROVE [A]_vars
  <2> SUFFICES ASSUME Next, NEW b \in Activation, Waiting(b),
                      pc'[b] \notin {"join", "joinWait", "doneWait"}
               PROVE  pc[target[b]] = "exited"
    BY <1>1
  <2>1. pc[b] \in {"join", "joinWait", "doneWait"} /\ pc \in [Activation -> Location]
    BY <1>1 DEF Waiting, TaskInv, TypeOK
  <2>2. target[b] \in Task
    BY <1>1, TargetHeld
  <2>3. done[target[b]] => pc[target[b]] = "exited"
    BY <1>1, <2>2 DEF TaskInv, EndInv
  <2>4. PICK a \in Activation : Continue(a) \/ Choose(a)
    BY DEF Next
  <2>5. CASE Join(a) \/ Joined(a) \/ SeenDone(a)
    <3>1. a = b
      BY <2>1, <2>5 DEF Join, Joined, SeenDone, Goto
    <3> QED BY <2>1, <2>3, <2>5, <3>1 DEF Join, Joined, SeenDone, Goto
  <2>6. CASE \E e \in BOOLEAN : JoinTasks(a, e)
    BY <2>1, <2>6 DEF JoinTasks, At, Goto
  <2>7. CASE DropSet(a) \/ EndBlock(a)
    BY <2>1, <2>7 DEF DropSet, EndBlock, JoinNext, At, Goto
  <2>8. CASE SpawnFails(a) \/ WaitEmpty(a)
    BY <2>1, <2>8 DEF SpawnFails, WaitEmpty
  <2>9. CASE \E u \in Task : Wait(a, u) \/ Release(a, u)
    BY <2>1, <2>9 DEF Wait, Release, At, Goto
  <2>10. CASE \E u \in Task, M \in SUBSET Task : \E old \in Task \cup {NoTask} :
                Spawn(a, u, TRUE, old, M) \/ Spawn(a, u, FALSE, old, M)
    <3>1. PICK u \in Task : pc[u] = "unborn" /\ pc' = [pc EXCEPT ![u] = "idle"]
      <4>1. ASSUME NEW u \in Task, NEW M, NEW old, NEW named, Spawn(a, u, named, old, M)
            PROVE  pc[u] = "unborn" /\ pc' = [pc EXCEPT ![u] = "idle"]
        BY <4>1, Zenon DEF Spawn
      <4> QED BY <4>1, <2>10
    <3> QED BY <2>1, <3>1
  <2> QED BY <2>4, <2>5, <2>6, <2>7, <2>8, <2>9, <2>10 DEF Continue, Choose
<1> QED BY <1>1, TaskInvariant, PTL DEF Spec, WaitsForTheEnd
-----------------------------------------------------------------------------
(* Waits form no ring.                                                     *)

\* The activations can be ranked so that whoever is held, by a name or by a
\* set, is below its holder.
Held(a) == names[a] \cup InSet(a)
RankedBy(rank) == \A a \in Activation : \A u \in Held(a) : rank[u] < rank[a]
RankInv == \E rank \in [Activation -> Nat] : RankedBy(rank)

LEMMA LeastNatural ==
  ASSUME NEW T, T \subseteq Nat, T # {}
  PROVE  \E x \in T : \A y \in T : x <= y
<1>1. PICK x \in T : \A y \in T : <<y, x>> \notin OpToRel(<, Nat)
  BY WFMin, NatLessThanWellFounded
<1>2. \A y \in T : ~(y < x)
  BY <1>1 DEF OpToRel
<1> QED BY <1>2

\* A spawn statement puts the new activation between the one that spawned it
\* and those whose names were moved into it.
LEMMA SpawnRanks ==
  ASSUME TaskInv, NEW a \in Activation, NEW u \in Task, NEW named \in BOOLEAN,
         NEW old \in Task \cup {NoTask}, NEW M \in SUBSET Task, Spawn(a, u, named, old, M),
         RankInv
  PROVE  RankInv'
<1>1. SpawnedInto(a, u)
  BY SpawnSets
<1>2. /\ names'[a] = (names[a] \ (M \cup {old})) \cup (IF named THEN {u} ELSE {})
      /\ names'[u] = M /\ M \subseteq names[a]
      /\ \A b \in Activation \ {a, u} : names'[b] = names[b]
  BY SpawnNames, SMTT(60)
<1>3. PICK rank \in [Activation -> Nat] : RankedBy(rank)
  BY DEF RankInv
<1> DEFINE new == [b \in Activation |-> IF b = u THEN 2 * rank[a] + 1 ELSE 2 * rank[b] + 2]
<1>4. new \in [Activation -> Nat]
  BY <1>3
<1>t. /\ a # u /\ u \in Activation /\ InSet(u) = {}
      /\ \A b \in Activation : u \notin Held(b) /\ Held(b) \subseteq Activation
  <2>1. \A b \in Activation : InSet(b) \subseteq Activation /\ names[b] \subseteq Activation
    BY InSetOwn DEF TaskInv, TypeOK, Activation
  <2>2. a # u /\ u \in Activation /\ \A b \in Activation : u \notin Held(b)
    BY <1>1 DEF SpawnedInto, Held
  <2>3. tasks[u] = <<>> /\ Len(<<>>) = 0
    BY <1>1 DEF SpawnedInto
  <2>4. InSet(u) = {}
    BY <2>2, <2>3, InSetOwn
  <2> QED BY <2>1, <2>2, <2>4 DEF Held
<1>5. ASSUME NEW b \in Activation, NEW x \in Held(b)' PROVE new[x] < new[b]
  <2>1. InSet(b)' = IF b = a THEN InSet(a) \cup {u} ELSE InSet(b)
    BY <1>1 DEF SpawnedInto
  <2>2. CASE x = u
    <3>1. b = a
      BY <1>2, <1>t, <2>1, <2>2, <1>5 DEF Held
    <3> QED BY <3>1, <2>2, <1>3, <1>t
  <2>3. CASE x # u /\ b = u
    <3>1. x \in names[a]
      BY <2>1, <2>3, <1>2, <1>t, <1>5 DEF Held
    <3>2. x \in Held(a) /\ x \in Activation
      BY <3>1, <1>t DEF Held
    <3>3. rank[x] < rank[a] /\ rank[x] \in Nat /\ rank[a] \in Nat
      BY <3>2, <1>3 DEF RankedBy
    <3> QED BY <3>2, <3>3, <2>3, <1>t
  <2>4. CASE x # u /\ b # u
    <3>1. x \in Held(b)
      <4>1. CASE b = a
        BY <4>1, <2>1, <2>4, <1>2, <1>5 DEF Held
      <4>2. CASE b # a
        BY <4>2, <2>1, <2>4, <1>2, <1>5 DEF Held
      <4> QED BY <4>1, <4>2
    <3>2. rank[x] < rank[b] /\ rank[x] \in Nat /\ rank[b] \in Nat /\ x \in Activation
      BY <3>1, <1>3, <1>t DEF RankedBy
    <3> QED BY <3>2, <2>4
  <2> QED BY <2>2, <2>3, <2>4
<1> QED BY <1>4, <1>5 DEF RankInv, RankedBy

\* Every other step takes from a set its first entry, or all of them.
LEMMA ShrinkRanks ==
  ASSUME TaskInv, TaskInv', RankInv,
         \A b \in Activation : names'[b] \subseteq names[b],
         \A b \in Activation : \/ tasks'[b] = <<>>
                               \/ tasks'[b] = tasks[b] /\ First(b)' >= First(b)
  PROVE  RankInv'
<1>1. ASSUME NEW b \in Activation PROVE InSet(b)' \subseteq InSet(b)
  <2>1. InSet(b) = {tasks[b][i] : i \in First(b) .. Len(tasks[b])}
    BY DEF InSet, First, InLoop, Waiting
  <2>2. InSet(b)' = {tasks'[b][i] : i \in First(b)' .. Len(tasks'[b])}
    BY DEF InSet, First, InLoop, Waiting
  <2>3. First(b) \in Nat /\ First(b) >= 1 /\ Len(tasks[b]) \in Nat
    BY DEF First, TaskInv, TargetInv, TypeOK
  <2>4. First(b)' \in Nat /\ First(b)' >= 1
    BY DEF First, TaskInv, TargetInv, TypeOK
  <2>5. CASE tasks'[b] = tasks[b] /\ First(b)' >= First(b)
    BY <2>1, <2>2, <2>3, <2>5, <2>4
  <2>6. CASE tasks'[b] = <<>>
    <3>1. InSet(b)' = {}
      <4>1. Len(tasks'[b]) = 0
        BY <2>6
      <4>2. First(b)' .. 0 = {}
        BY <2>4
      <4> QED BY <4>1, <4>2, <2>2
    <3> QED BY <3>1
  <2> QED BY <2>5, <2>6
<1>2. PICK rank \in [Activation -> Nat] : RankedBy(rank)
  BY DEF RankInv
<1>3. RankedBy(rank)'
  BY <1>1, <1>2 DEF RankedBy, Held
<1> QED BY <1>3 DEF RankInv

LEMMA FirstStays ==
  ASSUME TaskInv, NEW b \in Activation,
         pc'[b] = pc[b], after'[b] = after[b], next'[b] = next[b]
  PROVE  First(b)' >= First(b)
<1>1. First(b)' = First(b)
  BY DEF First, InLoop, Waiting
<1>2. First(b) \in Nat
  BY DEF First, TaskInv, TypeOK
<1> QED BY <1>1, <1>2

LEMMA NextRankInv == TaskInv /\ RankInv /\ [Next]_vars => RankInv'
<1> SUFFICES ASSUME TaskInv, RankInv, [Next]_vars PROVE RankInv'
  OBVIOUS
<1>1. TaskInv' /\ TypeOK /\ TypeOK'
  BY NextTaskInv DEF TaskInv
<1>2. CASE UNCHANGED vars
  <2>1. UNCHANGED <<tasks, names, pc, after, next>>
    BY <1>2 DEF vars, sets
  <2>2. \A b \in Activation : First(b)' >= First(b)
    BY <2>1, FirstStays
  <2> QED BY <1>1, <2>1, <2>2, ShrinkRanks
<1>3. ASSUME NEW a \in Activation, NEW u \in Task, NEW named \in BOOLEAN,
             NEW old \in Task \cup {NoTask}, NEW M \in SUBSET Task, Spawn(a, u, named, old, M)
      PROVE  RankInv'
  BY <1>3, SpawnRanks
\* One activation moves; its set stays, but for what DropSet takes.
<1>4. ASSUME NEW a \in Activation,
             \A b \in Activation : names'[b] \subseteq names[b],
             \A b \in Activation : b # a => /\ pc'[b] = pc[b] /\ after'[b] = after[b]
                                            /\ next'[b] = next[b] /\ tasks'[b] = tasks[b],
             \/ tasks'[a] = <<>>
             \/ tasks'[a] = tasks[a] /\ First(a)' >= First(a)
      PROVE  RankInv'
  <2>1. \A b \in Activation : \/ tasks'[b] = <<>>
                              \/ tasks'[b] = tasks[b] /\ First(b)' >= First(b)
    BY <1>4, FirstStays
  <2> QED BY <1>1, <1>4, <2>1, ShrinkRanks
<1>5. ASSUME NEW a \in Activation, NEW l,
             Waiting(a), pc' = [pc EXCEPT ![a] = l],
             l \in {"joinWait", "doneWait"} \/ l = after[a],
             UNCHANGED <<sets, next, names, after>>
      PROVE  RankInv'
  <2>1. tasks' = tasks /\ pc'[a] = l /\ after[a] \in {"idle", "dropSet"}
    BY <1>1, <1>5 DEF sets, TypeOK
  <2>2. First(a)' = First(a) /\ First(a) \in Nat
    BY <1>1, <1>5, <2>1 DEF First, InLoop, Waiting, TypeOK
  <2>3. First(a)' >= First(a)
    BY <2>2
  <2>4. \A b \in Activation : b # a => pc'[b] = pc[b]
    BY <1>1, <1>5 DEF TypeOK
  <2> QED BY <1>4, <1>5, <2>1, <2>3, <2>4
<1>6. ASSUME NEW a \in Activation, Continue(a) PROVE RankInv'
  <2>1. CASE JoinTasks(a, TRUE)
    <3>1. /\ tasks' = tasks /\ names' = names /\ First(a) = 1 /\ First(a)' = 1
          /\ \A b \in Activation : b # a => /\ pc'[b] = pc[b] /\ after'[b] = after[b]
                                            /\ next'[b] = next[b]
      BY <2>1, <1>1 DEF JoinTasks, At, Goto, sets, First, InLoop, Waiting, TypeOK
    <3>2. First(a)' >= First(a)
      BY <3>1
    <3> QED BY <1>4, <3>1, <3>2
  <2>2. CASE Join(a)
    <3>1. /\ Waiting(a) /\ UNCHANGED <<sets, next, names, after>>
          /\ \E l \in {"joinWait", "doneWait", after[a]} : pc' = [pc EXCEPT ![a] = l]
      BY <2>2 DEF Join, At, Goto, Waiting
    <3> QED BY <1>5, <3>1
  <2>3. CASE Joined(a) \/ SeenDone(a)
    <3>1. /\ Waiting(a) /\ UNCHANGED <<sets, next, names, after>>
          /\ pc' = [pc EXCEPT ![a] = after[a]]
      BY <2>3 DEF Joined, SeenDone, At, Goto, Waiting
    <3> QED BY <1>5, <3>1
  <2>4. CASE DropSet(a)
    <3>1. /\ names' = names /\ next'[a] = next[a] + 1 /\ pc[a] = "dropSet"
          /\ \A b \in Activation : b # a => /\ pc'[b] = pc[b] /\ after'[b] = after[b]
                                            /\ next'[b] = next[b] /\ tasks'[b] = tasks[b]
          /\ \/ tasks'[a] = <<>>
             \/ tasks'[a] = tasks[a] /\ pc'[a] = "join" /\ after'[a] = "dropSet"
      BY <2>4, <1>1 DEF DropSet, JoinNext, At, Goto, sets, TypeOK
    <3>2. after[a] = "dropSet"
      BY <3>1 DEF TaskInv, TargetInv
    <3>3. First(a) = next[a] /\ next[a] \in Nat
      BY <3>1, <3>2, <1>1 DEF First, InLoop, TypeOK
    <3>4. tasks'[a] # <<>> => First(a)' = next[a] + 1
      BY <3>1 DEF First, InLoop, Waiting
    <3>5. tasks'[a] # <<>> => First(a)' >= First(a)
      BY <3>3, <3>4
    <3> QED BY <1>4, <3>1, <3>5
  <2>5. CASE EndBlock(a)
    <3>1. /\ tasks' = tasks /\ First(a) = 1 /\ First(a)' = 1
          /\ \A b \in Activation : names'[b] \subseteq names[b]
          /\ \A b \in Activation : b # a => /\ pc'[b] = pc[b] /\ after'[b] = after[b]
                                            /\ next'[b] = next[b]
      BY <2>5, <1>1 DEF EndBlock, At, Goto, sets, First, InLoop, Waiting, TypeOK
    <3>2. First(a)' >= First(a)
      BY <3>1
    <3> QED BY <1>4, <3>1, <3>2
  <2> QED BY <1>6, <2>1, <2>2, <2>3, <2>4, <2>5 DEF Continue
<1>7. ASSUME NEW a \in Activation, Choose(a) PROVE RankInv'
  <2>1. ASSUME NEW u \in Task, Wait(a, u) PROVE RankInv'
    <3>1. /\ tasks' = tasks /\ names' = names /\ First(a) = 1 /\ First(a)' = 1
          /\ \A b \in Activation : b # a => /\ pc'[b] = pc[b] /\ after'[b] = after[b]
                                            /\ next'[b] = next[b]
      BY <2>1, <1>1 DEF Wait, At, Goto, sets, First, InLoop, Waiting, TypeOK
    <3>2. First(a)' >= First(a)
      BY <3>1
    <3> QED BY <1>4, <3>1, <3>2
  <2>2. ASSUME NEW u \in Task, Release(a, u) PROVE RankInv'
    <3>1. /\ UNCHANGED <<tasks, pc, after, next>>
          /\ \A b \in Activation : names'[b] \subseteq names[b]
      BY <2>2, <1>1 DEF Release, sets, TypeOK
    <3>2. First(a)' >= First(a)
      BY <3>1, FirstStays
    <3> QED BY <1>4, <3>1, <3>2
  <2>3. CASE SpawnFails(a) \/ WaitEmpty(a)
    <3>1. UNCHANGED <<tasks, names, pc, after, next>>
      BY <2>3 DEF SpawnFails, WaitEmpty, sets
    <3>2. First(a)' >= First(a)
      BY <3>1, FirstStays
    <3> QED BY <1>4, <3>1, <3>2
  <2>4. CASE JoinTasks(a, FALSE)
    <3>1. /\ tasks' = tasks /\ names' = names /\ First(a) = 1 /\ First(a)' = 1
          /\ \A b \in Activation : b # a => /\ pc'[b] = pc[b] /\ after'[b] = after[b]
                                            /\ next'[b] = next[b]
      BY <2>4, <1>1 DEF JoinTasks, At, Goto, sets, First, InLoop, Waiting, TypeOK
    <3>2. First(a)' >= First(a)
      BY <3>1
    <3> QED BY <1>4, <3>1, <3>2
  <2> QED BY <1>3, <1>7, <2>1, <2>2, <2>3, <2>4 DEF Choose
<1> QED BY <1>2, <1>6, <1>7 DEF Next

\* However names are moved into tasks, no activations wait for each other in a
\* ring: the least of the ranked activations that wait waits for nobody among
\* them.
THEOREM WaitsFormNoRing == Spec => []NoWaitCycle
<1>1. Init => RankInv
  <2> SUFFICES ASSUME Init PROVE RankInv
    OBVIOUS
  <2>1. \A a \in Activation : Held(a) = {}
    BY DEF Init, Held, InSet
  <2>2. [a \in Activation |-> 0] \in [Activation -> Nat]
    OBVIOUS
  <2> QED BY <2>1, <2>2 DEF RankInv, RankedBy
<1>2. ASSUME TaskInv, RankInv PROVE NoWaitCycle
  <2> SUFFICES ASSUME NEW S \in SUBSET Activation, S # {},
                      \A a \in S : Waiting(a) /\ target[a] \in S
               PROVE  FALSE
    BY DEF NoWaitCycle
  <2>1. PICK rank \in [Activation -> Nat] : RankedBy(rank)
    BY <1>2 DEF RankInv
  <2>2. {rank[a] : a \in S} \subseteq Nat /\ {rank[a] : a \in S} # {}
    BY <2>1
  <2>3. PICK x \in {rank[a] : a \in S} : \A y \in {rank[a] : a \in S} : x <= y
    BY <2>2, LeastNatural
  <2>4. PICK a \in S : x = rank[a]
    BY <2>3
  <2>5. target[a] \in Held(a)
    BY <1>2, TargetHeld DEF Held
  <2>6. rank[target[a]] < rank[a] /\ rank[a] <= rank[target[a]]
    BY <2>1, <2>3, <2>4, <2>5 DEF RankedBy
  <2>7. rank[a] \in Nat /\ rank[target[a]] \in Nat
    BY <2>1
  <2> QED BY <2>6, <2>7
<1> QED BY <1>1, <1>2, NextRankInv, TaskInvariant, PTL DEF Spec
=============================================================================
