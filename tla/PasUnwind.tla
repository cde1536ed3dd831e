------------------------------ MODULE PasUnwind ------------------------------
(***************************************************************************)
(* Leaving a block (runtime/pasrt.c).  One thread's chain of activations,  *)
(* and the three lists the runtime keeps for it: the files, the handles    *)
(* and the deferred statements its blocks own.  A block is left by its     *)
(* epilogue, by a non-local goto past it (pas_jump_go) or by halt          *)
(* (pas_halt); each must release what the block owns, once, after the      *)
(* block's armed statement has run.                                        *)
(*                                                                         *)
(* Files and handles may also stand in heap variables, which new registers *)
(* and dispose unregisters at any time.                                    *)
(***************************************************************************)
EXTENDS UnwindState

Init ==
  /\ depth = 1
  /\ \E D \in SUBSET Part :
       /\ declares = [f \in Frame |-> IF f = 1 THEN D ELSE {}]
       /\ files = IF "file" \in D THEN <<1>> ELSE <<>>
       /\ handles = IF "handle" \in D THEN <<1>> ELSE <<>>
       /\ defers = IF "defer" \in D THEN <<1>> ELSE <<>>
       /\ mark = [f \in Frame |-> IF f = 1 /\ "file" \in D THEN 1 ELSE Nil]
       /\ hmark = [f \in Frame |-> IF f = 1 /\ "handle" \in D THEN 1 ELSE Nil]
       /\ dmark = [f \in Frame |-> IF f = 1 /\ "defer" \in D THEN 1 ELSE Nil]
       /\ fileUp = [o \in Owner |-> o = 1 /\ "file" \in D]
  /\ active = [f \in Frame |-> f = 1]
  /\ armed = [f \in Frame |-> FALSE]
  /\ value = [o \in Owner |-> Nil]
  /\ opened = {} /\ closes = [v \in Value |-> 0]
  /\ heap = {}
  /\ blockPc = "run" /\ blockTarget = Nil

-----------------------------------------------------------------------------
\* The head of a list, which is what a mark notes.
HeadOf(list) == IF list = <<>> THEN Nil ELSE Head(list)
Push(yes, o, list) == IF yes THEN <<o>> \o list ELSE list

\* The slots that exist and hold a handle.
HasHandle(o) ==
  IF o \in Cell THEN o \in heap ELSE o <= depth /\ "handle" \in declares[o]

\* pas_handle_release of the slots S: each held value goes to its closer once.
Released(S) ==
  /\ value' = [o \in Owner |-> IF o \in S THEN Nil ELSE value[o]]
  /\ closes' = [v \in Value |-> closes[v] + Cardinality({o \in S : value[o] = v})]

\* A list whose entry of slot o, if it has one, is unlinked.
Unlinked(list, o) ==
  IF o \in ToSet(list)
    THEN RemoveAt(list, CHOOSE i \in DOMAIN list : list[i] = o)
    ELSE list

\* pas_file_done and pas_handle_done of the slot o.
MutantFileDone(o) ==
  /\ fileUp' = [fileUp EXCEPT ![o] = FALSE]
  /\ UNCHANGED files
FileDone(o) ==
  /\ files' = Unlinked(files, o)
  /\ fileUp' = [fileUp EXCEPT ![o] = FALSE]
HandleDone(o) ==
  /\ handles' = Unlinked(handles, o)
  /\ Released({o})

\* pas_defer_done: unlink first, then the runner, which executes the block's
\* statement if it is armed.  The statement may release the block's handle or
\* halt; where `go` is what follows the call when it returns.
DeferDone(f, go) ==
  /\ defers' = Unlinked(defers, f)
  /\ armed' = [armed EXCEPT ![f] = FALSE]
  /\ \/ blockPc' = go /\ UNCHANGED <<value, closes>>
     \/ armed[f] /\ "handle" \in declares[f] /\ blockPc' = go /\ Released({f})
     \/ armed[f] /\ blockPc' = "halt" /\ UNCHANGED <<value, closes>>

-----------------------------------------------------------------------------
(* What a running block does.                                              *)

\* A call: the callee's prologue (InitFiles, InitDefers, JumpDispatch) sets up
\* its slots and arms its jump record with the lists as they then stand.
MutantEnter(D) ==
  LET f == depth + 1 IN
  /\ blockPc = "run" /\ depth < Depth /\ depth' = f
  /\ declares' = [declares EXCEPT ![f] = D]
  /\ files' = Push("file" \in D, f, files)
  /\ handles' = Push("handle" \in D, f, handles)
  /\ defers' = Push("defer" \in D, f, defers)
  /\ fileUp' = [fileUp EXCEPT ![f] = "file" \in D]
  /\ value' = [value EXCEPT ![f] = Nil]
  /\ mark' = [mark EXCEPT ![f] = HeadOf(files)]
  /\ hmark' = [hmark EXCEPT ![f] = HeadOf(handles)]
  /\ dmark' = [dmark EXCEPT ![f] = HeadOf(defers)]
  /\ active' = [active EXCEPT ![f] = TRUE]
  /\ UNCHANGED <<armed, opened, closes, heap, blockPc, blockTarget>>
Enter(D) ==
  LET f == depth + 1 IN
  /\ blockPc = "run" /\ depth < Depth /\ depth' = f
  /\ declares' = [declares EXCEPT ![f] = D]
  /\ files' = Push("file" \in D, f, files)
  /\ handles' = Push("handle" \in D, f, handles)
  /\ defers' = Push("defer" \in D, f, defers)
  /\ fileUp' = [fileUp EXCEPT ![f] = "file" \in D]
  /\ value' = [value EXCEPT ![f] = Nil]
  /\ mark' = [mark EXCEPT ![f] = HeadOf(files')]
  /\ hmark' = [hmark EXCEPT ![f] = HeadOf(handles')]
  /\ dmark' = [dmark EXCEPT ![f] = HeadOf(defers')]
  /\ active' = [active EXCEPT ![f] = TRUE]
  /\ UNCHANGED <<armed, opened, closes, heap, blockPc, blockTarget>>

\* defer s
Arm ==
  /\ blockPc = "run" /\ "defer" \in declares[depth] /\ ~armed[depth]
  /\ armed' = [armed EXCEPT ![depth] = TRUE]
  /\ UNCHANGED <<frameState, lists, slots, heap, blockPc, blockTarget>>

\* The statement-sequence is complete: EndSequence runs and disarms.
CompleteSequence ==
  /\ blockPc = "run" /\ armed[depth]
  /\ armed' = [armed EXCEPT ![depth] = FALSE]
  /\ \/ "handle" \in declares[depth] /\ Released({depth}) /\ blockPc' = blockPc
     \/ blockPc' \in {"run", "halt"} /\ UNCHANGED <<value, closes>>
  /\ UNCHANGED <<frameState, lists, fileUp, opened, heap, blockTarget>>

\* h := an external call that answers a new resource (pas_handle_set).
HandleSet(o, v) ==
  /\ blockPc = "run" /\ HasHandle(o) /\ v \notin opened
  /\ opened' = opened \cup {v}
  /\ value' = [value EXCEPT ![o] = v]
  /\ closes' = [w \in Value |-> closes[w] + IF value[o] = w THEN 1 ELSE 0]
  /\ UNCHANGED <<frameState, armed, lists, fileUp, heap, blockPc, blockTarget>>

\* d := take(s): pas_handle_take empties the source without its closer, then
\* pas_handle_set releases what the destination held.
MutantHandleMove(s, d) ==
  /\ blockPc = "run" /\ HasHandle(s) /\ HasHandle(d) /\ value[s] # Nil
  /\ value' = [value EXCEPT ![d] = value[s]]
  /\ closes' = [w \in Value |-> closes[w] + IF s # d /\ value[d] = w THEN 1 ELSE 0]
  /\ UNCHANGED <<frameState, armed, lists, fileUp, opened, heap, blockPc, blockTarget>>
HandleMove(s, d) ==
  LET taken == [value EXCEPT ![s] = Nil]
  IN /\ blockPc = "run" /\ HasHandle(s) /\ HasHandle(d) /\ value[s] # Nil
     /\ value' = [taken EXCEPT ![d] = value[s]]
     /\ closes' = [w \in Value |-> closes[w] + IF taken[d] = w THEN 1 ELSE 0]
     /\ UNCHANGED <<frameState, armed, lists, fileUp, opened, heap, blockPc,
                    blockTarget>>

\* release(h) or h := nil
HandleRelease(o) ==
  /\ blockPc = "run" /\ HasHandle(o) /\ value[o] # Nil
  /\ Released({o})
  /\ UNCHANGED <<frameState, armed, lists, fileUp, opened, heap, blockPc, blockTarget>>

\* new(p) and dispose(p) for a domain type that holds a file and a handle.
New(c) ==
  /\ blockPc = "run" /\ c \notin heap
  /\ heap' = heap \cup {c}
  /\ files' = <<c>> \o files /\ handles' = <<c>> \o handles
  /\ fileUp' = [fileUp EXCEPT ![c] = TRUE]
  /\ value' = [value EXCEPT ![c] = Nil]
  /\ UNCHANGED <<frameState, armed, defers, opened, closes, blockPc, blockTarget>>
Dispose(c) ==
  /\ blockPc = "run" /\ c \in heap
  /\ heap' = heap \ {c}
  /\ FileDone(c) /\ HandleDone(c)
  /\ UNCHANGED <<frameState, armed, defers, opened, blockPc, blockTarget>>

-----------------------------------------------------------------------------
(* The three ways out.                                                     *)

\* The frames above d are gone, and their jump records with them.
CutTo(d) ==
  /\ depth' = d
  /\ declares' = [f \in Frame |-> IF f <= d THEN declares[f] ELSE {}]
  /\ mark' = [f \in Frame |-> IF f <= d THEN mark[f] ELSE Nil]
  /\ hmark' = [f \in Frame |-> IF f <= d THEN hmark[f] ELSE Nil]
  /\ dmark' = [f \in Frame |-> IF f <= d THEN dmark[f] ELSE Nil]
  /\ active' = [f \in Frame |-> f <= d /\ active[f]]

\* CloseFiles, the epilogue: the runner, then what the block declared.
Leave ==
  /\ blockPc = "run"
  /\ IF "defer" \in declares[depth]
       THEN DeferDone(depth, "leave")
       ELSE blockPc' = "leave" /\ UNCHANGED <<armed, defers, value, closes>>
  /\ UNCHANGED <<frameState, files, handles, fileUp, opened, heap, blockTarget>>
Left ==
  /\ blockPc = "leave"
  /\ IF "file" \in declares[depth] THEN FileDone(depth)
                                   ELSE UNCHANGED <<files, fileUp>>
  /\ IF "handle" \in declares[depth] THEN HandleDone(depth)
                                     ELSE UNCHANGED <<handles, value, closes>>
  /\ CutTo(depth - 1)
  /\ blockPc' = IF depth = 1 THEN "ended" ELSE "run"
  /\ UNCHANGED <<armed, defers, opened, heap, blockTarget>>

\* goto a label of an enclosing block: pas_jump_go.
Goto(t) ==
  /\ blockPc = "run" /\ t < depth /\ active[t]
  /\ blockPc' = "jump" /\ blockTarget' = t
  /\ UNCHANGED <<frameState, armed, lists, slots, heap>>

\* The three walks, each from the head of its list back to the mark.  The
\* frames stand until the longjmp, so each statement runs in its own.
JumpDefers ==
  /\ blockPc = "jump" /\ HeadOf(defers) \notin {Nil, dmark[blockTarget]}
  /\ DeferDone(Head(defers), "jump")
  /\ UNCHANGED <<frameState, files, handles, fileUp, opened, heap, blockTarget>>
DefersWalked == blockPc = "jump" /\ HeadOf(defers) \in {Nil, dmark[blockTarget]}
MutantJumpFiles ==
  /\ blockPc = "jump" /\ HeadOf(files) \notin {Nil, mark[blockTarget]}
  /\ FileDone(Head(files))
  /\ UNCHANGED <<frameState, armed, handles, defers, value, opened, closes, heap,
                 blockPc, blockTarget>>
JumpFiles ==
  /\ DefersWalked /\ HeadOf(files) \notin {Nil, mark[blockTarget]}
  /\ FileDone(Head(files))
  /\ UNCHANGED <<frameState, armed, handles, defers, value, opened, closes, heap,
                 blockPc, blockTarget>>
JumpHandles ==
  /\ DefersWalked /\ HeadOf(files) \in {Nil, mark[blockTarget]}
  /\ HeadOf(handles) \notin {Nil, hmark[blockTarget]}
  /\ HandleDone(Head(handles))
  /\ UNCHANGED <<frameState, armed, files, defers, fileUp, opened, heap, blockPc,
                 blockTarget>>
LongJmp ==
  /\ DefersWalked /\ HeadOf(files) \in {Nil, mark[blockTarget]}
  /\ HeadOf(handles) \in {Nil, hmark[blockTarget]}
  /\ CutTo(blockTarget) /\ blockPc' = "run" /\ blockTarget' = Nil
  /\ UNCHANGED <<armed, lists, slots, heap>>

\* halt: pas_halt.  The head is taken afresh, so a deferred statement that
\* halts again goes on with a shorter list.
Halt ==
  /\ blockPc = "run" /\ blockPc' = "halt"
  /\ UNCHANGED <<frameState, armed, lists, slots, heap, blockTarget>>
HaltDefers ==
  /\ blockPc = "halt" /\ defers # <<>>
  /\ DeferDone(Head(defers), "halt")
  /\ UNCHANGED <<frameState, files, handles, fileUp, opened, heap, blockTarget>>
MutantHaltCloses ==
  /\ blockPc = "halt" /\ defers = <<>>
  /\ files' = <<>> /\ fileUp' = [o \in Owner |-> fileUp[o] /\ o \notin ToSet(files)]
  /\ blockPc' = "ended"
  /\ UNCHANGED <<frameState, armed, defers, handles, value, closes, opened, heap,
                 blockTarget>>
HaltCloses ==
  /\ blockPc = "halt" /\ defers = <<>>
  /\ files' = <<>> /\ fileUp' = [o \in Owner |-> fileUp[o] /\ o \notin ToSet(files)]
  /\ handles' = <<>> /\ Released(ToSet(handles))
  /\ blockPc' = "ended"
  /\ UNCHANGED <<frameState, armed, defers, opened, heap, blockTarget>>

-----------------------------------------------------------------------------
Unwinding ==
  \/ Left \/ JumpDefers \/ JumpFiles \/ JumpHandles \/ LongJmp
  \/ HaltDefers \/ HaltCloses

Running ==
  \/ \E D \in SUBSET Part : Enter(D)
  \/ Arm \/ CompleteSequence \/ Leave \/ Halt
  \/ \E o \in Owner : HandleRelease(o)
  \/ \E o \in Owner, v \in Value : HandleSet(o, v)
  \/ \E s, d \in Owner : HandleMove(s, d)
  \/ \E c \in Cell : New(c)
  \/ \E t \in Frame : Goto(t)

\* Every program ...
Next == Unwinding \/ Running \/ \E c \in Cell : Dispose(c)
Spec == Init /\ [][Next]_blockVars

\* ... and one that disposes of no variable whose file or handle headed a list
\* when a block that is still active was entered.
Marked(c) == \E f \in Frame : c \in {mark[f], hmark[f]}
CarefulNext == Unwinding \/ Running \/ \E c \in Cell : ~Marked(c) /\ Dispose(c)
CarefulSpec == Init /\ [][CarefulNext]_blockVars
FairSpec == CarefulSpec /\ WF_blockVars(Unwinding)

-----------------------------------------------------------------------------
(* Properties.                                                             *)

\* Every variable has its type; a closer is called at most once a resource.
TypeOK ==
  /\ depth \in 0 .. Depth
  /\ declares \in [Frame -> SUBSET Part] /\ armed \in [Frame -> BOOLEAN]
  /\ files \in Seq(Owner) /\ handles \in Seq(Owner) /\ defers \in Seq(Frame)
  /\ mark \in [Frame -> Owner \cup {Nil}] /\ hmark \in [Frame -> Owner \cup {Nil}]
  /\ dmark \in [Frame -> Frame \cup {Nil}] /\ active \in [Frame -> BOOLEAN]
  /\ fileUp \in [Owner -> BOOLEAN] /\ value \in [Owner -> Value \cup {Nil}]
  /\ opened \in SUBSET Value /\ closes \in [Value -> 0 .. 1]
  /\ heap \in SUBSET Cell
  /\ blockPc \in {"run", "leave", "jump", "halt", "ended"}
  /\ blockTarget \in Frame \cup {Nil}

\* Every way out, once begun, comes to its end.
UnwindingEnds ==
  /\ blockPc = "leave" ~> blockPc \in {"run", "ended"}
  /\ blockPc = "jump" ~> blockPc \in {"run", "ended"}
  /\ blockPc = "halt" ~> blockPc = "ended"
=============================================================================
