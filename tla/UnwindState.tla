----------------------------- MODULE UnwindState -----------------------------
(***************************************************************************)
(* The state of a thread's blocks (runtime/pasrt.c): its activations, the  *)
(* lists of the files, the handles and the deferred statements they own,   *)
(* and what leaving a block must keep true.  PasUnwind has the steps.      *)
(***************************************************************************)
EXTENDS Integers, Sequences, FiniteSets, SequencesExt

CONSTANTS
  Depth,     \* activations that may be live at once
  Cell,      \* heap variables whose type holds a file and a handle
  Value,     \* foreign resources a handle can be given
  Nil

Frame == 1 .. Depth
Owner == Frame \cup Cell
Part == {"file", "handle", "defer"}

ASSUME PasUnwindAssumption ==
  /\ Depth \in Nat \ {0}
  /\ Cell \cap Frame = {} /\ Nil \notin Owner \cup Value

VARIABLES
  depth,                  \* the current activation; 1 is the program's
  declares,               \* what the block of each activation declares
  armed,                  \* its deferred statement is armed
  files, handles, defers, \* pas_open_files, pas_live_handles, pas_live_defers
  mark, hmark, dmark,     \* struct pas_jump of each activation
  active,
  fileUp,                 \* the file variable has been set up, not torn down
  value,                  \* struct pas_handle's value
  opened, closes,         \* foreign resources handed out; closer calls
  heap,                   \* the heap variables that exist
  blockPc, blockTarget    \* what the thread is doing; the jump's destination

frameState == <<depth, declares, mark, hmark, dmark, active>>
lists == <<files, handles, defers>>
slots == <<fileUp, value, opened, closes>>
blockVars == <<frameState, armed, lists, slots, heap, blockPc, blockTarget>>

-----------------------------------------------------------------------------
(* Properties.                                                             *)

\* The slots that exist.
Live(o) == IF o \in Cell THEN o \in heap ELSE o <= depth

\* An armed statement is never forgotten: while it is armed its block is on
\* the list that goto and halt walk, and the block is live.
ArmedIsListed ==
  \A f \in Frame : armed[f] => f <= depth /\ f \in ToSet(defers)

\* No list keeps the address of a slot whose frame is gone or whose heap
\* variable was disposed, and none holds a slot twice: the next walk would
\* follow links in reclaimed storage; and none has lost an armed statement.
ListsHoldLiveSlots ==
  /\ ArmedIsListed
  /\ \A o \in ToSet(files) \cup ToSet(handles) : Live(o)
  /\ \A f \in ToSet(defers) : f <= depth
  /\ IsInjective(files) /\ IsInjective(handles) /\ IsInjective(defers)

\* Whatever moves, overwrites and unwinding do, a resource has one holder
\* until its closer is called, and the closer is called once for it.
ClosedOnce ==
  \A v \in Value :
    /\ closes[v] <= 1
    /\ Cardinality({o \in Owner : value[o] = v}) <= 1 - closes[v]

\* Every armed statement runs before the file of its own block is closed, on
\* each of the three ways out.
DefersSeeTheirBlock ==
  [][\A f \in Frame :
       armed[f] /\ ~armed'[f] /\ "file" \in declares[f] => fileUp[f]]_blockVars

\* "Registered later" and "abandoned" are the same set: a non-local goto
\* leaves the files of the blocks it does not abandon as they were.
LiveFilesUsable ==
  blockPc = "run" => \A f \in 1 .. depth : "file" \in declares[f] => fileUp[f]

\* What no activation holds any more is released, whenever the program runs.
AbandonedIsReleased ==
  blockPc = "run" =>
    \A f \in Frame : f > depth => value[f] = Nil /\ ~fileUp[f] /\ ~armed[f]

\* When the program is over, by halt or by its last end, every resource it
\* opened has been released, but one in a heap variable it never disposed of;
\* and a jump that lands has released everything of the blocks it abandoned.
NothingLeftOpen ==
  /\ blockPc = "ended" => \A v \in opened : closes[v] = 1 \/ \E c \in heap : value[c] = v
  /\ AbandonedIsReleased
=============================================================================
