---------------------------- MODULE ProcessState ----------------------------
(***************************************************************************)
(* The state of a program run from an argument vector (PasProcess), and    *)
(* what must always hold of it.                                            *)
(***************************************************************************)
EXTENDS Integers, FiniteSets

CONSTANTS
  ArgvMax,     \* PASX_ARGV_MAX
  FirstSlots,  \* the slots of a new vector
  PipeSize,    \* bytes a pipe holds
  BufSize,     \* PASX_PROC_BUF
  Codes        \* exit codes

ASSUME ProcessAssumption ==
  /\ ArgvMax \in Nat /\ FirstSlots \in Nat \ {0} /\ PipeSize \in Nat /\ BufSize \in Nat \ {0}
  /\ Codes \cap {"none", "running", "signalled", "reaped"} = {}

VARIABLES
  argv,      \* the vector: words, slots, and whether it has a deadline
  runPc,     \* where the run is
  proc,      \* struct pasx_proc; late: no milliseconds are left
  fds,       \* the parent's ends of the pipe
  shielded,  \* FD_CLOEXEC is set on them
  held,      \* the processes that have the pipe's writing end besides the parent
  pipe,      \* bytes in the pipe
  child,     \* what the child process is
  answer     \* what the run answered

\* Between runs nothing is left of one, however it ended: no descriptor of its
\* pipe, no record and no child that nobody waited for (each failing path of
\* pasx_exec_start closes and frees what it had made); during one its child has
\* not been waited for, so that no signal meets a number that may be another
\* process's by now; and the vector's words and their NULL are inside its array.
NothingLeftBehind ==
  /\ runPc = "idle" => fds = {} /\ ~proc.allocated /\ child \in {"none", "reaped"}
  /\ runPc # "idle" => child # "reaped"
  /\ argv.slots > 0 => argv.words < argv.slots

\* When reading stops before the deadline killed the child, all that was
\* written has been read and no process can write more, descendants and a
\* stranger's child included (pasx_exec_getc answers -1 at the end of it).
ReadToTheEnd ==
  runPc = "close" /\ proc.captured /\ ~proc.killed /\ ~proc.refused =>
    pipe = 0 /\ proc.unread = 0 /\ held = {}
=============================================================================
