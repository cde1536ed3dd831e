------------------------------ MODULE ExitState ------------------------------
(***************************************************************************)
(* The state of a process on its way out (PasExit), and what must always   *)
(* hold of it.                                                             *)
(***************************************************************************)
EXTENDS Sequences, SequencesExt

CONSTANTS
  Tasks,     \* threads besides Program
  Program,
  Measures   \* of pas_cov_dump, pas_br_dump, pas_heap_dump, the ones asked for

ASSUME ExitAssumption == Program \notin Tasks /\ {"terminal", "none"} \cap Measures = {}

VARIABLES
  threadPc,  \* where each thread is
  arming,    \* the measure each thread is about to register, or "none"
  flags,     \* pas_cov_armed, pas_br_armed, pas_heap_armed: the measures whose flag is set
  raced,     \* history: the measures two threads found unarmed before either set the flag
  leaving,   \* the flag pas_leaving
  handlers,  \* registered with atexit and not yet run, the last first
  written,   \* the measures written at exit
  alive,     \* the process
  tty,       \* the terminal's settings: "cooked" or "raw"
  saved,     \* pasx_term_saved
  savedFd,   \* pasx_term_saved_fd >= 0
  termArmed, \* pasx_term_atexit_done
  spoilt     \* history: the system refused to give the terminal back or to register
             \* the handler, or pasx_term_raw was entered or went on during exit

Thread == Tasks \cup {Program}

\* In exit, and there perhaps in the midst of pasx_term_at_exit.
Exiting(t) == threadPc[t] \in {"exit", "exitFound", "exitEmptied"}

\* A second thread left during the first one's shutdown.
Cut == \E t \in Thread : threadPc[t] = "cut"

\* The process is ended between two steps of pasx_term_raw or
\* pasx_term_restore: the terminal is raw, and what it was is not marked as
\* saved yet, no handler is registered yet, or it is marked no longer.
Midway == threadPc[Program] \in {"raw", "marked", "emptied"}

\* When the process is over, and no second thread cut its shutdown short, every
\* handler has run; the terminal is as it was found, unless the system refused
\* it or the process ended midway through a change; and every measure whose flag
\* is set was written, but for one whose thread had still to register it ("halt,
\* a runtime error and a return from the main program block all reach `exit`").
\* A measure is written twice only if two threads found its flag unset before
\* either had set it.  And two threads are never both in exit.
EndsInOrder ==
  /\ ~alive /\ ~Cut =>
       /\ handlers = <<>>
       /\ tty = "cooked" \/ spoilt \/ Midway
       /\ \A m \in flags : \/ m \in ToSet(written)
                           \/ \E t \in Thread : threadPc[t] = "flagged" /\ arming[t] = m
  /\ \A i, j \in DOMAIN written : written[i] = written[j] => i = j \/ written[i] \in raced
  /\ \A t, u \in Thread : Exiting(t) /\ Exiting(u) => t = u
=============================================================================
