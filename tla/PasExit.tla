------------------------------- MODULE PasExit -------------------------------
(***************************************************************************)
(* How the process ends: a runtime error in any thread, halt, or the end   *)
(* of the main program; pas_exit_once (runtime/pasrt.c), and what was      *)
(* registered to run at exit: the measures of coverage and of the heap,    *)
(* and giving the terminal back (runtime/pasrt_posix.c).                   *)
(*                                                                         *)
(* Only pas_leaving is atomic.  The other flags are plain variables, read  *)
(* and written by every thread: each read and each write of one is a step. *)
(*                                                                         *)
(* One thread, Program, drives the terminal, as the single slot for its    *)
(* settings requires; whichever thread is in exit gives it back.           *)
(***************************************************************************)
EXTENDS ExitState

measures == <<arming, flags, raced>>
terminal == <<tty, saved, savedFd, termArmed, spoilt>>
vars == <<threadPc, measures, leaving, handlers, written, alive, terminal>>

Init ==
  /\ threadPc = [t \in Thread |-> "run"] /\ arming = [t \in Thread |-> "none"]
  /\ flags = {} /\ raced = {} /\ leaving = FALSE /\ handlers = <<>> /\ written = <<>>
  /\ alive = TRUE
  /\ tty = "cooked" /\ saved = "none" /\ savedFd = FALSE /\ termArmed = FALSE /\ spoilt = FALSE

Goto(t, l) == threadPc' = [threadPc EXCEPT ![t] = l]
Shutdown == \E t \in Thread : Exiting(t)

-----------------------------------------------------------------------------
(* Entering raw mode.                                                      *)

\* pasx_term_raw: refused when raw mode is entered already; the settings are
\* read into the slot.  tcgetattr may refuse, which changes nothing.
pasx_term_raw ==
  /\ threadPc[Program] = "run" /\ ~savedFd /\ Goto(Program, "got")
  /\ saved' = tty /\ spoilt' = (spoilt \/ Shutdown)
  /\ UNCHANGED <<measures, leaving, handlers, written, alive, tty, savedFd, termArmed>>

\* tcsetattr makes the terminal raw, or refuses.
SetRaw(done) ==
  /\ threadPc[Program] = "got" /\ Goto(Program, IF done THEN "raw" ELSE "run")
  /\ tty' = IF done THEN "raw" ELSE tty
  /\ spoilt' = (spoilt \/ Shutdown)
  /\ UNCHANGED <<measures, leaving, handlers, written, alive, saved, savedFd, termArmed>>

\* The slot is marked, and the handler registered if that was not done before.
MutantMarkSaved ==
  /\ threadPc[Program] = "raw" /\ Goto(Program, "run")
  /\ savedFd' = TRUE /\ spoilt' = (spoilt \/ Shutdown)
  /\ UNCHANGED <<measures, leaving, handlers, written, alive, tty, saved, termArmed>>
MarkSaved ==
  /\ threadPc[Program] = "raw" /\ Goto(Program, IF termArmed THEN "run" ELSE "marked")
  /\ savedFd' = TRUE /\ spoilt' = (spoilt \/ Shutdown)
  /\ UNCHANGED <<measures, leaving, handlers, written, alive, tty, saved, termArmed>>
RegisterRestore(done) ==
  /\ threadPc[Program] = "marked" /\ Goto(Program, "run")
  /\ handlers' = IF done THEN <<"terminal">> \o handlers ELSE handlers
  /\ termArmed' = done
  /\ spoilt' = (spoilt \/ Shutdown \/ ~done)
  /\ UNCHANGED <<measures, leaving, written, alive, tty, saved, savedFd>>

-----------------------------------------------------------------------------
(* Giving the terminal back: pasx_term_restore, and pasx_term_at_exit,     *)
(* which is called by exit.                                                *)

pasx_term_restore ==
  /\ threadPc[Program] = "run" /\ savedFd /\ Goto(Program, "found")
  /\ UNCHANGED <<measures, leaving, handlers, written, alive, terminal>>
pasx_term_at_exit(t) ==
  /\ threadPc[t] = "exit" /\ handlers # <<>> /\ Head(handlers) = "terminal"
  /\ handlers' = Tail(handlers)
  /\ Goto(t, IF savedFd THEN "exitFound" ELSE "exit")
  /\ UNCHANGED <<measures, leaving, written, alive, terminal>>

\* The slot is emptied first, and the settings put back then, which the system
\* may refuse.
EmptySlot(t) ==
  /\ \/ threadPc[t] = "found" /\ Goto(t, "emptied")
     \/ threadPc[t] = "exitFound" /\ Goto(t, "exitEmptied")
  /\ savedFd' = FALSE
  /\ UNCHANGED <<measures, leaving, handlers, written, alive, tty, saved, termArmed, spoilt>>
PutBack(t, done) ==
  /\ \/ threadPc[t] = "emptied" /\ Goto(t, "run")
     \/ threadPc[t] = "exitEmptied" /\ Goto(t, "exit")
  /\ tty' = IF done THEN saved ELSE tty
  /\ spoilt' = (spoilt \/ ~done)
  /\ UNCHANGED <<measures, leaving, handlers, written, alive, saved, savedFd, termArmed>>

-----------------------------------------------------------------------------
(* Measuring: pas_cov_hit, pas_cov_branch and pas_new register their       *)
(* measure when they find its flag unset: the flag is read, set, and       *)
(* atexit is called.                                                       *)

ReadFlag(t, m) ==
  /\ threadPc[t] = "run" /\ m \notin flags
  /\ Goto(t, "tested") /\ arming' = [arming EXCEPT ![t] = m]
  /\ raced' = IF \E u \in Thread : threadPc[u] = "tested" /\ arming[u] = m
                THEN raced \cup {m} ELSE raced
  /\ UNCHANGED <<flags, leaving, handlers, written, alive, terminal>>
SetFlag(t) ==
  /\ threadPc[t] = "tested" /\ Goto(t, "flagged") /\ flags' = flags \cup {arming[t]}
  /\ UNCHANGED <<arming, raced, leaving, handlers, written, alive, terminal>>
Register(t) ==
  /\ threadPc[t] = "flagged" /\ Goto(t, "run")
  /\ handlers' = <<arming[t]>> \o handlers /\ arming' = [arming EXCEPT ![t] = "none"]
  /\ UNCHANGED <<flags, raced, leaving, written, alive, terminal>>

-----------------------------------------------------------------------------
(* Leaving.                                                                *)

\* A runtime error has written its message, or halt has released everything.
Leave(t) ==
  /\ threadPc[t] = "run" /\ Goto(t, "leave")
  /\ UNCHANGED <<measures, leaving, handlers, written, alive, terminal>>

\* The first through owns the shutdown; a second ends the process at once.
pas_exit_once(t) ==
  /\ threadPc[t] = "leave" /\ leaving' = TRUE
  /\ Goto(t, IF leaving THEN "cut" ELSE "exit") /\ alive' = ~leaving
  /\ UNCHANGED <<measures, handlers, written, terminal>>

\* exit: the handlers, the last registered first, and then the end.
Dump(t) ==
  /\ threadPc[t] = "exit" /\ handlers # <<>> /\ Head(handlers) # "terminal"
  /\ handlers' = Tail(handlers) /\ written' = Append(written, Head(handlers))
  /\ UNCHANGED <<threadPc, measures, leaving, alive, terminal>>
Exit(t) ==
  /\ threadPc[t] = "exit" /\ handlers = <<>> /\ alive' = FALSE
  /\ UNCHANGED <<threadPc, measures, leaving, handlers, written, terminal>>

\* A task ends; the main program returns when it has joined every task, and
\* leaves by exit without asking the flag.
EndTask(t) ==
  /\ t \in Tasks /\ threadPc[t] = "run" /\ Goto(t, "over")
  /\ UNCHANGED <<measures, leaving, handlers, written, alive, terminal>>
ProgramReturns ==
  /\ threadPc[Program] = "run" /\ (\A t \in Tasks : threadPc[t] = "over") /\ Goto(Program, "exit")
  /\ UNCHANGED <<measures, leaving, handlers, written, alive, terminal>>

-----------------------------------------------------------------------------
OfThread(t) ==
  \/ Leave(t) \/ pas_exit_once(t) \/ Dump(t) \/ Exit(t) \/ EndTask(t)
  \/ (\E m \in Measures : ReadFlag(t, m)) \/ SetFlag(t) \/ Register(t)
  \/ pasx_term_at_exit(t) \/ EmptySlot(t) \/ \E done \in BOOLEAN : PutBack(t, done)
OfTerminal ==
  \/ pasx_term_raw \/ MarkSaved \/ pasx_term_restore
  \/ \E done \in BOOLEAN : SetRaw(done) \/ RegisterRestore(done)

Next == alive /\ (ProgramReturns \/ OfTerminal \/ \E t \in Thread : OfThread(t))
Spec == Init /\ [][Next]_vars
=============================================================================
