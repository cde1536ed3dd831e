--------------------------- MODULE PasPosixProofs ---------------------------
(***************************************************************************)
(* Proofs about the process and what it has of the system: how it ends,    *)
(* the programs it runs, and its connections.                              *)
(*                                                                         *)
(* PasExit, for every set of threads and of measures: one thread at most   *)
(* is in exit, no handler is lost, and a process that ends in              *)
(* order gives the terminal back.                                          *)
(*                                                                         *)
(* PasProcess, for every bound of a vector, every size of a pipe and of    *)
(* the buffer, and every set of exit codes: a run leaves nothing behind,   *)
(* however it ends, and the end of a child's output is answered only when  *)
(* all of it was read.                                                     *)
(*                                                                         *)
(* PasSocket, for every set of streams, every size of the buffer and every *)
(* capacity: the buffer holds exactly the bytes of the stream that were    *)
(* taken and not answered for yet, from which it follows that a wait       *)
(* sleeps over nothing and that the lines answered are those of the        *)
(* stream.                                                                 *)
(***************************************************************************)
EXTENDS PasSocket, ProcessState, ExitState, TLAPS, SequenceTheorems, WellFoundedInduction

P == INSTANCE PasProcess
X == INSTANCE PasExit

-----------------------------------------------------------------------------
(* The end of the process.                                                 *)

ExitPlace == {"exit", "exitFound", "exitEmptied"}
ArmPlace == {"tested", "flagged"}
TerminalPlace == {"got", "raw", "marked", "found", "emptied"}
Place == ExitPlace \cup ArmPlace \cup TerminalPlace \cup {"run", "leave", "over", "cut"}
Known == Measures \cup {"terminal"}

ExitTypes ==
  /\ threadPc \in [X!Thread -> Place] /\ arming \in [X!Thread -> Measures \cup {"none"}]
  /\ (\A t \in X!Thread : threadPc[t] \in ArmPlace => arming[t] \in Measures)
  /\ (\A t \in Tasks : threadPc[t] \notin TerminalPlace)
  /\ leaving \in BOOLEAN /\ alive \in BOOLEAN
  /\ handlers \in Seq(Known) /\ written \in Seq(Measures)
  /\ savedFd \in BOOLEAN /\ termArmed \in BOOLEAN /\ spoilt \in BOOLEAN

\* The flag is set by the one thread that is in exit; without it exit is the
\* main program's return, and every task is over.
OneExit ==
  /\ \A t, u \in X!Thread : threadPc[t] \in ExitPlace /\ threadPc[u] \in ExitPlace => t = u
  /\ leaving => X!Shutdown
  /\ X!Shutdown /\ ~leaving =>
       threadPc[Program] \in ExitPlace /\ \A t \in Tasks : threadPc[t] = "over"

\* What is so of a measure.  Its flag is set before it is registered, and once it
\* is set the measure is registered, written, or about to be registered.  Unless
\* two threads raced for the flag, one thread at most is about to register it,
\* and the measure is in one place.
Arms(t, m) == threadPc[t] \in ArmPlace /\ arming[t] = m
Listed(m) == m \in ToSet(handlers) \/ m \in ToSet(written)
MeasureKept(m) ==
  /\ m \notin flags => ~Listed(m) /\ \A t \in X!Thread : Arms(t, m) => threadPc[t] = "tested"
  /\ m \in flags => Listed(m) \/ \E t \in X!Thread : threadPc[t] = "flagged" /\ arming[t] = m
  /\ m \notin raced =>
       /\ \A t, u \in X!Thread : Arms(t, m) /\ Arms(u, m) => t = u
       /\ \A t \in X!Thread : Arms(t, m) => ~Listed(m) /\ (threadPc[t] = "tested" => m \notin flags)
       /\ ~(m \in ToSet(handlers) /\ m \in ToSet(written))
MeasuresKept == flags \subseteq Measures /\ \A m \in Measures : MeasureKept(m)

\* Nothing is twice in a sequence, but for the members of a set.
OnceBut(s, R) == \A i, j \in DOMAIN s : s[i] = s[j] => i = j \/ s[i] \in R
RunOnce == OnceBut(handlers, raced \cup {"terminal"}) /\ OnceBut(written, raced)

\* The handler that gives the terminal back is registered, until exit runs it.
HandlerKept == termArmed /\ ~X!Shutdown => "terminal" \in ToSet(handlers)

\* While nothing has gone wrong with the terminal, a raw one is being entered or
\* left, or its old settings are kept; and whoever is about to put settings back,
\* or may have to, has those.  While the slot is marked a handler will put them
\* back, is about to be registered, or is at it.
ExitFound == \E t \in X!Thread : threadPc[t] = "exitFound"
ExitEmptied == \E t \in X!Thread : threadPc[t] = "exitEmptied"
TerminalKept ==
  ~spoilt =>
    /\ tty = "cooked" \/ savedFd \/ threadPc[Program] \in {"raw", "emptied"} \/ ExitEmptied
    /\ savedFd \/ threadPc[Program] \in TerminalPlace \/ ExitFound \/ ExitEmptied => saved = "cooked"
    /\ savedFd => "terminal" \in ToSet(handlers) \/ threadPc[Program] = "marked" \/ ExitFound

\* How the process came to its end.
DeadInOrder ==
  ~alive /\ ~X!Cut =>
    /\ handlers = <<>>
    /\ tty = "cooked" \/ spoilt \/ threadPc[Program] \in {"raw", "marked", "emptied"}

ExitInv ==
  /\ ExitTypes /\ OneExit /\ MeasuresKept /\ RunOnce
  /\ HandlerKept /\ TerminalKept /\ DeadInOrder

-----------------------------------------------------------------------------
(* Sequences with little repetition.                                       *)

LEMMA EmptyOnce == ASSUME NEW R PROVE OnceBut(<<>>, R) /\ ToSet(<<>>) = {}
BY DEF OnceBut, ToSet

LEMMA OnceGrows ==
  ASSUME NEW S, NEW s \in Seq(S), NEW R, NEW Q, R \subseteq Q, OnceBut(s, R)
  PROVE  OnceBut(s, Q)
BY DEF OnceBut

LEMMA ConsIs ==
  ASSUME NEW S, NEW s \in Seq(S), NEW e \in S, NEW R
  PROVE  /\ <<e>> \o s \in Seq(S) /\ ToSet(<<e>> \o s) = ToSet(s) \cup {e}
         /\ OnceBut(s, R) /\ (e \in R \/ e \notin ToSet(s)) => OnceBut(<<e>> \o s, R)
<1> DEFINE c == <<e>> \o s
<1>1. /\ c \in Seq(S) /\ Len(c) = Len(s) + 1 /\ Len(s) \in Nat /\ c[1] = e
      /\ \A i \in 1 .. Len(s) : c[i + 1] = s[i]
      /\ DOMAIN c = 1 .. Len(s) + 1 /\ DOMAIN s = 1 .. Len(s)
  OBVIOUS
<1> HIDE DEF c
<1>2. \A i \in 1 .. Len(s) + 1 : i = 1 \/ (i - 1 \in 1 .. Len(s) /\ c[i] = s[i - 1])
  BY <1>1
<1>3. ToSet(c) = ToSet(s) \cup {e}
  <2>1. ASSUME NEW x \in ToSet(c) PROVE x \in ToSet(s) \cup {e}
    <3>1. PICK i \in 1 .. Len(s) + 1 : x = c[i]
      BY <1>1 DEF ToSet
    <3>2. CASE i = 1
      BY <1>1, <3>1, <3>2
    <3>3. CASE i - 1 \in 1 .. Len(s) /\ c[i] = s[i - 1]
      BY <1>1, <3>1, <3>3 DEF ToSet
    <3> QED BY <1>2, <3>2, <3>3
  <2>2. ASSUME NEW x \in ToSet(s) PROVE x \in ToSet(c)
    <3>1. PICK i \in 1 .. Len(s) : x = s[i]
      BY <1>1 DEF ToSet
    <3>2. i + 1 \in DOMAIN c /\ c[i + 1] = x
      BY <1>1, <3>1
    <3> QED BY <3>2 DEF ToSet
  <2>3. e \in ToSet(c)
    <3>1. 1 \in DOMAIN c
      BY <1>1
    <3> QED BY <1>1, <3>1 DEF ToSet
  <2> QED BY <2>1, <2>2, <2>3
<1>4. ASSUME OnceBut(s, R), e \in R \/ e \notin ToSet(s) PROVE OnceBut(c, R)
  <2>1. \A i, j \in 1 .. Len(s) : s[i] = s[j] => i = j \/ s[i] \in R
    BY <1>1, <1>4 DEF OnceBut
  <2>2. \A i \in 1 .. Len(s) : s[i] = e => e \in R
    BY <1>1, <1>4 DEF ToSet
  <2>3. ASSUME NEW i \in 1 .. Len(s) + 1, NEW j \in 1 .. Len(s) + 1, c[i] = c[j]
        PROVE  i = j \/ c[i] \in R
    <3>1. CASE i = 1 /\ j = 1
      BY <3>1
    <3>2. CASE i = 1 /\ j # 1
      BY <1>1, <1>2, <2>2, <2>3, <3>2
    <3>3. CASE i # 1 /\ j = 1
      BY <1>1, <1>2, <2>2, <2>3, <3>3
    <3>4. CASE i # 1 /\ j # 1
      <4>1. /\ i - 1 \in 1 .. Len(s) /\ j - 1 \in 1 .. Len(s) /\ s[i - 1] = s[j - 1]
            /\ c[i] = s[i - 1]
        BY <1>2, <2>3, <3>4
      <4>2. i - 1 = j - 1 \/ s[i - 1] \in R
        BY <2>1, <4>1
      <4> QED BY <4>1, <4>2, <1>1
    <3> QED BY <3>1, <3>2, <3>3, <3>4
  <2> QED BY <1>1, <2>3 DEF OnceBut
<1> QED BY <1>1, <1>3, <1>4 DEF c

LEMMA TailIs ==
  ASSUME NEW S, NEW s \in Seq(S), s # <<>>, NEW R, OnceBut(s, R)
  PROVE  /\ Tail(s) \in Seq(S) /\ OnceBut(Tail(s), R) /\ Head(s) \in S
         /\ ToSet(s) = ToSet(Tail(s)) \cup {Head(s)}
         /\ Head(s) \notin R => Head(s) \notin ToSet(Tail(s))
<1>1. /\ Len(s) \in Nat /\ Len(s) > 0 /\ Tail(s) \in Seq(S) /\ Len(Tail(s)) = Len(s) - 1
      /\ \A i \in 1 .. Len(s) - 1 : Tail(s)[i] = s[i + 1]
      /\ DOMAIN s = 1 .. Len(s) /\ DOMAIN Tail(s) = 1 .. Len(s) - 1 /\ Head(s) = s[1]
      /\ 1 \in DOMAIN s
  OBVIOUS
<1>2. \A i, j \in 1 .. Len(s) : s[i] = s[j] => i = j \/ s[i] \in R
  BY <1>1 DEF OnceBut
<1>3. OnceBut(Tail(s), R)
  <2>1. ASSUME NEW i \in 1 .. Len(s) - 1, NEW j \in 1 .. Len(s) - 1, Tail(s)[i] = Tail(s)[j]
        PROVE  i = j \/ Tail(s)[i] \in R
    <3>1. i + 1 \in 1 .. Len(s) /\ j + 1 \in 1 .. Len(s) /\ s[i + 1] = s[j + 1]
      BY <1>1, <2>1
    <3>2. i + 1 = j + 1 \/ s[i + 1] \in R
      BY <1>2, <3>1
    <3> QED BY <1>1, <3>2
  <2> QED BY <1>1, <2>1 DEF OnceBut
<1>4. Head(s) \in S /\ Head(s) \in ToSet(s)
  BY <1>1 DEF ToSet
<1>5. ASSUME NEW x \in ToSet(Tail(s)) PROVE x \in ToSet(s) /\ (x \in R \/ x # Head(s))
  <2>1. PICK i \in 1 .. Len(s) - 1 : x = s[i + 1]
    BY <1>1 DEF ToSet
  <2>2. i + 1 \in DOMAIN s /\ i + 1 # 1 /\ i + 1 \in 1 .. Len(s) /\ 1 \in 1 .. Len(s)
    BY <1>1
  <2>3. x = s[1] => x \in R
    BY <1>2, <2>1, <2>2
  <2> QED BY <1>1, <2>1, <2>2, <2>3 DEF ToSet
<1>6. ASSUME NEW x \in ToSet(s) PROVE x \in ToSet(Tail(s)) \/ x = Head(s)
  <2>1. PICK i \in 1 .. Len(s) : x = s[i]
    BY <1>1 DEF ToSet
  <2>2. CASE i = 1
    BY <1>1, <2>1, <2>2
  <2>3. CASE i # 1
    <3>1. i - 1 \in 1 .. Len(s) - 1 /\ Tail(s)[i - 1] = x
      BY <1>1, <2>1, <2>3
    <3> QED BY <1>1, <3>1 DEF ToSet
  <2> QED BY <2>2, <2>3
<1> QED BY <1>1, <1>3, <1>4, <1>5, <1>6

LEMMA AppendIs ==
  ASSUME NEW S, NEW s \in Seq(S), NEW e \in S, NEW R
  PROVE  /\ Append(s, e) \in Seq(S) /\ ToSet(Append(s, e)) = ToSet(s) \cup {e}
         /\ OnceBut(s, R) /\ (e \in R \/ e \notin ToSet(s)) => OnceBut(Append(s, e), R)
<1> DEFINE c == Append(s, e)
<1>1. /\ c \in Seq(S) /\ Len(s) \in Nat /\ c[Len(s) + 1] = e
      /\ \A i \in 1 .. Len(s) : c[i] = s[i]
      /\ DOMAIN c = 1 .. Len(s) + 1 /\ DOMAIN s = 1 .. Len(s)
  OBVIOUS
<1> HIDE DEF c
<1>2. \A i \in 1 .. Len(s) + 1 : i = Len(s) + 1 \/ i \in 1 .. Len(s)
  BY <1>1
<1>3. ToSet(c) = ToSet(s) \cup {e}
  <2>1. ASSUME NEW x \in ToSet(c) PROVE x \in ToSet(s) \cup {e}
    BY <1>1, <1>2 DEF ToSet
  <2>2. ASSUME NEW x \in ToSet(s) PROVE x \in ToSet(c)
    <3>1. PICK i \in 1 .. Len(s) : x = s[i]
      BY <1>1 DEF ToSet
    <3>2. i \in DOMAIN c /\ c[i] = x
      BY <1>1, <3>1
    <3> QED BY <3>2 DEF ToSet
  <2>3. e \in ToSet(c)
    <3>1. Len(s) + 1 \in DOMAIN c
      BY <1>1
    <3> QED BY <1>1, <3>1 DEF ToSet
  <2> QED BY <2>1, <2>2, <2>3
<1>4. ASSUME OnceBut(s, R), e \in R \/ e \notin ToSet(s) PROVE OnceBut(c, R)
  <2>1. \A i, j \in 1 .. Len(s) : s[i] = s[j] => i = j \/ s[i] \in R
    BY <1>1, <1>4 DEF OnceBut
  <2>2. \A i \in 1 .. Len(s) : s[i] = e => e \in R
    BY <1>1, <1>4 DEF ToSet
  <2>3. ASSUME NEW i \in 1 .. Len(s) + 1, NEW j \in 1 .. Len(s) + 1, c[i] = c[j]
        PROVE  i = j \/ c[i] \in R
    BY <1>1, <1>2, <2>1, <2>2, <2>3
  <2> QED BY <1>1, <2>3 DEF OnceBut
<1> QED BY <1>1, <1>3, <1>4 DEF c

-----------------------------------------------------------------------------
(* What a step leaves as it is.                                            *)

\* A thread goes somewhere.
LEMMA GoesTo ==
  ASSUME ExitInv, NEW t \in X!Thread, NEW l \in Place, threadPc' = [threadPc EXCEPT ![t] = l]
  PROVE  /\ threadPc' \in [X!Thread -> Place]
         /\ threadPc'[t] = l /\ \A u \in X!Thread : u # t => threadPc'[u] = threadPc[u]
BY DEF ExitInv, ExitTypes

\* The exits are as they were.
LEMMA ExitsStay ==
  ASSUME ExitInv, leaving' = leaving,
         \A u \in X!Thread : threadPc'[u] \in ExitPlace <=> threadPc[u] \in ExitPlace,
         \A u \in X!Thread : threadPc[u] = "over" => threadPc'[u] = "over"
  PROVE  OneExit' /\ (X!Shutdown' <=> X!Shutdown)
<1>1. X!Shutdown' <=> X!Shutdown
  BY DEF X!Shutdown, X!Exiting, ExitPlace
<1>2. Program \in X!Thread /\ \A u \in Tasks : u \in X!Thread
  BY DEF X!Thread
<1> QED BY <1>1, <1>2 DEF ExitInv, OneExit

\* The measures are where they were.
LEMMA MeasuresStay ==
  ASSUME ExitInv, UNCHANGED <<X!measures, written>>,
         \A m \in Measures : m \in ToSet(handlers') <=> m \in ToSet(handlers),
         \A u \in X!Thread : threadPc'[u] = threadPc[u]
                               \/ (threadPc'[u] \notin ArmPlace /\ threadPc[u] \notin ArmPlace)
  PROVE  MeasuresKept'
<1>1. flags' = flags /\ raced' = raced /\ arming' = arming /\ written' = written
  BY DEF X!measures
<1>2. ASSUME NEW m \in Measures PROVE MeasureKept(m)'
  <2>1. Listed(m)' <=> Listed(m)
    BY <1>1 DEF Listed
  <2>2. ASSUME NEW u \in X!Thread
        PROVE  /\ Arms(u, m)' <=> Arms(u, m)
               /\ Arms(u, m) => threadPc'[u] = threadPc[u]
               /\ threadPc'[u] = "flagged" <=> threadPc[u] = "flagged"
               /\ arming'[u] = arming[u]
    BY <1>1, <2>2 DEF Arms, ArmPlace
  <2>3. MeasureKept(m)
    BY DEF ExitInv, MeasuresKept
  <2>4. (m \notin flags => ~Listed(m) /\ \A t \in X!Thread : Arms(t, m) => threadPc[t] = "tested")'
    BY <1>1, <2>1, <2>2, <2>3 DEF MeasureKept
  <2>5. (m \in flags => Listed(m) \/ \E t \in X!Thread : threadPc[t] = "flagged" /\ arming[t] = m)'
    BY <1>1, <2>1, <2>2, <2>3 DEF MeasureKept
  <2>6. (m \notin raced =>
           /\ \A t, u \in X!Thread : Arms(t, m) /\ Arms(u, m) => t = u
           /\ \A t \in X!Thread : Arms(t, m) => ~Listed(m) /\ (threadPc[t] = "tested" => m \notin flags)
           /\ ~(m \in ToSet(handlers) /\ m \in ToSet(written)))'
    BY <1>1, <2>1, <2>2, <2>3 DEF MeasureKept
  <2> QED BY <2>4, <2>5, <2>6 DEF MeasureKept
<1> QED BY <1>1, <1>2 DEF ExitInv, MeasuresKept

\* The terminal is as it was.
LEMMA TerminalStays ==
  ASSUME ExitInv, UNCHANGED X!terminal,
         threadPc'[Program] = threadPc[Program]
           \/ (threadPc'[Program] \notin TerminalPlace /\ threadPc[Program] \notin TerminalPlace),
         \A u \in X!Thread : threadPc'[u] \in {"exitFound", "exitEmptied"} \/ threadPc[u] \in {"exitFound", "exitEmptied"}
                               => threadPc'[u] = threadPc[u],
         "terminal" \in ToSet(handlers) => "terminal" \in ToSet(handlers')
  PROVE  TerminalKept'
<1>1. tty' = tty /\ saved' = saved /\ savedFd' = savedFd /\ spoilt' = spoilt
  BY DEF X!terminal
<1>2. (ExitFound' <=> ExitFound) /\ (ExitEmptied' <=> ExitEmptied)
  BY DEF ExitFound, ExitEmptied
<1>3. /\ threadPc'[Program] \in TerminalPlace <=> threadPc[Program] \in TerminalPlace
      /\ threadPc'[Program] \in {"raw", "emptied"} <=> threadPc[Program] \in {"raw", "emptied"}
      /\ threadPc'[Program] = "marked" <=> threadPc[Program] = "marked"
  BY DEF TerminalPlace
<1> QED BY <1>1, <1>2, <1>3 DEF ExitInv, TerminalKept

-----------------------------------------------------------------------------
(* One step.                                                               *)

LEMMA InitExitInv == X!Init => ExitInv
<1> SUFFICES ASSUME X!Init PROVE ExitInv
  OBVIOUS
<1>1. /\ handlers = <<>> /\ written = <<>> /\ handlers \in Seq(Known) /\ written \in Seq(Measures)
      /\ Program \in X!Thread /\ \A t \in Tasks : t \in X!Thread
      /\ \A t \in X!Thread : threadPc[t] = "run" /\ arming[t] = "none"
      /\ flags = {} /\ raced = {} /\ leaving = FALSE /\ alive = TRUE
      /\ tty = "cooked" /\ savedFd = FALSE /\ termArmed = FALSE /\ spoilt = FALSE
  BY DEF X!Init, X!Thread
<1>2. ExitTypes
  <2>1. threadPc \in [X!Thread -> Place] /\ arming \in [X!Thread -> Measures \cup {"none"}]
    BY DEF X!Init, Place
  <2> QED BY <1>1, <2>1 DEF ExitTypes, ArmPlace, TerminalPlace
<1>3. OneExit /\ ~X!Shutdown
  BY <1>1 DEF OneExit, X!Shutdown, X!Exiting, ExitPlace
<1>4. ToSet(handlers) = {} /\ ToSet(written) = {} /\ RunOnce
  BY <1>1, EmptyOnce DEF RunOnce
<1>5. MeasuresKept
  BY <1>1, <1>4 DEF MeasuresKept, MeasureKept, Listed, Arms, ArmPlace
<1>6. HandlerKept /\ TerminalKept /\ DeadInOrder
  BY <1>1 DEF HandlerKept, TerminalKept, DeadInOrder, TerminalPlace, ExitFound, ExitEmptied
<1> QED BY <1>2, <1>3, <1>4, <1>5, <1>6 DEF ExitInv

\* A step of Program in pasx_term_raw or pasx_term_restore.
LEMMA ProgramSteps ==
  ASSUME ExitInv, alive, NEW l \in TerminalPlace \cup {"run"},
         threadPc[Program] \in TerminalPlace \cup {"run"},
         threadPc' = [threadPc EXCEPT ![Program] = l],
         UNCHANGED <<X!measures, leaving, written, alive>>,
         handlers' = handlers \/ handlers' = <<"terminal">> \o handlers,
         savedFd' \in BOOLEAN, termArmed' \in BOOLEAN, spoilt' \in BOOLEAN
  PROVE  /\ ExitTypes' /\ OneExit' /\ MeasuresKept' /\ RunOnce' /\ DeadInOrder'
         /\ X!Shutdown' <=> X!Shutdown
         /\ threadPc'[Program] = l /\ (ExitFound' <=> ExitFound) /\ (ExitEmptied' <=> ExitEmptied)
<1>1. Program \in X!Thread /\ (\A u \in Tasks : u \in X!Thread /\ u # Program)
  BY ExitAssumption DEF X!Thread
<1>2. /\ threadPc' \in [X!Thread -> Place] /\ threadPc'[Program] = l
      /\ \A u \in X!Thread : u # Program => threadPc'[u] = threadPc[u]
  <2>1. l \in Place
    BY DEF Place
  <2> QED BY <1>1, <2>1, GoesTo
<1>3. /\ leaving' = leaving /\ written' = written /\ alive' = alive
      /\ arming' = arming /\ flags' = flags /\ raced' = raced
  BY DEF X!measures
<1>4. /\ threadPc[Program] \notin ArmPlace /\ l \notin ArmPlace
      /\ threadPc[Program] \notin ExitPlace /\ l \notin ExitPlace /\ threadPc[Program] # "over"
  BY DEF ArmPlace, ExitPlace, TerminalPlace
<1>5. /\ handlers' \in Seq(Known) /\ OnceBut(handlers', raced \cup {"terminal"})
      /\ ToSet(handlers') \ {"terminal"} = ToSet(handlers) \ {"terminal"}
  <2>1. CASE handlers' = handlers
    BY <2>1 DEF ExitInv, ExitTypes, RunOnce
  <2>2. CASE handlers' = <<"terminal">> \o handlers
    <3>1. /\ "terminal" \in Known /\ handlers \in Seq(Known) /\ "terminal" \in raced \cup {"terminal"}
          /\ OnceBut(handlers, raced \cup {"terminal"})
      BY DEF Known, ExitInv, ExitTypes, RunOnce
    <3> QED BY <2>2, <3>1, ConsIs
  <2> QED BY <2>1, <2>2
<1>6. ExitTypes'
  <2>1. \A t \in X!Thread : threadPc'[t] \in ArmPlace => arming'[t] \in Measures
    BY <1>2, <1>3, <1>4 DEF ExitInv, ExitTypes
  <2>2. \A t \in Tasks : threadPc'[t] \notin TerminalPlace
    BY <1>1, <1>2 DEF ExitInv, ExitTypes
  <2> QED BY <1>2, <1>3, <1>5, <2>1, <2>2 DEF ExitInv, ExitTypes
<1>7. OneExit' /\ (X!Shutdown' <=> X!Shutdown)
  <2>1. \A u \in X!Thread : threadPc'[u] \in ExitPlace <=> threadPc[u] \in ExitPlace
    BY <1>2, <1>4
  <2>2. \A u \in X!Thread : threadPc[u] = "over" => threadPc'[u] = "over"
    BY <1>2, <1>4
  <2> QED BY <1>3, <2>1, <2>2, ExitsStay
<1>8. MeasuresKept'
  <2>1. \A m \in Measures : m \in ToSet(handlers') <=> m \in ToSet(handlers)
    BY <1>5, ExitAssumption
  <2>2. \A u \in X!Thread : threadPc'[u] = threadPc[u]
                              \/ (threadPc'[u] \notin ArmPlace /\ threadPc[u] \notin ArmPlace)
    BY <1>2, <1>4
  <2> QED BY <2>1, <2>2, MeasuresStay
<1>9. RunOnce' /\ DeadInOrder'
  BY <1>3, <1>5 DEF ExitInv, RunOnce, DeadInOrder
<1>10. (ExitFound' <=> ExitFound) /\ (ExitEmptied' <=> ExitEmptied)
  <2>1. \A u \in X!Thread : /\ threadPc'[u] = "exitFound" <=> threadPc[u] = "exitFound"
                            /\ threadPc'[u] = "exitEmptied" <=> threadPc[u] = "exitEmptied"
    BY <1>2, <1>4 DEF ExitPlace
  <2> QED BY <2>1 DEF ExitFound, ExitEmptied
<1> QED BY <1>2, <1>6, <1>7, <1>8, <1>9, <1>10

LEMMA RawKeeps == ASSUME ExitInv, alive, X!pasx_term_raw PROVE ExitInv'
<1>1. /\ threadPc[Program] = "run" /\ ~savedFd /\ threadPc' = [threadPc EXCEPT ![Program] = "got"]
      /\ saved' = tty /\ spoilt' = (spoilt \/ X!Shutdown)
      /\ UNCHANGED <<X!measures, leaving, handlers, written, alive, tty, savedFd, termArmed>>
  BY DEF X!pasx_term_raw, X!Goto
<1>2. savedFd' \in BOOLEAN /\ termArmed' \in BOOLEAN /\ spoilt' \in BOOLEAN
  BY <1>1 DEF ExitInv, ExitTypes
<1>3. /\ ExitTypes' /\ OneExit' /\ MeasuresKept' /\ RunOnce' /\ DeadInOrder'
      /\ X!Shutdown' <=> X!Shutdown
      /\ threadPc'[Program] = "got" /\ (ExitFound' <=> ExitFound) /\ (ExitEmptied' <=> ExitEmptied)
  <2>1. "got" \in TerminalPlace \cup {"run"} /\ threadPc[Program] \in TerminalPlace \cup {"run"}
    BY <1>1 DEF TerminalPlace
  <2> QED BY <1>1, <1>2, <2>1, ProgramSteps
<1>4. HandlerKept'
  BY <1>1, <1>3 DEF ExitInv, HandlerKept
<1>5. TerminalKept'
  <2>1. ~spoilt' => ~ExitEmptied
    BY <1>1 DEF ExitEmptied, X!Shutdown, X!Exiting
  <2> QED BY <1>1, <1>3, <2>1 DEF ExitInv, TerminalKept, TerminalPlace
<1> QED BY <1>3, <1>4, <1>5 DEF ExitInv

LEMMA SetRawKeeps == ASSUME ExitInv, alive, NEW done \in BOOLEAN, X!SetRaw(done) PROVE ExitInv'
<1> DEFINE l == IF done THEN "raw" ELSE "run"
<1>1. /\ threadPc[Program] = "got" /\ threadPc' = [threadPc EXCEPT ![Program] = l]
      /\ tty' = (IF done THEN "raw" ELSE tty) /\ spoilt' = (spoilt \/ X!Shutdown)
      /\ UNCHANGED <<X!measures, leaving, handlers, written, alive, saved, savedFd, termArmed>>
  BY DEF X!SetRaw, X!Goto
<1>2. savedFd' \in BOOLEAN /\ termArmed' \in BOOLEAN /\ spoilt' \in BOOLEAN
  BY <1>1 DEF ExitInv, ExitTypes
<1>3. /\ ExitTypes' /\ OneExit' /\ MeasuresKept' /\ RunOnce' /\ DeadInOrder'
      /\ X!Shutdown' <=> X!Shutdown
      /\ threadPc'[Program] = l /\ (ExitFound' <=> ExitFound) /\ (ExitEmptied' <=> ExitEmptied)
  <2>1. l \in TerminalPlace \cup {"run"} /\ threadPc[Program] \in TerminalPlace \cup {"run"}
    BY <1>1 DEF TerminalPlace
  <2> HIDE DEF l
  <2> QED BY <1>1, <1>2, <2>1, ProgramSteps
<1>4. HandlerKept'
  BY <1>1, <1>3 DEF ExitInv, HandlerKept
<1>5. TerminalKept'
  <2>1. CASE done
    BY <1>1, <1>3, <2>1 DEF ExitInv, TerminalKept, TerminalPlace
  <2>2. CASE ~done
    BY <1>1, <1>3, <2>2 DEF ExitInv, TerminalKept, TerminalPlace
  <2> QED BY <2>1, <2>2
<1> QED BY <1>3, <1>4, <1>5 DEF ExitInv

LEMMA MarkKeeps == ASSUME ExitInv, alive, X!MarkSaved PROVE ExitInv'
<1> DEFINE l == IF termArmed THEN "run" ELSE "marked"
<1>1. /\ threadPc[Program] = "raw" /\ threadPc' = [threadPc EXCEPT ![Program] = l]
      /\ savedFd' = TRUE /\ spoilt' = (spoilt \/ X!Shutdown)
      /\ UNCHANGED <<X!measures, leaving, handlers, written, alive, tty, saved, termArmed>>
  BY DEF X!MarkSaved, X!Goto
<1>2. savedFd' \in BOOLEAN /\ termArmed' \in BOOLEAN /\ spoilt' \in BOOLEAN
  BY <1>1 DEF ExitInv, ExitTypes
<1>3. /\ ExitTypes' /\ OneExit' /\ MeasuresKept' /\ RunOnce' /\ DeadInOrder'
      /\ X!Shutdown' <=> X!Shutdown
      /\ threadPc'[Program] = l /\ (ExitFound' <=> ExitFound) /\ (ExitEmptied' <=> ExitEmptied)
  <2>1. l \in TerminalPlace \cup {"run"} /\ threadPc[Program] \in TerminalPlace \cup {"run"}
    BY <1>1 DEF TerminalPlace
  <2> HIDE DEF l
  <2> QED BY <1>1, <1>2, <2>1, ProgramSteps
<1>4. HandlerKept'
  BY <1>1, <1>3 DEF ExitInv, HandlerKept
<1>5. TerminalKept'
  <2>1. ~spoilt' => ("terminal" \in ToSet(handlers') \/ l = "marked") /\ saved' = "cooked"
    BY <1>1 DEF ExitInv, HandlerKept, TerminalKept, TerminalPlace
  <2> HIDE DEF l
  <2> QED BY <1>1, <1>3, <2>1 DEF TerminalKept
<1> QED BY <1>3, <1>4, <1>5 DEF ExitInv

LEMMA RegisterRestoreKeeps ==
  ASSUME ExitInv, alive, NEW done \in BOOLEAN, X!RegisterRestore(done)
  PROVE  ExitInv'
<1>1. /\ threadPc[Program] = "marked" /\ threadPc' = [threadPc EXCEPT ![Program] = "run"]
      /\ handlers' = (IF done THEN <<"terminal">> \o handlers ELSE handlers)
      /\ termArmed' = done /\ spoilt' = (spoilt \/ X!Shutdown \/ ~done)
      /\ UNCHANGED <<X!measures, leaving, written, alive, tty, saved, savedFd>>
  BY DEF X!RegisterRestore, X!Goto
<1>2. savedFd' \in BOOLEAN /\ termArmed' \in BOOLEAN /\ spoilt' \in BOOLEAN
  BY <1>1 DEF ExitInv, ExitTypes
<1>3. /\ ExitTypes' /\ OneExit' /\ MeasuresKept' /\ RunOnce' /\ DeadInOrder'
      /\ X!Shutdown' <=> X!Shutdown
      /\ threadPc'[Program] = "run" /\ (ExitFound' <=> ExitFound) /\ (ExitEmptied' <=> ExitEmptied)
  <2>1. /\ "run" \in TerminalPlace \cup {"run"} /\ threadPc[Program] \in TerminalPlace \cup {"run"}
        /\ handlers' = handlers \/ handlers' = <<"terminal">> \o handlers
    BY <1>1 DEF TerminalPlace
  <2> QED BY <1>1, <1>2, <2>1, ProgramSteps
<1>4. done => "terminal" \in ToSet(handlers')
  <2>1. "terminal" \in Known /\ handlers \in Seq(Known)
    BY DEF Known, ExitInv, ExitTypes
  <2>2. ToSet(<<"terminal">> \o handlers) = ToSet(handlers) \cup {"terminal"}
    BY <2>1, ConsIs
  <2> QED BY <1>1, <2>2
<1>5. HandlerKept'
  BY <1>1, <1>4 DEF HandlerKept
<1>6. TerminalKept'
  BY <1>1, <1>3, <1>4 DEF ExitInv, TerminalKept, TerminalPlace
<1> QED BY <1>3, <1>5, <1>6 DEF ExitInv

LEMMA RestoreKeeps == ASSUME ExitInv, alive, X!pasx_term_restore PROVE ExitInv'
<1>1. /\ threadPc[Program] = "run" /\ savedFd /\ threadPc' = [threadPc EXCEPT ![Program] = "found"]
      /\ UNCHANGED <<X!measures, leaving, handlers, written, alive>>
      /\ UNCHANGED <<tty, saved, savedFd, termArmed, spoilt>>
  BY DEF X!pasx_term_restore, X!Goto, X!terminal
<1>2. savedFd' \in BOOLEAN /\ termArmed' \in BOOLEAN /\ spoilt' \in BOOLEAN
  BY <1>1 DEF ExitInv, ExitTypes
<1>3. /\ ExitTypes' /\ OneExit' /\ MeasuresKept' /\ RunOnce' /\ DeadInOrder'
      /\ X!Shutdown' <=> X!Shutdown
      /\ threadPc'[Program] = "found" /\ (ExitFound' <=> ExitFound) /\ (ExitEmptied' <=> ExitEmptied)
  <2>1. "found" \in TerminalPlace \cup {"run"} /\ threadPc[Program] \in TerminalPlace \cup {"run"}
    BY <1>1 DEF TerminalPlace
  <2> QED BY <1>1, <1>2, <2>1, ProgramSteps
<1> QED BY <1>1, <1>3 DEF ExitInv, HandlerKept, TerminalKept, TerminalPlace

\* A step of the thread in exit, within exit: a handler may be taken off, and a
\* measure is taken off only to be written.
LEMMA ExitSteps ==
  ASSUME ExitInv, alive, NEW t \in X!Thread, NEW l \in ExitPlace, threadPc[t] \in ExitPlace,
         threadPc' = [threadPc EXCEPT ![t] = l], UNCHANGED <<X!measures, leaving, alive, termArmed>>,
         savedFd' \in BOOLEAN, spoilt' \in BOOLEAN
  PROVE  /\ OneExit' /\ DeadInOrder' /\ HandlerKept' /\ X!Shutdown'
         /\ threadPc'[t] = l /\ \A u \in X!Thread : u # t => threadPc'[u] = threadPc[u]
         /\ \A u \in X!Thread : u # t => threadPc[u] \notin ExitPlace
         /\ handlers' \in Seq(Known) /\ written' \in Seq(Measures) => ExitTypes'
         /\ written' = written /\ (\A m \in Measures : m \in ToSet(handlers') <=> m \in ToSet(handlers))
              => MeasuresKept'
<1>1. /\ threadPc' \in [X!Thread -> Place] /\ threadPc'[t] = l
      /\ \A u \in X!Thread : u # t => threadPc'[u] = threadPc[u]
  <2>1. l \in Place
    BY DEF Place
  <2> QED BY <2>1, GoesTo
<1>2. /\ leaving' = leaving /\ alive' = alive /\ termArmed' = termArmed
      /\ arming' = arming /\ flags' = flags /\ raced' = raced
  BY DEF X!measures
<1>3. /\ threadPc[t] \notin ArmPlace /\ l \notin ArmPlace /\ threadPc[t] # "over"
      /\ l \notin TerminalPlace
  BY DEF ArmPlace, ExitPlace, TerminalPlace
<1>4. OneExit' /\ (X!Shutdown' <=> X!Shutdown)
  <2>1. \A u \in X!Thread : threadPc'[u] \in ExitPlace <=> threadPc[u] \in ExitPlace
    BY <1>1
  <2>2. \A u \in X!Thread : threadPc[u] = "over" => threadPc'[u] = "over"
    BY <1>1, <1>3
  <2> QED BY <1>2, <2>1, <2>2, ExitsStay
<1>5. X!Shutdown
  BY DEF X!Shutdown, X!Exiting, ExitPlace
<1>6. \A u \in X!Thread : u # t => threadPc[u] \notin ExitPlace
  BY DEF ExitInv, OneExit
<1>7. HandlerKept' /\ DeadInOrder'
  BY <1>2, <1>4, <1>5 DEF HandlerKept, DeadInOrder
<1>8. ASSUME handlers' \in Seq(Known) /\ written' \in Seq(Measures) PROVE ExitTypes'
  <2>1. \A u \in X!Thread : threadPc'[u] \in ArmPlace => arming'[u] \in Measures
    BY <1>1, <1>2, <1>3 DEF ExitInv, ExitTypes
  <2>2. \A u \in Tasks : threadPc'[u] \notin TerminalPlace
    BY <1>1, <1>3 DEF ExitInv, ExitTypes, X!Thread
  <2> QED BY <1>1, <1>2, <1>8, <2>1, <2>2 DEF ExitInv, ExitTypes
<1>9. ASSUME written' = written, \A m \in Measures : m \in ToSet(handlers') <=> m \in ToSet(handlers)
      PROVE  MeasuresKept'
  <2>1. \A u \in X!Thread : threadPc'[u] = threadPc[u]
                              \/ (threadPc'[u] \notin ArmPlace /\ threadPc[u] \notin ArmPlace)
    BY <1>1, <1>3
  <2> QED BY <1>9, <2>1, MeasuresStay
<1> QED BY <1>1, <1>4, <1>5, <1>6, <1>7, <1>8, <1>9

LEMMA AtExitKeeps == ASSUME ExitInv, alive, NEW t \in X!Thread, X!pasx_term_at_exit(t) PROVE ExitInv'
<1> DEFINE l == IF savedFd THEN "exitFound" ELSE "exit"
<1>1. /\ threadPc[t] = "exit" /\ handlers # <<>> /\ Head(handlers) = "terminal"
      /\ handlers' = Tail(handlers) /\ threadPc' = [threadPc EXCEPT ![t] = l]
      /\ UNCHANGED <<X!measures, leaving, written, alive>>
      /\ UNCHANGED <<tty, saved, savedFd, termArmed, spoilt>>
  BY DEF X!pasx_term_at_exit, X!Goto, X!terminal
<1>2. l \in ExitPlace /\ threadPc[t] \in ExitPlace /\ savedFd' \in BOOLEAN /\ spoilt' \in BOOLEAN
  BY <1>1 DEF ExitPlace, ExitInv, ExitTypes
<1>3. /\ handlers' \in Seq(Known) /\ OnceBut(handlers', raced \cup {"terminal"})
      /\ ToSet(handlers) = ToSet(handlers') \cup {"terminal"}
  BY <1>1, TailIs DEF ExitInv, ExitTypes, RunOnce
<1>4. \A m \in Measures : m \in ToSet(handlers') <=> m \in ToSet(handlers)
  BY <1>3, ExitAssumption
<1>5. written' = written /\ raced' = raced /\ written' \in Seq(Measures)
  BY <1>1 DEF X!measures, ExitInv, ExitTypes
<1>6. /\ OneExit' /\ DeadInOrder' /\ HandlerKept' /\ ExitTypes' /\ MeasuresKept'
      /\ threadPc'[t] = l /\ \A u \in X!Thread : u # t => threadPc'[u] = threadPc[u]
      /\ \A u \in X!Thread : u # t => threadPc[u] \notin ExitPlace
  <2> HIDE DEF l
  <2> QED BY <1>1, <1>2, <1>3, <1>4, <1>5, ExitSteps
<1>7. RunOnce'
  BY <1>3, <1>5 DEF ExitInv, RunOnce
<1>8. TerminalKept'
  <2>1. ~ExitFound /\ ~ExitEmptied /\ ~ExitEmptied'
    BY <1>1, <1>6 DEF ExitFound, ExitEmptied, ExitPlace
  <2>2. savedFd => ExitFound'
    BY <1>6 DEF ExitFound
  <2>3. ExitFound' => savedFd
    BY <1>6 DEF ExitFound, ExitPlace
  <2>4. Program \in X!Thread
    BY DEF X!Thread
  <2>5. CASE t = Program
    BY <1>1, <1>6, <2>1, <2>2, <2>3, <2>5 DEF ExitInv, TerminalKept, TerminalPlace
  <2>6. CASE t # Program
    <3>1. threadPc'[Program] = threadPc[Program]
      BY <1>6, <2>4, <2>6
    <3> QED BY <1>1, <3>1, <2>1, <2>2, <2>3 DEF ExitInv, TerminalKept
  <2> QED BY <2>5, <2>6
<1> QED BY <1>6, <1>7, <1>8 DEF ExitInv

\* Whoever is at a place of pasx_term_restore is Program.
LEMMA TerminalIsProgram ==
  ASSUME ExitInv, NEW t \in X!Thread, threadPc[t] \in TerminalPlace
  PROVE  t = Program
BY DEF ExitInv, ExitTypes, X!Thread

LEMMA EmptySlotKeeps == ASSUME ExitInv, alive, NEW t \in X!Thread, X!EmptySlot(t) PROVE ExitInv'
<1>1. /\ savedFd' = FALSE /\ UNCHANGED <<X!measures, leaving, handlers, written, alive>>
      /\ UNCHANGED <<tty, saved, termArmed, spoilt>>
  BY DEF X!EmptySlot
<1>2. /\ savedFd' \in BOOLEAN /\ termArmed' \in BOOLEAN /\ spoilt' \in BOOLEAN
      /\ handlers' \in Seq(Known) /\ written' \in Seq(Measures)
  BY <1>1 DEF ExitInv, ExitTypes
<1>3. ASSUME threadPc[t] = "found", threadPc' = [threadPc EXCEPT ![t] = "emptied"] PROVE ExitInv'
  <2>1. t = Program
    BY <1>3, TerminalIsProgram DEF TerminalPlace
  <2>2. /\ ExitTypes' /\ OneExit' /\ MeasuresKept' /\ RunOnce' /\ DeadInOrder'
        /\ X!Shutdown' <=> X!Shutdown
        /\ threadPc'[Program] = "emptied" /\ (ExitFound' <=> ExitFound) /\ (ExitEmptied' <=> ExitEmptied)
    <3>1. "emptied" \in TerminalPlace \cup {"run"} /\ threadPc[Program] \in TerminalPlace \cup {"run"}
      BY <1>3, <2>1 DEF TerminalPlace
    <3> QED BY <1>1, <1>2, <1>3, <2>1, <3>1, ProgramSteps
  <2> QED BY <1>1, <1>3, <2>1, <2>2 DEF ExitInv, HandlerKept, TerminalKept, TerminalPlace
<1>4. ASSUME threadPc[t] = "exitFound", threadPc' = [threadPc EXCEPT ![t] = "exitEmptied"]
      PROVE  ExitInv'
  <2>1. /\ OneExit' /\ DeadInOrder' /\ HandlerKept' /\ ExitTypes' /\ MeasuresKept'
        /\ threadPc'[t] = "exitEmptied" /\ \A u \in X!Thread : u # t => threadPc'[u] = threadPc[u]
        /\ \A u \in X!Thread : u # t => threadPc[u] \notin ExitPlace
    <3>1. /\ "exitEmptied" \in ExitPlace /\ threadPc[t] \in ExitPlace
          /\ \A m \in Measures : m \in ToSet(handlers') <=> m \in ToSet(handlers)
      BY <1>1, <1>4 DEF ExitPlace
    <3> QED BY <1>1, <1>2, <1>4, <3>1, ExitSteps
  <2>2. RunOnce'
    BY <1>1 DEF ExitInv, RunOnce, X!measures
  <2>3. ExitEmptied' /\ ExitFound
    BY <1>4, <2>1 DEF ExitEmptied, ExitFound
  <2>4. TerminalKept'
    BY <1>1, <2>3 DEF ExitInv, TerminalKept
  <2> QED BY <2>1, <2>2, <2>4 DEF ExitInv
<1> QED BY <1>3, <1>4 DEF X!EmptySlot, X!Goto

LEMMA PutBackKeeps ==
  ASSUME ExitInv, alive, NEW t \in X!Thread, NEW done \in BOOLEAN, X!PutBack(t, done)
  PROVE  ExitInv'
<1>1. /\ tty' = (IF done THEN saved ELSE tty) /\ spoilt' = (spoilt \/ ~done)
      /\ UNCHANGED <<X!measures, leaving, handlers, written, alive>>
      /\ UNCHANGED <<saved, savedFd, termArmed>>
  BY DEF X!PutBack
<1>2. /\ savedFd' \in BOOLEAN /\ termArmed' \in BOOLEAN /\ spoilt' \in BOOLEAN
      /\ handlers' \in Seq(Known) /\ written' \in Seq(Measures)
  BY <1>1 DEF ExitInv, ExitTypes
<1>3. ASSUME threadPc[t] = "emptied", threadPc' = [threadPc EXCEPT ![t] = "run"] PROVE ExitInv'
  <2>1. t = Program
    BY <1>3, TerminalIsProgram DEF TerminalPlace
  <2>2. /\ ExitTypes' /\ OneExit' /\ MeasuresKept' /\ RunOnce' /\ DeadInOrder'
        /\ X!Shutdown' <=> X!Shutdown
        /\ threadPc'[Program] = "run" /\ (ExitFound' <=> ExitFound) /\ (ExitEmptied' <=> ExitEmptied)
    <3>1. "run" \in TerminalPlace \cup {"run"} /\ threadPc[Program] \in TerminalPlace \cup {"run"}
      BY <1>3, <2>1 DEF TerminalPlace
    <3> QED BY <1>1, <1>2, <1>3, <2>1, <3>1, ProgramSteps
  <2> QED BY <1>1, <1>3, <2>1, <2>2 DEF ExitInv, HandlerKept, TerminalKept, TerminalPlace
<1>4. ASSUME threadPc[t] = "exitEmptied", threadPc' = [threadPc EXCEPT ![t] = "exit"] PROVE ExitInv'
  <2>1. /\ OneExit' /\ DeadInOrder' /\ HandlerKept' /\ ExitTypes' /\ MeasuresKept'
        /\ threadPc'[t] = "exit" /\ \A u \in X!Thread : u # t => threadPc'[u] = threadPc[u]
        /\ \A u \in X!Thread : u # t => threadPc[u] \notin ExitPlace
    <3>1. /\ "exit" \in ExitPlace /\ threadPc[t] \in ExitPlace
          /\ \A m \in Measures : m \in ToSet(handlers') <=> m \in ToSet(handlers)
      BY <1>1, <1>4 DEF ExitPlace
    <3> QED BY <1>1, <1>2, <1>4, <3>1, ExitSteps
  <2>2. RunOnce'
    BY <1>1 DEF ExitInv, RunOnce, X!measures
  <2>3. ~ExitEmptied' /\ ~ExitFound /\ ~ExitFound' /\ ExitEmptied
    BY <1>4, <2>1 DEF ExitEmptied, ExitFound, ExitPlace
  <2>4. TerminalKept'
    <3>1. Program \in X!Thread
      BY DEF X!Thread
    <3>2. CASE t = Program
      BY <1>1, <1>4, <2>1, <2>3, <3>2 DEF ExitInv, TerminalKept, TerminalPlace
    <3>3. CASE t # Program
      <4>1. threadPc'[Program] = threadPc[Program]
        BY <2>1, <3>1, <3>3
      <4> QED BY <1>1, <2>3, <4>1 DEF ExitInv, TerminalKept
    <3> QED BY <3>2, <3>3
  <2> QED BY <2>1, <2>2, <2>4 DEF ExitInv
<1> QED BY <1>3, <1>4 DEF X!PutBack, X!Goto

\* A measure is written: it goes from one list to the other, and if it was
\* registered twice it stays on the first as well.
LEMMA DumpKeeps == ASSUME ExitInv, alive, NEW t \in X!Thread, X!Dump(t) PROVE ExitInv'
<1> DEFINE h == Head(handlers)
<1>1. /\ threadPc[t] = "exit" /\ handlers # <<>> /\ h # "terminal"
      /\ handlers' = Tail(handlers) /\ written' = Append(written, h) /\ threadPc' = threadPc
      /\ UNCHANGED <<X!measures, leaving, alive>> /\ UNCHANGED X!terminal
  BY DEF X!Dump
<1>2. arming' = arming /\ flags' = flags /\ raced' = raced /\ leaving' = leaving /\ alive' = alive
  BY <1>1 DEF X!measures
<1>3. /\ handlers' \in Seq(Known) /\ OnceBut(handlers', raced \cup {"terminal"}) /\ h \in Known
      /\ ToSet(handlers) = ToSet(handlers') \cup {h}
      /\ h \notin raced \cup {"terminal"} => h \notin ToSet(handlers')
  BY <1>1, TailIs DEF ExitInv, ExitTypes, RunOnce
<1>4. h \in Measures /\ (h \in raced \/ h \notin ToSet(written))
  BY <1>1, <1>3 DEF Known, ExitInv, MeasuresKept, MeasureKept
<1>5. /\ written' \in Seq(Measures) /\ ToSet(written') = ToSet(written) \cup {h}
      /\ OnceBut(written', raced)
  BY <1>1, <1>4, AppendIs DEF ExitInv, ExitTypes, RunOnce
<1>6. ExitTypes'
  BY <1>1, <1>2, <1>3, <1>5 DEF ExitInv, ExitTypes, X!terminal
<1>7. OneExit' /\ (X!Shutdown' <=> X!Shutdown)
  BY <1>1, <1>2, ExitsStay
<1>8. MeasuresKept'
  <2>1. ASSUME NEW m \in Measures PROVE MeasureKept(m)'
    <3>1. MeasureKept(m)
      BY DEF ExitInv, MeasuresKept
    <3>2. Listed(m)' <=> Listed(m)
      BY <1>3, <1>5 DEF Listed
    <3>3. m \notin raced => ~(m \in ToSet(handlers') /\ m \in ToSet(written'))
      BY <1>1, <1>3, <1>5, <3>1 DEF MeasureKept
    <3> QED BY <1>1, <1>2, <3>1, <3>2, <3>3 DEF MeasureKept, Arms
  <2> QED BY <1>2, <2>1 DEF ExitInv, MeasuresKept
<1>9. RunOnce'
  BY <1>2, <1>3, <1>5 DEF RunOnce
<1>10. TerminalKept'
  <2>1. "terminal" \in ToSet(handlers) => "terminal" \in ToSet(handlers')
    BY <1>1, <1>3
  <2> QED BY <1>1, <2>1, TerminalStays
<1>11. X!Shutdown
  BY <1>1 DEF X!Shutdown, X!Exiting
<1> QED BY <1>2, <1>6, <1>7, <1>8, <1>9, <1>10, <1>11 DEF ExitInv, HandlerKept, DeadInOrder

\* A step of a thread that is not in exit and does not come there, and is not at
\* the terminal: what is then as it was.
LEMMA PlainSteps ==
  ASSUME ExitInv, alive, NEW t \in X!Thread, NEW l \in ArmPlace \cup {"run", "leave", "over"},
         threadPc[t] \in ArmPlace \cup {"run"}, threadPc' = [threadPc EXCEPT ![t] = l],
         UNCHANGED <<leaving, written, alive>>, UNCHANGED X!terminal,
         "terminal" \in ToSet(handlers) => "terminal" \in ToSet(handlers')
  PROVE  /\ OneExit' /\ HandlerKept' /\ TerminalKept' /\ DeadInOrder'
         /\ threadPc'[t] = l /\ (\A u \in X!Thread : u # t => threadPc'[u] = threadPc[u])
         /\ handlers' \in Seq(Known) /\ arming' \in [X!Thread -> Measures \cup {"none"}]
              /\ (\A u \in X!Thread : threadPc'[u] \in ArmPlace => arming'[u] \in Measures)
              => ExitTypes'
<1>1. /\ threadPc' \in [X!Thread -> Place] /\ threadPc'[t] = l
      /\ \A u \in X!Thread : u # t => threadPc'[u] = threadPc[u]
  <2>1. l \in Place
    BY DEF Place
  <2> QED BY <2>1, GoesTo
<1>2. /\ l \notin ExitPlace /\ threadPc[t] \notin ExitPlace /\ threadPc[t] # "over"
      /\ l \notin TerminalPlace /\ threadPc[t] \notin TerminalPlace
  BY DEF ArmPlace, ExitPlace, TerminalPlace
<1>3. OneExit' /\ (X!Shutdown' <=> X!Shutdown)
  <2>1. \A u \in X!Thread : threadPc'[u] \in ExitPlace <=> threadPc[u] \in ExitPlace
    BY <1>1, <1>2
  <2>2. \A u \in X!Thread : threadPc[u] = "over" => threadPc'[u] = "over"
    BY <1>1, <1>2
  <2> QED BY <2>1, <2>2, ExitsStay
<1>4. TerminalKept'
  <2>1. Program \in X!Thread
    BY DEF X!Thread
  <2>2. threadPc'[Program] = threadPc[Program]
          \/ (threadPc'[Program] \notin TerminalPlace /\ threadPc[Program] \notin TerminalPlace)
    BY <1>1, <1>2, <2>1
  <2>3. \A u \in X!Thread :
          threadPc'[u] \in {"exitFound", "exitEmptied"} \/ threadPc[u] \in {"exitFound", "exitEmptied"}
            => threadPc'[u] = threadPc[u]
    BY <1>1, <1>2 DEF ExitPlace
  <2> QED BY <2>2, <2>3, TerminalStays
<1>5. HandlerKept' /\ DeadInOrder'
  BY <1>3 DEF ExitInv, HandlerKept, DeadInOrder, X!terminal
<1>6. ASSUME /\ handlers' \in Seq(Known) /\ arming' \in [X!Thread -> Measures \cup {"none"}]
             /\ \A u \in X!Thread : threadPc'[u] \in ArmPlace => arming'[u] \in Measures
      PROVE  ExitTypes'
  <2>1. \A u \in Tasks : threadPc'[u] \notin TerminalPlace
    BY <1>1, <1>2 DEF ExitInv, ExitTypes, X!Thread
  <2> QED BY <1>1, <1>6, <2>1 DEF ExitInv, ExitTypes, X!terminal
<1> QED BY <1>1, <1>3, <1>4, <1>5, <1>6

LEMMA LeavingKeeps ==
  ASSUME ExitInv, alive, NEW t \in X!Thread, X!Leave(t) \/ X!EndTask(t)
  PROVE  ExitInv'
<1>1. PICK l \in {"leave", "over"} :
        /\ threadPc[t] = "run" /\ threadPc' = [threadPc EXCEPT ![t] = l]
        /\ UNCHANGED <<X!measures, leaving, handlers, written, alive, X!terminal>>
  BY DEF X!Leave, X!EndTask, X!Goto
<1>2. arming' = arming /\ raced' = raced /\ handlers' = handlers /\ written' = written
  BY <1>1 DEF X!measures
<1>3. /\ l \in ArmPlace \cup {"run", "leave", "over"} /\ threadPc[t] \in ArmPlace \cup {"run"}
      /\ l \notin ArmPlace /\ threadPc[t] \notin ArmPlace
  BY <1>1 DEF ArmPlace
<1>4. /\ OneExit' /\ HandlerKept' /\ TerminalKept' /\ DeadInOrder'
      /\ threadPc'[t] = l /\ (\A u \in X!Thread : u # t => threadPc'[u] = threadPc[u])
      /\ handlers' \in Seq(Known) /\ arming' \in [X!Thread -> Measures \cup {"none"}]
           /\ (\A u \in X!Thread : threadPc'[u] \in ArmPlace => arming'[u] \in Measures)
           => ExitTypes'
  BY <1>1, <1>2, <1>3, PlainSteps
<1>5. ExitTypes'
  BY <1>2, <1>3, <1>4 DEF ExitInv, ExitTypes
<1>6. MeasuresKept'
  <2>1. \A u \in X!Thread : threadPc'[u] = threadPc[u]
                              \/ (threadPc'[u] \notin ArmPlace /\ threadPc[u] \notin ArmPlace)
    BY <1>3, <1>4
  <2> QED BY <1>1, <1>2, <2>1, MeasuresStay
<1>7. RunOnce'
  BY <1>2 DEF ExitInv, RunOnce
<1> QED BY <1>4, <1>5, <1>6, <1>7 DEF ExitInv

\* The flag is found unset.
LEMMA ReadFlagKeeps ==
  ASSUME ExitInv, alive, NEW t \in X!Thread, NEW m \in Measures, X!ReadFlag(t, m)
  PROVE  ExitInv'
<1>1. /\ threadPc[t] = "run" /\ m \notin flags /\ threadPc' = [threadPc EXCEPT ![t] = "tested"]
      /\ arming' = [arming EXCEPT ![t] = m] /\ UNCHANGED <<flags, leaving, handlers, written, alive>>
      /\ raced' = (IF \E u \in X!Thread : threadPc[u] = "tested" /\ arming[u] = m
                     THEN raced \cup {m} ELSE raced)
      /\ UNCHANGED X!terminal
  BY DEF X!ReadFlag, X!Goto
<1>2. /\ "tested" \in ArmPlace \cup {"run", "leave", "over"} /\ threadPc[t] \in ArmPlace \cup {"run"}
      /\ threadPc[t] \notin ArmPlace /\ "tested" \in ArmPlace
  BY <1>1 DEF ArmPlace
<1>3. /\ OneExit' /\ HandlerKept' /\ TerminalKept' /\ DeadInOrder'
      /\ threadPc'[t] = "tested" /\ (\A u \in X!Thread : u # t => threadPc'[u] = threadPc[u])
      /\ handlers' \in Seq(Known) /\ arming' \in [X!Thread -> Measures \cup {"none"}]
           /\ (\A u \in X!Thread : threadPc'[u] \in ArmPlace => arming'[u] \in Measures)
           => ExitTypes'
  BY <1>1, <1>2, PlainSteps
<1>4. /\ arming' \in [X!Thread -> Measures \cup {"none"}] /\ arming'[t] = m
      /\ \A u \in X!Thread : u # t => arming'[u] = arming[u]
  BY <1>1 DEF ExitInv, ExitTypes
<1>5. ExitTypes'
  BY <1>1, <1>3, <1>4 DEF ExitInv, ExitTypes
<1>6. raced \subseteq raced' /\ \A n \in Measures : n # m => (n \in raced' <=> n \in raced)
  BY <1>1
<1>7. MeasuresKept'
  <2>1. ASSUME NEW n \in Measures PROVE MeasureKept(n)'
    <3>1. MeasureKept(n) /\ MeasureKept(m)
      BY DEF ExitInv, MeasuresKept
    <3>2. Listed(n)' <=> Listed(n)
      BY <1>1 DEF Listed
    <3>3. \A u \in X!Thread : u # t => (Arms(u, n)' <=> Arms(u, n))
      BY <1>3, <1>4 DEF Arms
    <3>4. Arms(t, n)' <=> n = m
      BY <1>2, <1>3, <1>4 DEF Arms
    <3>5. ~Arms(t, n)
      BY <1>2 DEF Arms
    <3>6. CASE n # m
      <4>1. \A u \in X!Thread : Arms(u, n)' <=> Arms(u, n)
        BY <3>3, <3>4, <3>5, <3>6
      <4>2. \A u \in X!Thread : Arms(u, n) => threadPc'[u] = threadPc[u]
        BY <1>3, <3>5
      <4>3. /\ \A u \in X!Thread : threadPc[u] = "flagged" => threadPc'[u] = "flagged" /\ arming'[u] = arming[u]
        BY <1>1, <1>3, <1>4
      <4> QED BY <1>1, <1>6, <3>1, <3>2, <3>6, <4>1, <4>2, <4>3 DEF MeasureKept
    <3>7. CASE n = m
      <4>1. ~Listed(m) /\ \A u \in X!Thread : Arms(u, m) => threadPc[u] = "tested"
        BY <1>1, <3>1 DEF MeasureKept
      <4>2. \A u \in X!Thread : Arms(u, m)' => threadPc'[u] = "tested"
        BY <1>3, <3>3, <3>7, <4>1
      <4>3. m \notin raced' => \A u \in X!Thread : ~Arms(u, m)
        BY <1>1, <4>1 DEF Arms
      <4>4. m \notin raced' => \A u, v \in X!Thread : Arms(u, m)' /\ Arms(v, m)' => u = v
        BY <3>3, <3>7, <4>3
      <4>5. ~Listed(m)' /\ m \notin flags'
        BY <1>1, <3>2, <3>7, <4>1
      <4>6. ~(m \in ToSet(handlers') /\ m \in ToSet(written'))
        BY <4>5 DEF Listed
      <4> QED BY <3>7, <4>2, <4>4, <4>5, <4>6 DEF MeasureKept
    <3> QED BY <3>6, <3>7
  <2> QED BY <1>1, <2>1 DEF ExitInv, MeasuresKept
<1>8. RunOnce'
  <2>1. /\ OnceBut(handlers, raced \cup {"terminal"}) /\ OnceBut(written, raced)
        /\ handlers \in Seq(Known) /\ written \in Seq(Measures)
        /\ raced \cup {"terminal"} \subseteq raced' \cup {"terminal"}
    BY <1>6 DEF ExitInv, RunOnce, ExitTypes
  <2>2. OnceBut(handlers, raced' \cup {"terminal"}) /\ OnceBut(written, raced')
    BY <1>6, <2>1, OnceGrows
  <2> QED BY <1>1, <2>2 DEF RunOnce
<1> QED BY <1>3, <1>5, <1>7, <1>8 DEF ExitInv

\* The flag is set.
LEMMA SetFlagKeeps == ASSUME ExitInv, alive, NEW t \in X!Thread, X!SetFlag(t) PROVE ExitInv'
<1> DEFINE m == arming[t]
<1>1. /\ threadPc[t] = "tested" /\ threadPc' = [threadPc EXCEPT ![t] = "flagged"]
      /\ flags' = flags \cup {m}
      /\ UNCHANGED <<arming, raced, leaving, handlers, written, alive>> /\ UNCHANGED X!terminal
  BY DEF X!SetFlag, X!Goto
<1>2. /\ "flagged" \in ArmPlace \cup {"run", "leave", "over"} /\ threadPc[t] \in ArmPlace \cup {"run"}
      /\ threadPc[t] \in ArmPlace /\ "flagged" \in ArmPlace
  BY <1>1 DEF ArmPlace
<1>3. /\ OneExit' /\ HandlerKept' /\ TerminalKept' /\ DeadInOrder'
      /\ threadPc'[t] = "flagged" /\ (\A u \in X!Thread : u # t => threadPc'[u] = threadPc[u])
      /\ handlers' \in Seq(Known) /\ arming' \in [X!Thread -> Measures \cup {"none"}]
           /\ (\A u \in X!Thread : threadPc'[u] \in ArmPlace => arming'[u] \in Measures)
           => ExitTypes'
  BY <1>1, <1>2, PlainSteps
<1>4. m \in Measures
  BY <1>2 DEF ExitInv, ExitTypes
<1>5. ExitTypes'
  BY <1>1, <1>2, <1>3, <1>4 DEF ExitInv, ExitTypes
<1>6. MeasuresKept'
  <2>1. ASSUME NEW n \in Measures PROVE MeasureKept(n)'
    <3>1. MeasureKept(n) /\ MeasureKept(m)
      BY <1>4 DEF ExitInv, MeasuresKept
    <3>2. Listed(n)' <=> Listed(n)
      BY <1>1 DEF Listed
    <3>3. \A u \in X!Thread : Arms(u, n)' <=> Arms(u, n)
      BY <1>1, <1>2, <1>3 DEF Arms
    <3>4. CASE n # m
      <4>1. \A u \in X!Thread : Arms(u, n) \/ arming[u] = n => threadPc'[u] = threadPc[u]
        BY <1>3, <3>4 DEF Arms
      <4>2. n \in flags' <=> n \in flags
        BY <1>1, <3>4
      <4> QED BY <1>1, <3>1, <3>2, <3>3, <4>1, <4>2 DEF MeasureKept
    <3>5. CASE n = m
      <4>1. Arms(t, m)
        BY <1>2 DEF Arms
      <4>2. n \in flags' /\ \E u \in X!Thread : threadPc'[u] = "flagged" /\ arming'[u] = n
        BY <1>1, <1>3, <3>5
      <4>3. n \notin raced => /\ \A u \in X!Thread : Arms(u, n) => u = t
                              /\ ~Listed(n)
        BY <1>1, <3>1, <3>5, <4>1 DEF MeasureKept
      <4>4. n \notin raced => \A u \in X!Thread : Arms(u, n)' => threadPc'[u] # "tested"
        BY <1>3, <3>3, <3>5, <4>3
      <4>5. n \notin raced => ~(n \in ToSet(handlers') /\ n \in ToSet(written'))
        BY <1>1, <4>3 DEF Listed
      <4> QED BY <1>1, <3>2, <3>3, <4>2, <4>3, <4>4, <4>5 DEF MeasureKept
    <3> QED BY <3>4, <3>5
  <2> QED BY <1>1, <1>4, <2>1 DEF ExitInv, MeasuresKept
<1>7. RunOnce'
  BY <1>1 DEF ExitInv, RunOnce
<1> QED BY <1>3, <1>5, <1>6, <1>7 DEF ExitInv

\* The measure is registered.
LEMMA RegisterKeeps == ASSUME ExitInv, alive, NEW t \in X!Thread, X!Register(t) PROVE ExitInv'
<1> DEFINE m == arming[t]
<1>1. /\ threadPc[t] = "flagged" /\ threadPc' = [threadPc EXCEPT ![t] = "run"]
      /\ handlers' = <<m>> \o handlers /\ arming' = [arming EXCEPT ![t] = "none"]
      /\ UNCHANGED <<flags, raced, leaving, written, alive>> /\ UNCHANGED X!terminal
  BY DEF X!Register, X!Goto
<1>2. /\ "run" \in ArmPlace \cup {"run", "leave", "over"} /\ threadPc[t] \in ArmPlace \cup {"run"}
      /\ threadPc[t] \in ArmPlace /\ "run" \notin ArmPlace
  BY <1>1 DEF ArmPlace
<1>3. m \in Measures /\ m \in Known /\ handlers \in Seq(Known) /\ Arms(t, m)
  BY <1>2 DEF ExitInv, ExitTypes, Known, Arms
<1>4. m \in flags /\ (m \in raced \/ ~Listed(m))
  <2>1. MeasureKept(m)
    BY <1>3 DEF ExitInv, MeasuresKept
  <2> QED BY <1>1, <1>3, <2>1 DEF MeasureKept
<1>5. /\ handlers' \in Seq(Known) /\ ToSet(handlers') = ToSet(handlers) \cup {m}
      /\ OnceBut(handlers', raced \cup {"terminal"})
  <2>1. OnceBut(handlers, raced \cup {"terminal"})
    BY DEF ExitInv, RunOnce
  <2>2. m \in raced \cup {"terminal"} \/ m \notin ToSet(handlers)
    BY <1>4 DEF Listed
  <2> HIDE DEF m
  <2> QED BY <1>1, <1>3, <2>1, <2>2, ConsIs
<1>6. /\ OneExit' /\ HandlerKept' /\ TerminalKept' /\ DeadInOrder'
      /\ threadPc'[t] = "run" /\ (\A u \in X!Thread : u # t => threadPc'[u] = threadPc[u])
      /\ handlers' \in Seq(Known) /\ arming' \in [X!Thread -> Measures \cup {"none"}]
           /\ (\A u \in X!Thread : threadPc'[u] \in ArmPlace => arming'[u] \in Measures)
           => ExitTypes'
  BY <1>1, <1>2, <1>5, PlainSteps
<1>7. /\ arming' \in [X!Thread -> Measures \cup {"none"}]
      /\ \A u \in X!Thread : u # t => arming'[u] = arming[u]
  BY <1>1 DEF ExitInv, ExitTypes
<1>8. ExitTypes'
  BY <1>2, <1>5, <1>6, <1>7 DEF ExitInv, ExitTypes
<1>9. MeasuresKept'
  <2>1. ASSUME NEW n \in Measures PROVE MeasureKept(n)'
    <3>1. MeasureKept(n)
      BY DEF ExitInv, MeasuresKept
    <3>2. \A u \in X!Thread : u # t => (Arms(u, n)' <=> Arms(u, n)) /\ threadPc'[u] = threadPc[u]
      BY <1>6, <1>7 DEF Arms
    <3>3. ~Arms(t, n)'
      BY <1>2, <1>6 DEF Arms
    <3>4. CASE n # m
      <4>1. ~Arms(t, n)
        BY <3>4 DEF Arms
      <4>2. (Listed(n)' <=> Listed(n)) /\ (n \in ToSet(handlers') <=> n \in ToSet(handlers))
        BY <1>1, <1>5, <3>4 DEF Listed
      <4>3. \A u \in X!Thread : threadPc[u] = "flagged" /\ arming[u] = n
                                  => threadPc'[u] = "flagged" /\ arming'[u] = n
        BY <1>6, <1>7, <3>4
      <4> HIDE DEF m
      <4> QED BY <1>1, <3>1, <3>2, <3>3, <4>1, <4>2, <4>3 DEF MeasureKept
    <3>5. CASE n = m
      <4>1. Listed(n)' /\ n \in flags'
        BY <1>1, <1>4, <1>5, <3>5 DEF Listed
      <4>2. n \notin raced => \A u \in X!Thread : ~Arms(u, n)'
        BY <1>3, <3>1, <3>2, <3>3, <3>5 DEF MeasureKept
      <4>3. n \notin raced => ~(n \in ToSet(handlers') /\ n \in ToSet(written'))
        BY <1>1, <1>4, <3>5 DEF Listed
      <4> QED BY <1>1, <4>1, <4>2, <4>3 DEF MeasureKept
    <3> QED BY <3>4, <3>5
  <2> QED BY <1>1, <2>1 DEF ExitInv, MeasuresKept
<1>10. RunOnce'
  BY <1>1, <1>5 DEF ExitInv, RunOnce
<1> QED BY <1>6, <1>8, <1>9, <1>10 DEF ExitInv

\* A thread comes to exit: no other is there, so the flag decides who does.
LEMMA EntersExit ==
  ASSUME ExitInv, alive, NEW t \in X!Thread, ~X!Shutdown,
         threadPc[t] \in {"run", "leave"}, threadPc' = [threadPc EXCEPT ![t] = "exit"],
         leaving' \in BOOLEAN,
         leaving' \/ (t = Program /\ \A u \in Tasks : threadPc[u] = "over"),
         UNCHANGED <<X!measures, handlers, written, alive, X!terminal>>
  PROVE  ExitInv'
<1>1. /\ threadPc' \in [X!Thread -> Place] /\ threadPc'[t] = "exit"
      /\ \A u \in X!Thread : u # t => threadPc'[u] = threadPc[u]
  <2>1. "exit" \in Place
    BY DEF Place, ExitPlace
  <2> QED BY <2>1, GoesTo
<1>2. /\ Program \in X!Thread /\ (\A u \in Tasks : u \in X!Thread /\ u # Program)
      /\ \A u \in X!Thread : threadPc[u] \notin ExitPlace
  BY ExitAssumption DEF X!Thread, X!Shutdown, X!Exiting, ExitPlace
<1>3. X!Shutdown' /\ threadPc'[t] \in ExitPlace
  BY <1>1 DEF X!Shutdown, X!Exiting, ExitPlace
<1>4. OneExit'
  <2>1. \A u, v \in X!Thread : threadPc'[u] \in ExitPlace /\ threadPc'[v] \in ExitPlace => u = v
    BY <1>1, <1>2
  <2>2. ~leaving' => threadPc'[Program] \in ExitPlace /\ \A u \in Tasks : threadPc'[u] = "over"
    BY <1>1, <1>2, <1>3
  <2> QED BY <1>3, <2>1, <2>2 DEF OneExit
<1>5. /\ arming' = arming /\ flags' = flags /\ raced' = raced /\ handlers' = handlers
      /\ written' = written /\ alive' = alive /\ UNCHANGED X!terminal
  BY DEF X!measures
<1>6. /\ threadPc[t] \notin ArmPlace /\ "exit" \notin ArmPlace
      /\ threadPc[t] \notin TerminalPlace /\ "exit" \notin TerminalPlace
  BY DEF ArmPlace, TerminalPlace
<1>7. ExitTypes'
  <2>1. \A u \in X!Thread : threadPc'[u] \in ArmPlace => arming'[u] \in Measures
    BY <1>1, <1>5, <1>6 DEF ExitInv, ExitTypes
  <2>2. \A u \in Tasks : threadPc'[u] \notin TerminalPlace
    BY <1>1, <1>2, <1>6 DEF ExitInv, ExitTypes
  <2> QED BY <1>1, <1>5, <2>1, <2>2 DEF ExitInv, ExitTypes, X!terminal
<1>8. MeasuresKept'
  <2>1. \A u \in X!Thread : threadPc'[u] = threadPc[u]
                              \/ (threadPc'[u] \notin ArmPlace /\ threadPc[u] \notin ArmPlace)
    BY <1>1, <1>6
  <2> QED BY <1>5, <2>1, MeasuresStay
<1>9. TerminalKept'
  <2>1. threadPc'[Program] = threadPc[Program]
          \/ (threadPc'[Program] \notin TerminalPlace /\ threadPc[Program] \notin TerminalPlace)
    BY <1>1, <1>2, <1>6
  <2>2. \A u \in X!Thread :
          threadPc'[u] \in {"exitFound", "exitEmptied"} \/ threadPc[u] \in {"exitFound", "exitEmptied"}
            => threadPc'[u] = threadPc[u]
    BY <1>1
  <2> QED BY <1>5, <2>1, <2>2, TerminalStays
<1> QED BY <1>3, <1>4, <1>5, <1>7, <1>8, <1>9 DEF ExitInv, RunOnce, HandlerKept, DeadInOrder

LEMMA ExitOnceKeeps ==
  ASSUME ExitInv, alive, NEW t \in X!Thread, X!pas_exit_once(t)
  PROVE  ExitInv'
<1>1. /\ threadPc[t] = "leave" /\ leaving' = TRUE /\ leaving \in BOOLEAN
      /\ threadPc' = [threadPc EXCEPT ![t] = IF leaving THEN "cut" ELSE "exit"]
      /\ alive' = ~leaving /\ UNCHANGED <<X!measures, handlers, written, X!terminal>>
  BY DEF X!pas_exit_once, X!Goto, ExitInv, ExitTypes
\* A second thread ends the process in the midst of the first one's shutdown.
<1>2. CASE leaving
  <2>1. /\ threadPc' \in [X!Thread -> Place] /\ threadPc'[t] = "cut" /\ leaving' = leaving
        /\ \A u \in X!Thread : u # t => threadPc'[u] = threadPc[u]
    <3>1. "cut" \in Place /\ threadPc' = [threadPc EXCEPT ![t] = "cut"]
      BY <1>1, <1>2 DEF Place
    <3> QED BY <1>1, <1>2, <3>1, GoesTo
  <2>2. /\ arming' = arming /\ flags' = flags /\ raced' = raced /\ handlers' = handlers
        /\ written' = written /\ UNCHANGED X!terminal /\ alive' = FALSE
    BY <1>1, <1>2 DEF X!measures
  <2>3. OneExit' /\ (X!Shutdown' <=> X!Shutdown)
    <3>1. \A u \in X!Thread : threadPc'[u] \in ExitPlace <=> threadPc[u] \in ExitPlace
      BY <1>1, <2>1 DEF ExitPlace
    <3>2. \A u \in X!Thread : threadPc[u] = "over" => threadPc'[u] = "over"
      BY <1>1, <2>1
    <3> QED BY <2>1, <3>1, <3>2, ExitsStay
  <2>4. X!Cut'
    BY <2>1 DEF X!Cut
  <2>5. /\ threadPc[t] \notin ArmPlace /\ "cut" \notin ArmPlace
        /\ threadPc[t] \notin TerminalPlace /\ "cut" \notin TerminalPlace
    BY <1>1 DEF ArmPlace, TerminalPlace
  <2>6. ExitTypes'
    <3>1. \A u \in X!Thread : threadPc'[u] \in ArmPlace => arming'[u] \in Measures
      BY <2>1, <2>2, <2>5 DEF ExitInv, ExitTypes
    <3>2. \A u \in Tasks : threadPc'[u] \notin TerminalPlace
      BY <2>1, <2>5 DEF ExitInv, ExitTypes, X!Thread
    <3> QED BY <1>1, <2>1, <2>2, <3>1, <3>2 DEF ExitInv, ExitTypes, X!terminal
  <2>7. MeasuresKept'
    <3>1. \A u \in X!Thread : threadPc'[u] = threadPc[u]
                                \/ (threadPc'[u] \notin ArmPlace /\ threadPc[u] \notin ArmPlace)
      BY <2>1, <2>5
    <3> QED BY <1>1, <2>2, <3>1, MeasuresStay
  <2>8. TerminalKept'
    <3>1. Program \in X!Thread
      BY DEF X!Thread
    <3>2. threadPc'[Program] = threadPc[Program]
            \/ (threadPc'[Program] \notin TerminalPlace /\ threadPc[Program] \notin TerminalPlace)
      BY <2>1, <2>5, <3>1
    <3>3. \A u \in X!Thread :
            threadPc'[u] \in {"exitFound", "exitEmptied"} \/ threadPc[u] \in {"exitFound", "exitEmptied"}
              => threadPc'[u] = threadPc[u]
      BY <1>1, <2>1
    <3> QED BY <2>2, <3>2, <3>3, TerminalStays
  <2> QED BY <2>2, <2>3, <2>4, <2>6, <2>7, <2>8
          DEF ExitInv, RunOnce, HandlerKept, DeadInOrder, X!terminal
<1>3. CASE ~leaving
  <2>1. ~X!Shutdown
    <3>1. X!Shutdown => t # Program /\ t \notin Tasks
      BY <1>1, <1>3 DEF ExitInv, OneExit, ExitPlace
    <3> QED BY <3>1 DEF X!Thread
  <2>2. threadPc' = [threadPc EXCEPT ![t] = "exit"] /\ alive' = alive
    BY <1>1, <1>3
  <2> QED BY <1>1, <2>1, <2>2, EntersExit
<1> QED BY <1>2, <1>3

LEMMA ProgramReturnsKeeps == ASSUME ExitInv, alive, X!ProgramReturns PROVE ExitInv'
<1>1. /\ threadPc[Program] = "run" /\ \A t \in Tasks : threadPc[t] = "over"
      /\ threadPc' = [threadPc EXCEPT ![Program] = "exit"]
      /\ UNCHANGED <<X!measures, leaving, handlers, written, alive, X!terminal>>
  BY DEF X!ProgramReturns, X!Goto
<1>2. Program \in X!Thread /\ leaving' \in BOOLEAN
  BY <1>1 DEF X!Thread, ExitInv, ExitTypes
<1>3. ~X!Shutdown
  BY <1>1 DEF X!Shutdown, X!Exiting, X!Thread
<1> QED BY <1>1, <1>2, <1>3, EntersExit

LEMMA ExitKeeps == ASSUME ExitInv, alive, NEW t \in X!Thread, X!Exit(t) PROVE ExitInv'
<1>1. /\ threadPc[t] = "exit" /\ handlers = <<>> /\ alive' = FALSE /\ threadPc' = threadPc
      /\ UNCHANGED <<arming, flags, raced, leaving, handlers, written>>
      /\ UNCHANGED <<tty, saved, savedFd, termArmed, spoilt>>
  BY DEF X!Exit, X!measures, X!terminal
<1>2. ToSet(handlers) = {}
  BY <1>1, EmptyOnce
<1>3. ~ExitFound /\ ~ExitEmptied
  <2>1. \A u \in X!Thread : threadPc[u] \in ExitPlace => threadPc[u] = "exit"
    BY <1>1 DEF ExitInv, OneExit, ExitPlace
  <2> QED BY <2>1 DEF ExitFound, ExitEmptied, ExitPlace
<1>4. tty = "cooked" \/ spoilt \/ threadPc[Program] \in {"raw", "marked", "emptied"}
  BY <1>2, <1>3 DEF ExitInv, TerminalKept
<1>5. DeadInOrder'
  BY <1>1, <1>4 DEF DeadInOrder
<1>6. OneExit' /\ (X!Shutdown' <=> X!Shutdown)
  BY <1>1, ExitsStay
<1>7. MeasuresKept'
  BY <1>1, MeasuresStay DEF X!measures
<1>8. TerminalKept'
  BY <1>1, TerminalStays DEF X!terminal
<1> QED BY <1>1, <1>5, <1>6, <1>7, <1>8 DEF ExitInv, ExitTypes, RunOnce, HandlerKept

LEMMA NextExitInv == ExitInv /\ [X!Next]_(X!vars) => ExitInv'
<1> SUFFICES ASSUME ExitInv, [X!Next]_(X!vars) PROVE ExitInv'
  OBVIOUS
<1>1. CASE UNCHANGED X!vars
  BY <1>1 DEF X!vars, X!measures, X!terminal, ExitInv, ExitTypes, OneExit, MeasuresKept, MeasureKept,
              Listed, Arms, RunOnce, HandlerKept, TerminalKept, ExitFound, ExitEmptied, DeadInOrder,
              X!Shutdown, X!Exiting, X!Cut
<1>2. CASE alive /\ X!ProgramReturns
  BY <1>2, ProgramReturnsKeeps
<1>3. CASE alive /\ X!OfTerminal
  BY <1>3, RawKeeps, MarkKeeps, RestoreKeeps, SetRawKeeps, RegisterRestoreKeeps DEF X!OfTerminal
<1>4. ASSUME alive, NEW t \in X!Thread, X!OfThread(t) PROVE ExitInv'
  BY <1>4, LeavingKeeps, ExitOnceKeeps, DumpKeeps, ExitKeeps, ReadFlagKeeps, SetFlagKeeps,
     RegisterKeeps, AtExitKeeps, EmptySlotKeeps, PutBackKeeps DEF X!OfThread
<1> QED BY <1>1, <1>2, <1>3, <1>4 DEF X!Next

\* The inductive invariant of leaving.
THEOREM ExitInvariant == X!Spec => []ExitInv
BY InitExitInv, NextExitInv, PTL DEF X!Spec

\* However many threads fail, halt or end, and in whatever order: two are never
\* both in exit; a process whose shutdown nobody cut short has run every handler,
\* written every measure it had registered, and given the terminal back unless it
\* ended midway through a change; and a measure is written twice only after a
\* race for its flag (pas_exit_once, pas_cov_hit, pasx_term_at_exit).
THEOREM ProcessEndsInOrder == X!Spec => []EndsInOrder
<1>1. ASSUME ExitInv PROVE EndsInOrder
  <2>1. Thread = X!Thread /\ (Cut <=> X!Cut)
    BY DEF Thread, X!Thread, Cut, X!Cut
  <2>2. ASSUME ~alive, ~Cut
        PROVE  /\ handlers = <<>> /\ (tty = "cooked" \/ spoilt \/ Midway)
               /\ \A m \in flags : \/ m \in ToSet(written)
                                   \/ \E t \in Thread : threadPc[t] = "flagged" /\ arming[t] = m
    <3>1. handlers = <<>> /\ (tty = "cooked" \/ spoilt \/ Midway)
      BY <1>1, <2>1, <2>2 DEF ExitInv, DeadInOrder, Midway
    <3>2. ToSet(handlers) = {}
      BY <3>1, EmptyOnce
    <3>3. \A m \in flags : MeasureKept(m)
      BY <1>1 DEF ExitInv, MeasuresKept
    <3> QED BY <2>1, <3>1, <3>2, <3>3 DEF MeasureKept, Listed
  <2>3. \A i, j \in DOMAIN written : written[i] = written[j] => i = j \/ written[i] \in raced
    BY <1>1 DEF ExitInv, RunOnce, OnceBut
  <2>4. \A t, u \in Thread : Exiting(t) /\ Exiting(u) => t = u
    BY <1>1, <2>1 DEF ExitInv, OneExit, Exiting, ExitPlace
  <2> QED BY <2>2, <2>3, <2>4 DEF EndsInOrder
<1> QED BY <1>1, ExitInvariant, PTL

-----------------------------------------------------------------------------
(* The run of a program.                                                   *)

RunPlace == {"idle", "pipe", "spawn", "read", "close", "wait", "kill"}
Life == {"none", "running", "signalled", "reaped"} \cup Codes

\* Every variable has its type, and the pipe never holds more than it can.
ProcessTypes ==
  /\ argv \in [words : Nat, slots : Nat, deadline : BOOLEAN]
  /\ runPc \in RunPlace
  /\ proc \in [allocated : BOOLEAN, captured : BOOLEAN, killed : BOOLEAN, deadline : BOOLEAN,
               late : BOOLEAN, refused : BOOLEAN, unread : Nat]
  /\ fds \subseteq {"read", "write"} /\ shielded \in BOOLEAN /\ held \subseteq P!Outside
  /\ pipe \in 0 .. PipeSize /\ child \in Life
  /\ answer \in {P!Nothing, "errAbsent", "errIO"} \cup Codes

\* Where a run is says which of its resources exist: no child before it was
\* started, one that nobody has waited for until the run is over, and no end
\* of the pipe once the wait has begun.
ResourcesByPlace ==
  /\ runPc = "idle" => ~proc.allocated /\ child \in {"none", "reaped"}
  /\ runPc \in {"pipe", "spawn"} => child = "none"
  /\ runPc \in {"read", "close", "wait", "kill"} => child \notin {"none", "reaped"}
  /\ runPc \in {"idle", "wait", "kill"} => fds = {}

\* The words of a vector and their NULL are inside its array.
VectorFits == argv.slots > argv.words \/ (argv.slots = 0 /\ argv.words = 0)

ProcessInv == ProcessTypes /\ ResourcesByPlace /\ VectorFits /\ ReadToTheEnd

LEMMA EmptyPipe == 0 \in 0 .. PipeSize
BY ProcessAssumption

LEMMA InitProcessInv == P!Init => ProcessInv
<1> SUFFICES ASSUME P!Init PROVE ProcessInv
  OBVIOUS
<1>1. ProcessTypes
  BY EmptyPipe DEF P!Init, ProcessTypes, P!NoVector, P!NoProc, RunPlace, Life
<1>2. ResourcesByPlace /\ VectorFits /\ ReadToTheEnd
  BY DEF P!Init, ResourcesByPlace, VectorFits, ReadToTheEnd, P!NoVector, P!NoProc
<1> QED BY <1>1, <1>2 DEF ProcessInv

\* The vector's operations touch the vector alone.
LEMMA VectorKeeps == ASSUME ProcessInv, P!Vector PROVE ProcessInv'
<1>1. UNCHANGED <<runPc, proc, fds, shielded, held, pipe, child, answer>> /\ runPc = "idle"
  BY DEF P!Vector, P!pasx_argv_new, P!pasx_argv_push, P!pasx_argv_free, P!pasx_argv_drop,
         P!pasx_argv_deadline, P!os
<1>2. argv' \in [words : Nat, slots : Nat, deadline : BOOLEAN] /\ VectorFits'
  <2>1. argv \in [words : Nat, slots : Nat, deadline : BOOLEAN] /\ VectorFits
    BY DEF ProcessInv, ProcessTypes
  <2>2. CASE P!pasx_argv_new
    BY <2>1, <2>2, ProcessAssumption DEF P!pasx_argv_new, VectorFits
  <2>3. CASE P!pasx_argv_push
    <3>1. argv' = [words |-> argv.words + 1, deadline |-> argv.deadline,
                   slots |-> IF argv.words + 2 > argv.slots THEN 2 * argv.slots ELSE argv.slots]
      BY <2>1, <2>3 DEF P!pasx_argv_push
    <3>2. argv.slots > argv.words
      BY <2>1, <2>3 DEF P!pasx_argv_push, VectorFits
    <3> QED BY <2>1, <3>1, <3>2 DEF VectorFits
  <2>4. CASE P!pasx_argv_free
    BY <2>4 DEF P!pasx_argv_free, P!NoVector, VectorFits
  <2>5. ASSUME NEW keep \in 0 .. ArgvMax, P!pasx_argv_drop(keep)
        PROVE  argv' \in [words : Nat, slots : Nat, deadline : BOOLEAN] /\ VectorFits'
    BY <2>1, <2>5, ProcessAssumption DEF P!pasx_argv_drop, VectorFits
  <2>6. ASSUME NEW some \in BOOLEAN, P!pasx_argv_deadline(some)
        PROVE  argv' \in [words : Nat, slots : Nat, deadline : BOOLEAN] /\ VectorFits'
    BY <2>1, <2>6 DEF P!pasx_argv_deadline, VectorFits
  <2> QED BY <2>2, <2>3, <2>4, <2>5, <2>6 DEF P!Vector
<1> QED BY <1>1, <1>2 DEF ProcessInv, ProcessTypes, ResourcesByPlace, ReadToTheEnd

\* Starting: what was made is given back when the start fails.
LEMMA StartKeeps ==
  ASSUME ProcessInv,
         \/ P!Refuse \/ P!pasx_cloexec \/ P!FailStart \/ P!Spawn \/ \E capture \in BOOLEAN : P!Begin(capture)
  PROVE  ProcessInv'
<1> USE DEF ProcessInv, ProcessTypes, ResourcesByPlace, VectorFits, ReadToTheEnd, RunPlace, Life, P!os
<1>1. CASE P!Refuse
  BY <1>1 DEF P!Refuse
<1>2. CASE P!pasx_cloexec
  BY <1>2 DEF P!pasx_cloexec
<1>3. CASE P!FailStart
  BY <1>3 DEF P!FailStart, P!NoProc
<1>4. CASE P!Spawn
  BY <1>4, ProcessAssumption DEF P!Spawn, P!Outside
<1>5. ASSUME NEW capture \in BOOLEAN, P!Begin(capture) PROVE ProcessInv'
  <2>1. /\ proc' = [allocated |-> TRUE, captured |-> capture, killed |-> FALSE,
                    deadline |-> argv.deadline, late |-> FALSE, refused |-> FALSE, unread |-> 0]
        /\ fds' \subseteq {"read", "write"} /\ runPc' \in {"pipe", "spawn"}
        /\ shielded' = FALSE /\ held' = {} /\ pipe' = 0 /\ child' = "none" /\ answer' = P!Nothing
        /\ argv' = argv
    BY <1>5 DEF P!Begin, P!NoProc
  <2>2. ProcessTypes'
    BY <2>1, EmptyPipe
  <2> QED BY <2>1, <2>2
<1> QED BY <1>1, <1>2, <1>3, <1>4, <1>5

\* Reading, until the end, a refusal or the deadline.
LEMMA ReadingKeeps ==
  ASSUME ProcessInv, P!TakeBuffered \/ P!Read \/ P!ReadRefused \/ P!Expire
  PROVE  ProcessInv'
<1> USE DEF ProcessInv, ProcessTypes, ResourcesByPlace, VectorFits, ReadToTheEnd, RunPlace, Life, P!os
<1>1. CASE P!TakeBuffered
  BY <1>1 DEF P!TakeBuffered
<1>2. CASE P!Read
  <2> DEFINE n == IF pipe < BufSize THEN pipe ELSE BufSize
  <2>1. /\ runPc = "read" /\ proc.unread = 0 /\ P!Ready /\ pipe' = pipe - n
        /\ proc' = [proc EXCEPT !.unread = IF n > 0 THEN n - 1 ELSE 0]
        /\ runPc' = IF n > 0 THEN "read" ELSE "close"
        /\ UNCHANGED <<argv, fds, shielded, held, child, answer>>
    BY <1>2 DEF P!Read
  <2>2. n \in Nat /\ n <= pipe /\ (n = 0 <=> pipe = 0)
    BY ProcessAssumption
  <2> HIDE DEF n
  <2>3. pipe' \in 0 .. PipeSize /\ (n = 0 => pipe' = 0)
    BY <2>1, <2>2, ProcessAssumption
  <2>4. (IF n > 0 THEN n - 1 ELSE 0) \in Nat
    BY <2>2
  <2>5. /\ proc' \in [allocated : BOOLEAN, captured : BOOLEAN, killed : BOOLEAN,
                      deadline : BOOLEAN, late : BOOLEAN, refused : BOOLEAN, unread : Nat]
        /\ n = 0 => proc'.unread = 0
    BY <2>1, <2>2, <2>4
  <2>6. n = 0 => held = {}
    BY <2>1, <2>2 DEF P!Ready, P!Writers
  <2>7. ReadToTheEnd'
    BY <2>1, <2>2, <2>3, <2>5, <2>6
  <2> QED BY <2>1, <2>3, <2>5, <2>7
<1>3. CASE P!ReadRefused
  BY <1>3 DEF P!ReadRefused
<1>4. CASE P!Expire
  BY <1>4 DEF P!Expire, P!Expired
<1> QED BY <1>1, <1>2, <1>3, <1>4

\* Waiting, and the signal between a look in vain and the next.
LEMMA WaitingKeeps ==
  ASSUME ProcessInv, P!pasx_exec_close \/ P!Reap \/ P!LookInVain \/ P!KillLate
  PROVE  ProcessInv'
<1> USE DEF ProcessInv, ProcessTypes, ResourcesByPlace, VectorFits, ReadToTheEnd, RunPlace, Life, P!os
<1>1. CASE P!pasx_exec_close
  BY <1>1 DEF P!pasx_exec_close
<1>2. CASE P!Reap
  BY <1>2 DEF P!Reap, P!NoProc
<1>3. CASE P!LookInVain
  BY <1>3 DEF P!LookInVain
<1>4. CASE P!KillLate
  BY <1>4 DEF P!KillLate, P!Expired
<1> QED BY <1>1, <1>2, <1>3, <1>4

\* What goes on outside: once no writer is left, none comes back.
LEMMA OutsideKeeps ==
  ASSUME ProcessInv, P!Quietly \/ \E w \in P!Outside : P!Write(w)
  PROVE  ProcessInv'
<1> USE DEF ProcessInv, ProcessTypes, ResourcesByPlace, VectorFits, ReadToTheEnd, RunPlace, Life, P!os,
            P!ofParent
<1>1. CASE P!Tick
  <2>1. /\ proc' = [proc EXCEPT !.late = TRUE]
        /\ UNCHANGED <<argv, runPc, fds, answer, shielded, held, pipe, child>>
    BY <1>1 DEF P!Tick
  <2>2. /\ proc' \in [allocated : BOOLEAN, captured : BOOLEAN, killed : BOOLEAN,
                      deadline : BOOLEAN, late : BOOLEAN, refused : BOOLEAN, unread : Nat]
        /\ proc'.allocated = proc.allocated /\ proc'.captured = proc.captured
        /\ proc'.killed = proc.killed /\ proc'.refused = proc.refused
        /\ proc'.unread = proc.unread /\ proc'.deadline = proc.deadline
    BY <2>1
  <2>3. ProcessTypes'
    BY <2>1, <2>2
  <2> QED BY <2>1, <2>2, <2>3
<1>2. CASE P!Fork
  BY <1>2 DEF P!Fork, P!Outside
<1>3. CASE P!Die
  BY <1>3, ProcessAssumption DEF P!Die
<1>4. CASE P!OtherSpawns
  BY <1>4 DEF P!OtherSpawns, P!Outside
<1>5. ASSUME NEW w \in P!Outside, P!LetGo(w) PROVE ProcessInv'
  BY <1>5 DEF P!LetGo
<1>6. ASSUME NEW code \in Codes, P!Exit(code) PROVE ProcessInv'
  BY <1>6, ProcessAssumption DEF P!Exit
<1>7. ASSUME NEW w \in P!Outside, P!Write(w) PROVE ProcessInv'
  BY <1>7, ProcessAssumption DEF P!Write
<1> QED BY <1>1, <1>2, <1>3, <1>4, <1>5, <1>6, <1>7 DEF P!Quietly

LEMMA NextProcessInv == ProcessInv /\ [P!Next]_(P!vars) => ProcessInv'
<1> SUFFICES ASSUME ProcessInv, [P!Next]_(P!vars) PROVE ProcessInv'
  OBVIOUS
<1>1. CASE UNCHANGED P!vars
  BY <1>1 DEF P!vars, ProcessInv, ProcessTypes, ResourcesByPlace, VectorFits, ReadToTheEnd
<1>2. CASE P!Next
  BY <1>2, VectorKeeps, StartKeeps, ReadingKeeps, WaitingKeeps, OutsideKeeps DEF P!Next, P!Running
<1> QED BY <1>1, <1>2

\* The inductive invariant of a run, with any writing and with the writing
\* that stops when the time is up.
THEOREM ProcessInvariant == (P!Spec => []ProcessInv) /\ (P!QuietSpec => []ProcessInv)
<1>1. [P!QuietNext]_(P!vars) => [P!Next]_(P!vars)
  BY DEF P!QuietNext, P!Next
<1> QED BY <1>1, InitProcessInv, NextProcessInv, PTL DEF P!Spec, P!QuietSpec

\* Between runs no descriptor, record or unwaited child is left, during one its
\* child has not been waited for, and the vector's NULL is inside its array, on
\* every path through pasx_exec_start, pasx_exec_getc and pasx_exec_close.
THEOREM RunsLeaveNothing == (P!Spec => []NothingLeftBehind) /\ (P!QuietSpec => []NothingLeftBehind)
<1>1. ProcessInv => NothingLeftBehind
  BY DEF ProcessInv, ProcessTypes, ResourcesByPlace, VectorFits, NothingLeftBehind, RunPlace
<1> QED BY <1>1, ProcessInvariant, PTL

\* pasx_exec_getc answers the end only when the pipe and the buffer are empty
\* and no process, a descendant or a stranger's child included, can write any
\* more; unless the deadline killed the child or the system refused to read.
THEOREM OutputReadToTheEnd == (P!Spec => []ReadToTheEnd) /\ (P!QuietSpec => []ReadToTheEnd)
<1>1. ProcessInv => ReadToTheEnd
  BY DEF ProcessInv
<1> QED BY <1>1, ProcessInvariant, PTL

-----------------------------------------------------------------------------
(* The connection.                                                         *)

Byte == {"x", CR, LF}

\* The types, within the sizes the code relies on.
SocketTypes ==
  /\ sends \in Seq(Byte)
  /\ arrived \in Nat /\ arrived <= Len(sends)
  /\ taken \in Nat /\ taken <= arrived
  /\ ended => arrived = Len(sends)
  /\ sockBuf \in Seq(Byte) /\ Len(sockBuf) <= SockBuf
  /\ head \in Nat /\ head <= Len(sockBuf)
  /\ call.op = "readline" => call.cap \in Nat

\* From head on, the buffer is the end of what was taken of the stream.
HoldsTheStream ==
  /\ Len(sockBuf) - head <= taken
  /\ \A i \in 1 .. Len(sockBuf) - head : sockBuf[head + i] = sends[taken - (Len(sockBuf) - head) + i]

\* A program inside poll holds no newline and has room to read one.
WaitsForMore ==
  call.op = "wait" =>
    /\ \A i \in 1 .. Len(sockBuf) - head : sockBuf[head + i] # LF
    /\ Len(sockBuf) - head < SockBuf

SocketInv == SocketTypes /\ HoldsTheStream /\ WaitsForMore

-----------------------------------------------------------------------------
(* What is held, element by element.                                       *)

\* Held is a sequence of bytes as long as what lies between head and tail.
LEMMA HeldFacts ==
  ASSUME SocketTypes
  PROVE  /\ Held \in Seq(Byte)
         /\ Len(Held) = Len(sockBuf) - head
         /\ \A i \in 1 .. Len(Held) : Held[i] = sockBuf[head + i]
         /\ Len(Held) \in Nat
<1>1. /\ head + 1 \in Int /\ Len(sockBuf) \in Int
      /\ \A i \in head + 1 .. Len(sockBuf) : sockBuf[i] \in Byte
  BY SMT DEF SocketTypes
<1>2. /\ SubSeq(sockBuf, head + 1, Len(sockBuf)) \in Seq(Byte)
      /\ Len(SubSeq(sockBuf, head + 1, Len(sockBuf))) =
           IF head + 1 <= Len(sockBuf) THEN Len(sockBuf) - (head + 1) + 1 ELSE 0
      /\ \A i \in 1 .. Len(sockBuf) - (head + 1) + 1 :
           SubSeq(sockBuf, head + 1, Len(sockBuf))[i] = sockBuf[head + 1 + i - 1]
  BY <1>1, SubSeqProperties
<1>3. head \in Nat /\ Len(sockBuf) \in Nat /\ head <= Len(sockBuf)
  BY SMT DEF SocketTypes
<1>4. Len(Held) = Len(sockBuf) - head
  BY <1>2, <1>3, SMT DEF Held
<1>5. \A i \in 1 .. Len(Held) : Held[i] = sockBuf[head + i]
  <2>1. SUFFICES ASSUME NEW i \in 1 .. Len(sockBuf) - head PROVE Held[i] = sockBuf[head + i]
    BY <1>4
  <2>2. i \in 1 .. Len(sockBuf) - (head + 1) + 1 /\ head + 1 + i - 1 = head + i
    BY <1>3, <2>1, SMT
  <2>. QED BY <1>2, <2>2 DEF Held
<1>. QED BY <1>2, <1>3, <1>4, <1>5, SMT DEF Held

\* A slice of the stream, element by element.
LEMMA SliceFacts ==
  ASSUME NEW s \in Seq(Byte), NEW p \in Nat, NEW q \in Nat, p <= q, q <= Len(s)
  PROVE  /\ SubSeq(s, p + 1, q) \in Seq(Byte)
         /\ Len(SubSeq(s, p + 1, q)) = q - p
         /\ \A i \in 1 .. q - p : SubSeq(s, p + 1, q)[i] = s[p + i]
<1>1. p + 1 \in Int /\ q \in Int /\ \A i \in p + 1 .. q : s[i] \in Byte
  BY SMT
<1>2. /\ SubSeq(s, p + 1, q) \in Seq(Byte)
      /\ Len(SubSeq(s, p + 1, q)) = IF p + 1 <= q THEN q - (p + 1) + 1 ELSE 0
      /\ \A i \in 1 .. q - (p + 1) + 1 : SubSeq(s, p + 1, q)[i] = s[p + 1 + i - 1]
  BY <1>1, SubSeqProperties
<1>3. \A i \in 1 .. q - p : SubSeq(s, p + 1, q)[i] = s[p + i]
  <2>1. SUFFICES ASSUME NEW i \in 1 .. q - p PROVE SubSeq(s, p + 1, q)[i] = s[p + i]
    OBVIOUS
  <2>2. i \in 1 .. q - (p + 1) + 1 /\ p + 1 + i - 1 = p + i
    BY <2>1, SMT
  <2>. QED BY <1>2, <2>2
<1>. QED BY <1>2, <1>3, SMT

\* What is held is the part of the stream that is taken and not answered for.
LEMMA HeldIsOfTheStream ==
  ASSUME SocketTypes, HoldsTheStream
  PROVE  /\ Answered \in Nat /\ Answered <= taken
         /\ taken = Answered + Len(Held)
         /\ \A i \in 1 .. Len(Held) : Held[i] = sends[Answered + i]
<1>1. /\ Len(Held) = Len(sockBuf) - head /\ Len(Held) \in Nat
      /\ \A i \in 1 .. Len(Held) : Held[i] = sockBuf[head + i]
  BY HeldFacts
<1>2. taken \in Nat /\ Len(Held) <= taken
  BY <1>1, SMT DEF SocketTypes, HoldsTheStream
<1>3. Answered \in Nat /\ Answered <= taken /\ taken = Answered + Len(Held)
  BY <1>1, <1>2, SMT DEF Answered
<1>4. Answered = taken - (Len(sockBuf) - head)
  BY <1>1 DEF Answered
<1>5. \A i \in 1 .. Len(Held) : Held[i] = sends[Answered + i]
  BY <1>1, <1>4 DEF HoldsTheStream
<1>. QED BY <1>3, <1>5

-----------------------------------------------------------------------------
(* The invariant, action by action.                                        *)

LEMMA SocketInitially == Init => SocketInv
<1>1. SUFFICES ASSUME Init PROVE SocketInv
  OBVIOUS
<1>2. sends \in Seq(Byte) /\ SockBuf \in Nat /\ SockBuf > 0
  BY <1>1, SocketAssumption, SMT DEF Init, Byte
<1>3. <<>> \in Seq(Byte) /\ Len(<<>>) = 0
  BY EmptySeq, SMT
<1>. QED
  BY <1>1, <1>2, <1>3, SMT
  DEF Init, Idle, SocketInv, SocketTypes, HoldsTheStream, WaitsForMore

\* Steps that leave the buffer alone: more may have arrived, and a wait has
\* begun only over a buffer without a line.
LEMMA BufferKept ==
  ASSUME SocketInv,
         sends' = sends, taken' = taken, sockBuf' = sockBuf, head' = head,
         arrived' \in Nat, arrived <= arrived', arrived' <= Len(sends),
         ended' => arrived' = Len(sends),
         call'.op = "readline" => call'.cap \in Nat,
         call'.op = "wait" =>
           /\ \A i \in 1 .. Len(sockBuf) - head : sockBuf[head + i] # LF
           /\ Len(sockBuf) - head < SockBuf
  PROVE  SocketInv'
<1>1. SocketTypes'
  BY SMT DEF SocketInv, SocketTypes
<1>2. HoldsTheStream'
  BY DEF SocketInv, HoldsTheStream
<1>3. WaitsForMore'
  BY DEF WaitsForMore
<1>. QED BY <1>1, <1>2, <1>3 DEF SocketInv

\* Steps that empty the buffer: what was held is answered for.
LEMMA BufferEmptied ==
  ASSUME SocketInv,
         sends' = sends, arrived' = arrived, ended' = ended,
         taken' \in Nat, taken' <= arrived, sockBuf' = <<>>, head' = 0,
         call'.op = "readline" => call'.cap \in Nat
  PROVE  SocketInv'
<1>1. <<>> \in Seq(Byte) /\ Len(<<>>) = 0
  BY EmptySeq, SMT
<1>2. SockBuf \in Nat /\ SockBuf > 0
  BY SocketAssumption, SMT
<1>. QED
  BY <1>1, <1>2, SMT DEF SocketInv, SocketTypes, HoldsTheStream, WaitsForMore

\* The part of the step that is about this side's buffer.
LEMMA ReadMoreKeeps ==
  ASSUME SocketInv, NEW n \in 1 .. SockBuf, ReadMore(n)
  PROVE  SocketInv'
<1>. DEFINE more == SubSeq(sends, taken + 1, taken + n)
<1>1. /\ sends' = sends /\ arrived' = arrived /\ ended' = ended /\ call' = call
      /\ taken' = taken + n /\ head' = 0 /\ sockBuf' = Held \o more
      /\ n <= SockBuf - Len(Held) /\ taken + n <= arrived /\ call.op = "readline"
  BY DEF ReadMore, rest, far, Waits, Reading
<1>2. /\ SocketTypes /\ HoldsTheStream /\ sends \in Seq(Byte) /\ Len(sends) \in Nat
      /\ taken \in Nat /\ arrived <= Len(sends) /\ arrived \in Nat /\ n \in Nat /\ n > 0
      /\ SockBuf \in Nat
  BY SocketAssumption, SMT DEF SocketInv, SocketTypes
<1>3. Held \in Seq(Byte) /\ Len(Held) \in Nat
  BY <1>2, HeldFacts
<1>4. /\ Answered \in Nat /\ taken = Answered + Len(Held)
      /\ \A i \in 1 .. Len(Held) : Held[i] = sends[Answered + i]
  BY <1>2, HeldIsOfTheStream
<1>5. /\ more \in Seq(Byte) /\ Len(more) = n
      /\ \A i \in 1 .. n : more[i] = sends[taken + i]
  <2>1. taken + n \in Nat /\ taken <= taken + n /\ taken + n <= Len(sends)
        /\ (taken + n) - taken = n
    BY <1>1, <1>2, SMT
  <2>. QED BY <1>2, <2>1, SliceFacts
<1>6. /\ sockBuf' \in Seq(Byte) /\ Len(sockBuf') = Len(Held) + n
      /\ \A i \in 1 .. Len(Held) + n :
           sockBuf'[i] = IF i <= Len(Held) THEN Held[i] ELSE more[i - Len(Held)]
  BY <1>1, <1>3, <1>5, ConcatProperties
<1>7. SocketTypes'
  BY <1>1, <1>2, <1>3, <1>6, SMT DEF SocketTypes
<1>8. \A i \in 1 .. Len(Held) + n : sockBuf'[i] = sends[Answered + i]
  <2>1. SUFFICES ASSUME NEW i \in 1 .. Len(Held) + n PROVE sockBuf'[i] = sends[Answered + i]
    OBVIOUS
  <2>2. CASE i <= Len(Held)
    <3>1. i \in 1 .. Len(Held)
      BY <1>3, <2>2, SMT
    <3>. QED BY <1>4, <1>6, <2>2, <3>1
  <2>3. CASE ~(i <= Len(Held))
    <3>1. i - Len(Held) \in 1 .. n /\ taken + (i - Len(Held)) = Answered + i
      BY <1>2, <1>3, <1>4, <2>3, SMT
    <3>. QED BY <1>5, <1>6, <2>3, <3>1
  <2>. QED BY <2>2, <2>3
<1>9. HoldsTheStream'
  <2>1. /\ Len(sockBuf') - head' = Len(Held) + n
        /\ taken' - (Len(sockBuf') - head') = Answered
        /\ Len(sockBuf') - head' <= taken'
    BY <1>1, <1>2, <1>3, <1>4, <1>6, SMT
  <2>2. \A i \in 1 .. Len(Held) + n : head' + i = i
    BY <1>1, <1>3, SMT
  <2>. QED BY <1>1, <1>8, <2>1, <2>2 DEF HoldsTheStream
<1>10. WaitsForMore'
  BY <1>1 DEF WaitsForMore
<1>. QED BY <1>7, <1>9, <1>10 DEF SocketInv

\* A step by which the buffer's own copy of what is held moves to the front,
\* and only its last Len(sockBuf') - head' bytes stay held.
LEMMA BufferMoved ==
  ASSUME SocketInv,
         sends' = sends, arrived' = arrived, ended' = ended, taken' = taken,
         sockBuf' = Held, head' \in {0, Len(Held)}, call'.op = "none"
  PROVE  SocketInv'
<1>1. /\ SocketTypes /\ HoldsTheStream /\ taken \in Nat
      /\ SockBuf \in Nat /\ Len(sockBuf) <= SockBuf /\ head \in Nat /\ Len(sockBuf) \in Nat
  BY SocketAssumption, SMT DEF SocketInv, SocketTypes
<1>2. Held \in Seq(Byte) /\ Len(Held) \in Nat /\ Len(Held) = Len(sockBuf) - head
  BY <1>1, HeldFacts
<1>3. /\ Answered \in Nat /\ taken = Answered + Len(Held)
      /\ \A i \in 1 .. Len(Held) : Held[i] = sends[Answered + i]
  BY <1>1, HeldIsOfTheStream
<1>4. head' \in Nat /\ head' <= Len(Held)
  BY <1>2, SMT
<1>5. SocketTypes'
  BY <1>1, <1>2, <1>4, SMT DEF SocketTypes
<1>6. HoldsTheStream'
  <2>1. CASE head' = 0
    <3>1. /\ Len(sockBuf') - head' = Len(Held) /\ Len(Held) <= taken
          /\ taken - Len(Held) = Answered
          /\ \A i \in 1 .. Len(Held) : head' + i = i
      BY <1>1, <1>2, <1>3, <2>1, SMT
    <3>. QED BY <1>3, <3>1 DEF HoldsTheStream
  <2>2. CASE head' = Len(Held)
    <3>1. Len(sockBuf') - head' = 0
      BY <1>2, <2>2, SMT
    <3>. QED BY <1>1, <3>1, SMT DEF HoldsTheStream
  <2>. QED BY <2>1, <2>2
<1>7. WaitsForMore'
  BY DEF WaitsForMore
<1>. QED BY <1>5, <1>6, <1>7 DEF SocketInv
-----------------------------------------------------------------------------
(* The first newline.                                                      *)

\* A set of natural numbers that is not empty has a least member.
LEMMA LeastNatural ==
  ASSUME NEW T, T \subseteq Nat, T # {}
  PROVE  \E x \in T : \A y \in T : x <= y
<1>1. PICK x \in T : \A y \in T : <<y, x>> \notin OpToRel(<, Nat)
  BY WFMin, NatLessThanWellFounded
<1>2. \A y \in T : ~(y < x)
  BY <1>1 DEF OpToRel
<1>. QED BY <1>2

\* What the loop over the held bytes finds.
LEMMA FirstNewlineIsFirst ==
  ASSUME NEW s \in Seq(Byte), Newlines(s) # {}
  PROVE  /\ FirstNewline(s) \in 1 .. Len(s) /\ s[FirstNewline(s)] = LF
         /\ \A j \in Newlines(s) : FirstNewline(s) <= j
<1>1. Newlines(s) \subseteq 1 .. Len(s) /\ \A j \in Newlines(s) : s[j] = LF
  BY SMT DEF Newlines
<1>2. Newlines(s) \subseteq Nat
  BY <1>1, SMT
<1>3. \E x \in Newlines(s) : \A y \in Newlines(s) : x <= y
  BY <1>2, LeastNatural
<1>4. FirstNewline(s) \in Newlines(s) /\ \A j \in Newlines(s) : FirstNewline(s) <= j
  BY <1>3 DEF FirstNewline
<1>. QED BY <1>1, <1>4

\* More bytes behind a line do not change where it ends.
LEMMA SameFirstNewline ==
  ASSUME NEW s \in Seq(Byte), NEW t \in Seq(Byte), Newlines(s) # {},
         Len(s) <= Len(t), \A i \in 1 .. Len(s) : s[i] = t[i]
  PROVE  Newlines(t) # {} /\ FirstNewline(t) = FirstNewline(s)
<1>1. /\ FirstNewline(s) \in 1 .. Len(s) /\ s[FirstNewline(s)] = LF
      /\ \A j \in Newlines(s) : FirstNewline(s) <= j
  BY FirstNewlineIsFirst
<1>2. FirstNewline(s) \in Newlines(t)
  BY <1>1, SMT DEF Newlines
<1>3. /\ FirstNewline(t) \in 1 .. Len(t) /\ t[FirstNewline(t)] = LF
      /\ FirstNewline(t) <= FirstNewline(s)
  BY <1>2, FirstNewlineIsFirst
<1>4. FirstNewline(t) \in Newlines(s)
  <2>1. FirstNewline(t) \in 1 .. Len(s)
    BY <1>1, <1>3, SMT
  <2>. QED BY <1>3, <2>1, SMT DEF Newlines
<1>5. FirstNewline(s) <= FirstNewline(t)
  BY <1>1, <1>4
<1>. QED BY <1>1, <1>2, <1>3, <1>5, SMT

\* A line taken out of the buffer.
LEMMA LineTaken ==
  ASSUME SocketInv, NEW k \in 1 .. Len(Held),
         sends' = sends, arrived' = arrived, ended' = ended, taken' = taken,
         sockBuf' = sockBuf, head' = head + k, call'.op = "none"
  PROVE  SocketInv'
<1>1. /\ SocketTypes /\ HoldsTheStream /\ taken \in Nat /\ head \in Nat /\ Len(sockBuf) \in Nat
  BY SMT DEF SocketInv, SocketTypes
<1>2. Len(Held) = Len(sockBuf) - head /\ Len(Held) \in Nat
  BY <1>1, HeldFacts
<1>3. head' \in Nat /\ head' <= Len(sockBuf)
  BY <1>1, <1>2, SMT
<1>4. SocketTypes'
  BY <1>1, <1>3, SMT DEF SocketTypes
<1>5. HoldsTheStream'
  <2>1. Len(sockBuf) - head' <= taken
    BY <1>1, <1>2, <1>3, SMT DEF HoldsTheStream
  <2>2. ASSUME NEW i \in 1 .. Len(sockBuf) - head'
        PROVE  sockBuf[head' + i] = sends[taken - (Len(sockBuf) - head') + i]
    <3>1. /\ k + i \in 1 .. Len(sockBuf) - head /\ head' + i = head + (k + i)
          /\ taken - (Len(sockBuf) - head') + i = taken - (Len(sockBuf) - head) + (k + i)
      BY <1>1, <1>2, <1>3, <2>2, SMT
    <3>2. sockBuf[head + (k + i)] = sends[taken - (Len(sockBuf) - head) + (k + i)]
      BY <1>1, <3>1 DEF HoldsTheStream
    <3>. QED BY <3>1, <3>2
  <2>. QED BY <2>1, <2>2 DEF HoldsTheStream
<1>6. WaitsForMore'
  BY DEF WaitsForMore
<1>. QED BY <1>4, <1>5, <1>6 DEF SocketInv

-----------------------------------------------------------------------------
(* The theorems.                                                           *)

LEMMA SocketStep == SocketInv /\ [Next]_sockVars => SocketInv'
<1>. SUFFICES ASSUME SocketInv, [Next]_sockVars PROVE SocketInv'
  OBVIOUS
<1>1. /\ SocketTypes /\ arrived \in Nat /\ Len(sends) \in Nat /\ arrived <= Len(sends)
      /\ taken \in Nat /\ taken <= arrived /\ (ended => arrived = Len(sends))
      /\ (call.op = "readline" => call.cap \in Nat) /\ WaitsForMore
  BY SMT DEF SocketInv, SocketTypes
<1>2. Idle.op = "none"
  BY DEF Idle
<1>. DEFINE Still == /\ sends' = sends /\ arrived' = arrived /\ ended' = ended
                     /\ taken' = taken /\ sockBuf' = sockBuf /\ head' = head
<1>3. ASSUME Still, call' = call \/ call'.op \in {"none", "write"} PROVE SocketInv'
  BY <1>1, <1>3, BufferKept, SMT DEF WaitsForMore
<1>4. CASE \E n \in 0 .. Addresses : pasx_socket_open(n)
  <2>1. Still /\ call' = call
    BY <1>4 DEF pasx_socket_open, far, buffer
  <2>. QED BY <1>3, <2>1
<1>5. CASE TryAddress \/ NotConnected \/ pasx_socket_new_fails \/ pasx_socket_close
  <2>1. Still /\ call' = call
    BY <1>5 DEF TryAddress, NotConnected, pasx_socket_new_fails, pasx_socket_close, far, buffer
  <2>. QED BY <1>3, <2>1
<1>6. CASE Connected
  <2>1. /\ sends' = sends /\ arrived' = arrived /\ ended' = ended /\ call' = call
        /\ taken' = 0 /\ sockBuf' = <<>> /\ head' = 0
    BY <1>6 DEF Connected, far
  <2>2. taken' \in Nat /\ taken' <= arrived
    BY <1>1, <2>1, SMT
  <2>. QED BY <1>1, <2>1, <2>2, BufferEmptied
<1>7. CASE \E cap \in LineCaps : ReadLine(cap)
  <2>1. PICK cap \in LineCaps : ReadLine(cap)
    BY <1>7
  <2>2. Still /\ call' = [op |-> "readline", cap |-> cap] /\ cap \in Nat
    BY <2>1, SocketAssumption DEF ReadLine, far, buffer
  <2>3. call'.op = "readline" /\ call'.cap \in Nat
    BY <2>2
  <2>. QED BY <1>1, <2>2, <2>3, BufferKept, SMT
<1>8. CASE BufferedLine
  <2>1. /\ sends' = sends /\ arrived' = arrived /\ ended' = ended /\ taken' = taken
        /\ sockBuf' = sockBuf /\ head' = head + FirstNewline(Held) /\ Newlines(Held) # {}
    BY <1>8 DEF BufferedLine, rest, far
  <2>2. call' = Idle
    BY <1>8 DEF BufferedLine, AnswersLine, Answers
  <2>3. FirstNewline(Held) \in 1 .. Len(Held)
    BY <1>1, <2>1, HeldFacts, FirstNewlineIsFirst
  <2>. QED BY <1>2, <2>1, <2>2, <2>3, LineTaken
<1>9. CASE LineTooLong
  <2>1. /\ sends' = sends /\ arrived' = arrived /\ ended' = ended /\ taken' = taken
        /\ sockBuf' = <<>> /\ head' = 0 /\ call' = Idle
    BY <1>9 DEF LineTooLong, Answers, rest, far
  <2>. QED BY <1>1, <1>2, <2>1, BufferEmptied
<1>10. CASE ReadRefused \/ LastLine
  <2>1. /\ sends' = sends /\ arrived' = arrived /\ ended' = ended /\ taken' = taken
        /\ sockBuf' = Held /\ head' \in {0, Len(Held)}
    BY <1>10 DEF ReadRefused, LastLine, rest, far
  <2>2. call' = Idle
    BY <1>10 DEF ReadRefused, LastLine, AnswersLine, Answers
  <2>. QED BY <1>2, <2>1, <2>2, BufferMoved
<1>11. CASE \E n \in 1 .. SockBuf : ReadMore(n)
  BY <1>11, ReadMoreKeeps
<1>12. CASE NetWait
  <2>1. Still /\ call' = [op |-> "wait", cap |-> 0] /\ ~pasx_socket_buffered
    BY <1>12 DEF NetWait, rest, far, buffer
  <2>2. call'.op = "wait"
    BY <2>1
  <2>3. /\ Held \in Seq(Byte) /\ Len(Held) = Len(sockBuf) - head /\ Len(Held) \in Nat
        /\ \A i \in 1 .. Len(Held) : Held[i] = sockBuf[head + i]
    BY <1>1, HeldFacts
  <2>4. \A i \in 1 .. Len(Held) : Held[i] # LF
    BY <2>1, <2>3, SMT DEF pasx_socket_buffered, Newlines
  <2>5. Len(sockBuf) - head < SockBuf
    <3>1. /\ Len(sockBuf) \in Nat /\ Len(sockBuf) <= SockBuf /\ head \in Nat /\ SockBuf \in Nat
      BY <1>1, SocketAssumption, SMT DEF SocketTypes
    <3>2. ~(head = 0 /\ Len(sockBuf) = SockBuf)
      BY <2>1 DEF pasx_socket_buffered
    <3>. QED BY <3>1, <3>2, SMT
  <2>6. \A i \in 1 .. Len(sockBuf) - head : sockBuf[head + i] # LF
    BY <2>3, <2>4
  <2>. QED BY <1>1, <2>1, <2>2, <2>5, <2>6, BufferKept, SMT
<1>13. CASE \E timeout \in BOOLEAN : pasx_socket_poll(timeout)
  <2>1. Still /\ call' = Idle
    BY <1>13 DEF pasx_socket_poll, rest, far, buffer
  <2>. QED BY <1>2, <1>3, <2>1
<1>14. CASE (\E n \in 1 .. MaxWrite : Write(n) \/ WriteSome(n)) \/ WriteRefused
  <2>1. Still
    BY <1>14 DEF Write, WriteSome, WriteRefused, far, buffer
  <2>2. call' = call \/ call'.op \in {"none", "write"}
    BY <1>2, <1>14 DEF Write, WriteSome, WriteRefused
  <2>. QED BY <1>3, <2>1, <2>2
<1>15. CASE Arrive \/ FarCloses
  <2>1. /\ sends' = sends /\ taken' = taken /\ sockBuf' = sockBuf /\ head' = head /\ call' = call
    BY <1>15 DEF Arrive, FarCloses, buffer
  <2>2. /\ arrived' \in Nat /\ arrived <= arrived' /\ arrived' <= Len(sends)
        /\ (ended' => arrived' = Len(sends))
    BY <1>1, <1>15, SMT DEF Arrive, FarCloses
  <2>. QED BY <1>1, <2>1, <2>2, BufferKept, SMT DEF WaitsForMore
<1>16. CASE UNCHANGED sockVars
  <2>1. Still /\ call' = call
    BY <1>16 DEF sockVars
  <2>. QED BY <1>3, <2>1
<1>. QED
  BY <1>4, <1>5, <1>6, <1>7, <1>8, <1>9, <1>10, <1>11, <1>12, <1>13, <1>14, <1>15, <1>16 DEF Next
\* The buffer holds the stream, always.
THEOREM SocketInvariant == Spec => []SocketInv
<1>1. Init => SocketInv
  BY SocketInitially
<1>2. SocketInv /\ [Next]_sockVars => SocketInv'
  BY SocketStep
<1>. QED BY <1>1, <1>2, PTL DEF Spec

\* A program inside poll with a quiet descriptor has no line in its buffer,
\* and none too long to be one: pasx_socket_buffered sees what poll cannot.
THEOREM WaitsMissNothing == Spec => []WaitMissesNothing
<1>1. SocketInv => WaitMissesNothing
  <2>. SUFFICES ASSUME SocketInv, call.op = "wait", ~Readable
                PROVE  /\ Newlines(SubSeq(sends, Answered + 1, arrived)) = {}
                       /\ Len(SubSeq(sends, Answered + 1, arrived)) < SockBuf
    BY DEF WaitMissesNothing
  <2>1. /\ SocketTypes /\ HoldsTheStream /\ sends \in Seq(Byte) /\ taken = arrived
        /\ arrived \in Nat /\ arrived <= Len(sends) /\ taken \in Nat
    BY SMT DEF SocketInv, SocketTypes, Readable
  <2>2. /\ Len(Held) = Len(sockBuf) - head /\ Len(Held) \in Nat
        /\ \A i \in 1 .. Len(Held) : Held[i] = sockBuf[head + i]
    BY <2>1, HeldFacts
  <2>3. /\ Answered \in Nat /\ Answered <= taken /\ taken = Answered + Len(Held)
        /\ \A i \in 1 .. Len(Held) : Held[i] = sends[Answered + i]
    BY <2>1, HeldIsOfTheStream
  <2>. DEFINE come == SubSeq(sends, Answered + 1, arrived)
  <2>4. /\ come \in Seq(Byte) /\ Len(come) = arrived - Answered
        /\ \A i \in 1 .. arrived - Answered : come[i] = sends[Answered + i]
    BY <2>1, <2>3, SliceFacts
  <2>5. arrived - Answered = Len(Held)
    BY <2>1, <2>2, <2>3, SMT
  <2>6. /\ \A i \in 1 .. Len(Held) : sockBuf[head + i] # LF
        /\ Len(Held) < SockBuf
    BY <2>2 DEF SocketInv, WaitsForMore
  <2>7. DOMAIN come = 1 .. Len(come)
    BY <2>4, LenProperties
  <2>8. \A i \in 1 .. Len(Held) : come[i] # LF
    BY <2>2, <2>3, <2>4, <2>5, <2>6
  <2>9. Newlines(come) = {}
    BY <2>4, <2>5, <2>7, <2>8 DEF Newlines
  <2>. HIDE DEF come
  <2>10. Len(come) < SockBuf
    BY <2>4, <2>5, <2>6
  <2>. QED BY <2>9, <2>10 DEF come
<1>. QED BY <1>1, SocketInvariant, PTL

-----------------------------------------------------------------------------
(* The lines answered.                                                     *)

\* What NextLine looks at: the next SockBuf bytes of the stream, or fewer.
Near(p) ==
  SubSeq(Onward(p), 1, IF Len(Onward(p)) < SockBuf THEN Len(Onward(p)) ELSE SockBuf)

LEMMA NearFacts ==
  ASSUME SocketTypes, NEW p \in Nat, p <= Len(sends)
  PROVE  /\ Near(p) \in Seq(Byte)
         /\ Len(Near(p)) = IF Len(sends) - p < SockBuf THEN Len(sends) - p ELSE SockBuf
         /\ \A i \in 1 .. Len(Near(p)) : Near(p)[i] = sends[p + i]
<1>1. sends \in Seq(Byte) /\ Len(sends) \in Nat /\ SockBuf \in Nat
  BY SocketAssumption, SMT DEF SocketTypes
<1>2. /\ Onward(p) \in Seq(Byte) /\ Len(Onward(p)) = Len(sends) - p
      /\ \A i \in 1 .. Len(sends) - p : Onward(p)[i] = sends[p + i]
  BY <1>1, SliceFacts DEF Onward
<1>. DEFINE k == IF Len(Onward(p)) < SockBuf THEN Len(Onward(p)) ELSE SockBuf
<1>3. k \in Nat /\ k <= Len(Onward(p)) /\ 0 \in Nat /\ 0 <= k /\ 0 + 1 = 1 /\ k - 0 = k
  BY <1>1, <1>2, SMT
<1>4. /\ SubSeq(Onward(p), 0 + 1, k) \in Seq(Byte)
      /\ Len(SubSeq(Onward(p), 0 + 1, k)) = k - 0
      /\ \A i \in 1 .. k - 0 : SubSeq(Onward(p), 0 + 1, k)[i] = Onward(p)[0 + i]
  <2>. HIDE DEF k
  <2>. QED BY <1>2, <1>3, SliceFacts
<1>5. Near(p) = SubSeq(Onward(p), 0 + 1, k)
  BY <1>3 DEF Near
<1>6. ASSUME NEW i \in 1 .. k PROVE Near(p)[i] = sends[p + i]
  <2>1. i \in 1 .. Len(sends) - p /\ 0 + i = i
    BY <1>1, <1>2, <1>3, <1>6, SMT
  <2>. HIDE DEF k
  <2>. QED BY <1>2, <1>3, <1>4, <1>5, <2>1
<1>7. Len(Near(p)) = k
  <2>. HIDE DEF k
  <2>. QED BY <1>3, <1>4, <1>5
<1>8. \A i \in 1 .. Len(Near(p)) : Near(p)[i] = sends[p + i]
  <2>. HIDE DEF k
  <2>. QED BY <1>6, <1>7
<1>. QED BY <1>2, <1>4, <1>5, <1>7, <1>8

\* What is held begins as the next line does, and is no longer than the line
\* may be.
LEMMA HeldIsNear ==
  ASSUME SocketInv
  PROVE  /\ Answered \in Nat /\ Answered <= Len(sends)
         /\ Held \in Seq(Byte) /\ Near(Answered) \in Seq(Byte)
         /\ Len(Held) <= Len(Near(Answered))
         /\ \A i \in 1 .. Len(Held) : Held[i] = Near(Answered)[i]
<1>1. /\ SocketTypes /\ HoldsTheStream /\ Len(sends) \in Nat /\ taken \in Nat
      /\ taken <= Len(sends) /\ SockBuf \in Nat /\ Len(sockBuf) \in Nat /\ head \in Nat
      /\ Len(sockBuf) <= SockBuf
  BY SocketAssumption, SMT DEF SocketInv, SocketTypes
<1>2. Held \in Seq(Byte) /\ Len(Held) \in Nat /\ Len(Held) = Len(sockBuf) - head
  BY <1>1, HeldFacts
<1>3. /\ Answered \in Nat /\ taken = Answered + Len(Held)
      /\ \A i \in 1 .. Len(Held) : Held[i] = sends[Answered + i]
  BY <1>1, HeldIsOfTheStream
<1>4. Answered <= Len(sends)
  BY <1>1, <1>2, <1>3, SMT
<1>5. /\ Near(Answered) \in Seq(Byte)
      /\ Len(Near(Answered)) = IF Len(sends) - Answered < SockBuf THEN Len(sends) - Answered ELSE SockBuf
      /\ \A i \in 1 .. Len(Near(Answered)) : Near(Answered)[i] = sends[Answered + i]
  BY <1>1, <1>3, <1>4, NearFacts
<1>6. Len(Held) <= Len(Near(Answered)) /\ Len(Near(Answered)) \in Nat
  BY <1>1, <1>2, <1>3, <1>4, <1>5, SMT
<1>7. \A i \in 1 .. Len(Held) : i \in 1 .. Len(Near(Answered))
  BY <1>2, <1>6, SMT
<1>. QED BY <1>2, <1>3, <1>4, <1>5, <1>6, <1>7

LEMMA AnsweredAfter ==
  ASSUME SocketInv'
  PROVE  Answered' = taken' - (Len(sockBuf') - head')
<1>1. /\ sockBuf' \in Seq(Byte) /\ Len(sockBuf') \in Nat /\ head' \in Nat /\ head' <= Len(sockBuf')
  BY SMT DEF SocketInv, SocketTypes
<1>2. Len(SubSeq(sockBuf', head' + 1, Len(sockBuf'))) = Len(sockBuf') - head'
  BY <1>1, SliceFacts
<1>. QED BY <1>2 DEF Answered, Held

\* Two slices of the same bytes are one line.
LEMMA SameSlice ==
  ASSUME NEW s \in Seq(Byte), NEW t \in Seq(Byte), NEW k \in Nat,
         k <= Len(s), k <= Len(t), \A i \in 1 .. k : s[i] = t[i]
  PROVE  SubSeq(s, 1, k) = SubSeq(t, 1, k)
<1>1. 0 \in Nat /\ 0 <= k /\ 0 + 1 = 1 /\ k - 0 = k /\ \A i \in 1 .. k : 0 + i = i
  BY SMT
<1>2. /\ SubSeq(s, 0 + 1, k) \in Seq(Byte) /\ Len(SubSeq(s, 0 + 1, k)) = k - 0
      /\ \A i \in 1 .. k - 0 : SubSeq(s, 0 + 1, k)[i] = s[0 + i]
  BY <1>1, SliceFacts
<1>3. /\ SubSeq(t, 0 + 1, k) \in Seq(Byte) /\ Len(SubSeq(t, 0 + 1, k)) = k - 0
      /\ \A i \in 1 .. k - 0 : SubSeq(t, 0 + 1, k)[i] = t[0 + i]
  BY <1>1, SliceFacts
<1>4. /\ SubSeq(s, 1, k) \in Seq(Byte) /\ SubSeq(t, 1, k) \in Seq(Byte)
      /\ Len(SubSeq(s, 1, k)) = k /\ Len(SubSeq(t, 1, k)) = k
      /\ \A i \in 1 .. k : SubSeq(s, 1, k)[i] = SubSeq(t, 1, k)[i]
  BY <1>1, <1>2, <1>3
<1>. QED BY <1>4, SeqEqual

\* What readline owes at p for a string of capacity cap.
Owed(p, cap) ==
  IF NextLine(p).upTo = p THEN [status |-> 1, line |-> <<>>]
  ELSE IF NextLine(p).whole /\ Len(NextLine(p).line) <= cap
         THEN [status |-> 0, line |-> NextLine(p).line]
         ELSE [status |-> 3, line |-> <<>>]

LEMMA BufferedLineAnswers ==
  ASSUME SocketInv, SocketInv', BufferedLine
  PROVE  Answered' = NextLine(Answered).upTo /\ said' = Owed(Answered, call.cap)
<1>. DEFINE i == FirstNewline(Held)
            near == Near(Answered)
<1>1. /\ Answered \in Nat /\ Held \in Seq(Byte) /\ near \in Seq(Byte)
      /\ Len(Held) <= Len(near) /\ \A j \in 1 .. Len(Held) : Held[j] = near[j]
  BY HeldIsNear
<1>2. /\ Newlines(Held) # {} /\ head' = head + i /\ taken' = taken /\ sockBuf' = sockBuf
      /\ AnswersLine(Stripped(SubSeq(Held, 1, i - 1)))
  BY DEF BufferedLine
<1>3. Newlines(near) # {} /\ FirstNewline(near) = i
  BY <1>1, <1>2, SameFirstNewline
<1>4. i \in 1 .. Len(Held)
  BY <1>1, <1>2, FirstNewlineIsFirst
<1>5. SubSeq(Held, 1, i - 1) = SubSeq(near, 1, i - 1)
  <2>. HIDE DEF i, near
  <2>1. /\ i - 1 \in Nat /\ i - 1 <= Len(Held) /\ i - 1 <= Len(near)
        /\ \A j \in 1 .. i - 1 : j \in 1 .. Len(Held)
    BY <1>1, <1>4, SMT
  <2>. QED BY <1>1, <2>1, SameSlice
<1>6. NextLine(Answered) =
        [upTo |-> Answered + i, whole |-> TRUE, line |-> Stripped(SubSeq(Held, 1, i - 1))]
  BY <1>3, <1>5 DEF NextLine, Near
<1>7. Answered' = Answered + i
  <2>1. Answered' = taken' - (Len(sockBuf') - head')
    BY AnsweredAfter
  <2>2. Answered = taken - (Len(sockBuf) - head)
    BY HeldFacts DEF Answered, SocketInv
  <2>3. taken \in Nat /\ Len(sockBuf) \in Nat /\ head \in Nat /\ i \in Nat
    BY <1>4, SMT DEF SocketInv, SocketTypes
  <2>. HIDE DEF i
  <2>. QED BY <1>2, <2>1, <2>2, <2>3, SMT
<1>8. Answered + i # Answered
  <2>. HIDE DEF i
  <2>. QED BY <1>1, <1>4, SMT
<1>. HIDE DEF i
<1>9. NextLine(Answered).upTo = Answered + i /\ NextLine(Answered).whole
      /\ NextLine(Answered).line = Stripped(SubSeq(Held, 1, i - 1))
  BY <1>6
<1>10. /\ Len(Stripped(SubSeq(Held, 1, i - 1))) > call.cap => said' = [status |-> 3, line |-> <<>>]
       /\ ~(Len(Stripped(SubSeq(Held, 1, i - 1))) > call.cap) =>
            said' = [status |-> 0, line |-> Stripped(SubSeq(Held, 1, i - 1))]
  BY <1>2 DEF AnswersLine, Answers
<1>11. /\ Len(Stripped(SubSeq(Held, 1, i - 1))) \in Nat /\ call.cap \in Nat
  <2>1. SubSeq(Held, 1, i - 1) \in Seq(Byte)
    <3>1. 0 \in Nat /\ i - 1 \in Nat /\ 0 <= i - 1 /\ i - 1 <= Len(Held) /\ 0 + 1 = 1
      BY <1>1, <1>4, SMT
    <3>. QED BY <1>1, <3>1, SliceFacts
  <2>2. Stripped(SubSeq(Held, 1, i - 1)) \in Seq(Byte)
    BY <2>1, SMT DEF Stripped, Front
  <2>3. call.cap \in Nat
    BY DEF BufferedLine, Reading, SocketInv, SocketTypes
  <2>. QED BY <2>2, <2>3, LenProperties
<1>12. (Len(Stripped(SubSeq(Held, 1, i - 1))) > call.cap) =
        ~(Len(Stripped(SubSeq(Held, 1, i - 1))) <= call.cap)
  BY <1>11, SMT
<1>. QED BY <1>7, <1>8, <1>9, <1>10, <1>12 DEF Owed

\* Without a newline the near bytes are what is held, when there are no more of
\* them or the buffer is full of them.
LEMMA NearIsHeld ==
  ASSUME SocketInv, Newlines(Held) = {},
         Len(Held) = SockBuf \/ (ended /\ taken = arrived /\ Len(Held) < SockBuf)
  PROVE  /\ Near(Answered) = Held
         /\ NextLine(Answered) =
              [upTo |-> Answered + Len(Held), whole |-> Len(Held) < SockBuf, line |-> Held]
<1>. DEFINE near == Near(Answered)
<1>1. /\ Answered \in Nat /\ Answered <= Len(sends) /\ Held \in Seq(Byte) /\ near \in Seq(Byte)
      /\ Len(Held) <= Len(near) /\ \A j \in 1 .. Len(Held) : Held[j] = near[j]
  BY HeldIsNear
<1>2. /\ SocketTypes /\ HoldsTheStream /\ SockBuf \in Nat /\ Len(sends) \in Nat
      /\ (ended => arrived = Len(sends))
  BY SocketAssumption, SMT DEF SocketInv, SocketTypes
<1>3. taken = Answered + Len(Held) /\ Len(Held) \in Nat
  BY <1>2, HeldIsOfTheStream, HeldFacts
<1>4. Len(near) = IF Len(sends) - Answered < SockBuf THEN Len(sends) - Answered ELSE SockBuf
  BY <1>1, <1>2, NearFacts
<1>5. Len(near) = Len(Held)
  <2>. HIDE DEF near
  <2>. QED BY <1>1, <1>2, <1>3, <1>4, SMT
<1>6. near = Held
  <2>. HIDE DEF near
  <2>. QED BY <1>1, <1>5, SeqEqual
<1>. QED BY <1>6 DEF NextLine, Near

LEMMA LineTooLongAnswers ==
  ASSUME SocketInv, SocketInv', LineTooLong
  PROVE  Answered' = NextLine(Answered).upTo /\ said' = Owed(Answered, call.cap)
<1>1. /\ Newlines(Held) = {} /\ Len(Held) = SockBuf /\ taken' = taken /\ sockBuf' = <<>> /\ head' = 0
      /\ said' = [status |-> 3, line |-> <<>>]
  BY DEF LineTooLong, Answers
<1>2. NextLine(Answered) =
        [upTo |-> Answered + Len(Held), whole |-> Len(Held) < SockBuf, line |-> Held]
  BY <1>1, NearIsHeld
<1>3. SockBuf \in Nat /\ SockBuf > 0 /\ ~(Len(Held) < SockBuf)
  BY <1>1, SocketAssumption, SMT
<1>4. Answered \in Nat /\ taken = Answered + Len(Held) /\ Len(Held) \in Nat
  BY HeldIsOfTheStream, HeldFacts DEF SocketInv
<1>5. Answered' = Answered + Len(Held) /\ Answered + Len(Held) # Answered
  <2>1. Answered' = taken' - (Len(sockBuf') - head')
    BY AnsweredAfter
  <2>2. Len(sockBuf') = 0
    BY <1>1, EmptySeq
  <2>. QED BY <1>1, <1>3, <1>4, <2>1, <2>2, SMT
<1>6. NextLine(Answered).upTo = Answered + Len(Held) /\ ~NextLine(Answered).whole
  <2>1. NextLine(Answered).upTo = Answered + Len(Held)
    BY <1>2
  <2>2. NextLine(Answered).whole = (Len(Held) < SockBuf)
    BY <1>2
  <2>. QED BY <1>3, <2>1, <2>2
<1>. QED BY <1>1, <1>5, <1>6 DEF Owed

LEMMA LastLineAnswers ==
  ASSUME SocketInv, SocketInv', LastLine
  PROVE  Answered' = NextLine(Answered).upTo /\ said' = Owed(Answered, call.cap)
<1>1. /\ Newlines(Held) = {} /\ Len(Held) < SockBuf /\ ended /\ taken = arrived
      /\ taken' = taken /\ sockBuf' = Held /\ head' = Len(Held)
      /\ call.op = "readline"
      /\ IF Held = <<>> THEN Answers(1, <<>>) ELSE AnswersLine(Held)
  BY DEF LastLine, Waits, Reading
<1>2. NextLine(Answered) =
        [upTo |-> Answered + Len(Held), whole |-> Len(Held) < SockBuf, line |-> Held]
  BY <1>1, NearIsHeld
<1>3. /\ Answered \in Nat /\ taken = Answered + Len(Held) /\ Len(Held) \in Nat /\ Held \in Seq(Byte)
      /\ call.cap \in Nat
  BY <1>1, HeldIsOfTheStream, HeldFacts DEF SocketInv, SocketTypes
<1>4. Answered' = Answered + Len(Held)
  <2>1. Answered' = taken' - (Len(sockBuf') - head')
    BY AnsweredAfter
  <2>2. Answered' = taken - (Len(Held) - Len(Held))
    BY <1>1, <2>1, Zenon
  <2>. QED BY <1>3, <2>2, SMT
<1>5. /\ NextLine(Answered).upTo = Answered + Len(Held) /\ NextLine(Answered).whole
      /\ NextLine(Answered).line = Held
  <2>1. NextLine(Answered).upTo = Answered + Len(Held) /\ NextLine(Answered).line = Held
    BY <1>2
  <2>2. NextLine(Answered).whole = (Len(Held) < SockBuf)
    BY <1>2
  <2>. QED BY <1>1, <2>1, <2>2
<1>6. (Answered + Len(Held) = Answered) <=> Held = <<>>
  <2>1. Held = <<>> <=> Len(Held) = 0
    BY <1>3, EmptySeq
  <2>. QED BY <1>3, <2>1, SMT
<1>7. CASE Held = <<>>
  BY <1>1, <1>4, <1>5, <1>6, <1>7 DEF Owed, Answers
<1>8. CASE Held # <<>>
  <2>1. AnswersLine(Held)
    BY <1>1, <1>8
  <2>2. (Len(Held) > call.cap) = ~(Len(Held) <= call.cap)
    BY <1>3, SMT
  <2>3. /\ Len(Held) > call.cap => said' = [status |-> 3, line |-> <<>>]
        /\ ~(Len(Held) > call.cap) => said' = [status |-> 0, line |-> Held]
    BY <2>1 DEF AnswersLine, Answers
  <2>. QED BY <1>4, <1>5, <1>6, <1>8, <2>2, <2>3 DEF Owed
<1>. QED BY <1>7, <1>8

\* However the bytes arrive and are buffered, each answer of readline is the
\* next line of the stream, its end, or that the line is too long
\* (pasx_socket_readline).
THEOREM LinesAreAnswered == Spec => LinesAreOfTheStream
<1>1. ASSUME SocketInv, SocketInv', [Next]_sockVars,
             call.op = "readline", said' # said, said'.status # 2
      PROVE  Answered' = NextLine(Answered).upTo /\ said' = Owed(Answered, call.cap)
  <2>1. ~(UNCHANGED sockVars)
    BY <1>1 DEF sockVars
  <2>2. BufferedLine \/ LineTooLong \/ LastLine
    <3>1. ASSUME Reading PROVE call # Idle /\ call.op # "wait" /\ call.op # "write"
      BY <3>1 DEF Reading, Idle
    <3>2. Reading
      BY <1>1 DEF Reading
    <3>3. ~ReadRefused
      BY <1>1 DEF ReadRefused, Answers
    <3>4. ~(\E n \in 0 .. Addresses : pasx_socket_open(n))
      BY <1>1 DEF pasx_socket_open
    <3>5. ~(TryAddress \/ Connected \/ NotConnected \/ pasx_socket_new_fails \/ pasx_socket_close)
      BY <1>1 DEF TryAddress, Connected, NotConnected, pasx_socket_new_fails, pasx_socket_close
    <3>6. ~(\E cap \in LineCaps : ReadLine(cap))
      BY <3>1, <3>2 DEF ReadLine
    <3>7. ~(\E n \in 1 .. SockBuf : ReadMore(n))
      BY <1>1 DEF ReadMore
    <3>8. ~NetWait /\ ~(\E timeout \in BOOLEAN : pasx_socket_poll(timeout))
      BY <1>1 DEF NetWait, pasx_socket_poll
    <3>9. ~((\E n \in 1 .. MaxWrite : Write(n) \/ WriteSome(n)) \/ WriteRefused)
      BY <1>1 DEF Write, WriteSome, WriteRefused
    <3>10. ~Arrive /\ ~FarCloses
      BY <1>1 DEF Arrive, FarCloses
    <3>. QED
      BY <1>1, <2>1, <3>3, <3>4, <3>5, <3>6, <3>7, <3>8, <3>9, <3>10 DEF Next
  <2>. QED BY <1>1, <2>2, BufferedLineAnswers, LineTooLongAnswers, LastLineAnswers
<1>2. SocketInv /\ SocketInv' /\ [Next]_sockVars =>
        [call.op = "readline" /\ said' # said /\ said'.status # 2 =>
           LET next == NextLine(Answered)
           IN /\ Answered' = next.upTo
              /\ said' = IF next.upTo = Answered THEN [status |-> 1, line |-> <<>>]
                         ELSE IF next.whole /\ Len(next.line) <= call.cap
                                THEN [status |-> 0, line |-> next.line]
                                ELSE [status |-> 3, line |-> <<>>]]_sockVars
  BY <1>1 DEF Owed
<1>. QED BY <1>2, SocketInvariant, PTL DEF Spec, LinesAreOfTheStream
=============================================================================
