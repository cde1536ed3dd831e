------------------------------- MODULE PasFile -------------------------------
(***************************************************************************)
(* A `file of T` (struct pas_file, runtime/pasrt.c): the stream, its       *)
(* position and open mode, the lazily fetched buffer variable, and the     *)
(* operations of a sequential and of a direct-access file.                 *)
(*                                                                         *)
(* The stream is counted in components.  The buffer variable is one        *)
(* component of read-ahead: once it is fetched the stream stands one past  *)
(* where the program is, unless the fetch found the end of the file.       *)
(***************************************************************************)
EXTENDS Integers, Sequences

CONSTANTS
  Component, \* the values a component may have
  MaxLength, \* a bound of the model on the length of the file
  Kinds,     \* the file variables considered, each a record of
             \*   direct:   the file-type has an index-type
             \*   named:    bound to an external file (PAS_BIND_ARG), else a
             \*             temporary one
             \*   capacity: components the index-type admits; 0 for no bound
  Undefined

ASSUME PasFileAssumption ==
  /\ MaxLength \in Nat
  /\ Kinds \subseteq [direct : BOOLEAN, named : BOOLEAN, capacity : Nat]
  /\ Undefined \notin Component

VARIABLES
  kind,       \* which file variable this is; it never changes
  data,       \* the components of the external or temporary file
  at,         \* ftell(fp) / compsize
  appending,  \* the stream was opened in append mode: writes go to the end
  isOpen,     \* fp # NULL
  mode,       \* PAS_CLOSED, PAS_READING, PAS_WRITING, PAS_UPDATING
  have, ateof, buf,
  assigned,   \* history: the program gave f^ a value for the next put
  reply,      \* what the last function answered
  stopped     \* a runtime error has ended the program

stream == <<data, at, appending, isOpen>>
ahead == <<have, ateof, buf>>
vars == <<kind, stream, mode, ahead, assigned, reply, stopped>>

Direct == kind.direct
Named == kind.named
Capacity == kind.capacity

Contents ==
  UNION {[1 .. n -> Component] : n \in 0 .. IF Capacity > 0 THEN Capacity ELSE MaxLength}

Init ==
  /\ kind \in Kinds
  /\ data \in IF Named THEN Contents ELSE {<<>>}
  /\ at = 0 /\ appending = FALSE /\ isOpen = FALSE
  /\ mode = "closed"
  /\ have = FALSE /\ ateof = FALSE /\ buf = Undefined
  /\ assigned = FALSE /\ reply = <<>> /\ stopped = FALSE

-----------------------------------------------------------------------------
Quiet == reply' = <<>> /\ UNCHANGED stopped

\* pas_runtime_error
Fails ==
  /\ stopped' = TRUE /\ reply' = <<>>
  /\ UNCHANGED <<stream, mode, ahead, assigned>>

\* The read-ahead dies with the position it was read from.
Dropped == have' = FALSE /\ ateof' = FALSE /\ UNCHANGED buf

\* pas_fill: fetch the component if it is not already there.
AtEnd == at >= Len(data)
FillEof == IF have THEN ateof ELSE AtEnd
FillBuf == IF have \/ AtEnd THEN buf ELSE data[at + 1]
FillAt == IF have \/ AtEnd THEN at ELSE at + 1
Filled ==
  /\ have' = TRUE /\ ateof' = FillEof /\ at' = FillAt /\ buf' = FillBuf
  /\ UNCHANGED <<data, appending, isOpen>>

\* fwrite of one component at place p, which append mode overrides.
Written(s, p, x) ==
  IF appending \/ p >= Len(s) THEN Append(s, x) ELSE [s EXCEPT ![p + 1] = x]
After(p) == IF appending THEN Len(data) + 1 ELSE p + 1

-----------------------------------------------------------------------------
(* reset, rewrite and extend.                                              *)

\* A named file is closed and opened again, a temporary one rewound, or made
\* when there is none yet; what has to be opened or made may be refused.
Reset ==
  \/ /\ at' = 0 /\ appending' = IF Named THEN FALSE ELSE appending
     /\ isOpen' = TRUE /\ mode' = "reading" /\ assigned' = FALSE
     /\ Dropped /\ Quiet /\ UNCHANGED data
  \/ (Named \/ ~isOpen) /\ Fails

Rewrite ==
  \/ /\ data' = <<>> /\ at' = 0 /\ appending' = FALSE
     /\ isOpen' = TRUE /\ mode' = "writing" /\ assigned' = FALSE
     /\ Dropped /\ Quiet
  \/ Fails

\* Append mode for a named file, whose position before the first write is the
\* implementation's choice; a seek to the end for a temporary one.
Extend ==
  \/ /\ IF Named THEN appending' = TRUE /\ at' \in {0, Len(data)}
                 ELSE appending' = FALSE /\ at' = Len(data)
     /\ isOpen' = TRUE /\ mode' = "writing" /\ assigned' = FALSE
     /\ Dropped /\ Quiet /\ UNCHANGED data
  \/ Fails

\* pas_seek, for the three Seek procedures of a direct-access file.
Seek(n, m) ==
  /\ Direct
  /\ IF ~isOpen \/ mode = "closed" \/ n < 0 \/ n > Len(data)
       THEN Fails
       ELSE /\ at' = n /\ mode' = m /\ assigned' = FALSE
            /\ Dropped /\ Quiet /\ UNCHANGED <<data, appending, isOpen>>

-----------------------------------------------------------------------------
(* The buffer variable.                                                    *)

\* pas_buffer, for f^ := x and for reading f^.
Buffer(K) ==
  IF mode \in {"reading", "updating"}
    THEN IF FillEof THEN Fails
         ELSE have' = TRUE /\ ateof' = FALSE /\ at' = FillAt
              /\ K /\ UNCHANGED <<data, appending, isOpen, mode, stopped>>
    ELSE IF mode = "closed" THEN Fails
         ELSE K /\ UNCHANGED <<stream, mode, have, ateof, stopped>>

Assign(x) == Buffer(buf' = x /\ assigned' = TRUE /\ reply' = <<>>)

LookAt == IF mode = "writing" THEN buf ELSE FillBuf
Look == Buffer(buf' = LookAt /\ reply' = <<"buffer", LookAt>> /\ UNCHANGED assigned)

Get ==
  IF mode \notin {"reading", "updating"} \/ FillEof
    THEN Fails
    ELSE /\ have' = FALSE /\ ateof' = FALSE /\ at' = FillAt /\ buf' = FillBuf
         /\ assigned' = FALSE
         /\ Quiet /\ UNCHANGED <<data, appending, isOpen, mode>>

\* Where a put or an update writes: back over the component whose read-ahead
\* was fetched, else where the stream stands.
MutantPlace == at
Place == IF Direct /\ have THEN at - 1 ELSE at

\* pas_put.  Only a direct-access file steps back, and only one with a bound
\* checks it, by the place and not by the length.  Any write may be refused.
Full == Capacity > 0 /\ Place >= Capacity
Put ==
  /\ Len(data) < MaxLength \/ Full
  /\ \/ Fails
     \/ /\ mode \in {"writing", "updating"} /\ Place >= 0 /\ ~Full
        /\ data' = Written(data, Place, buf) /\ at' = After(Place)
        /\ have' = FALSE /\ assigned' = FALSE
        /\ Quiet /\ UNCHANGED <<appending, isOpen, mode, ateof, buf>>

\* pas_update writes in place, and goes back.
Update ==
  /\ Direct
  /\ Len(data) < MaxLength \/ Place < Len(data)
  /\ \/ Fails
     \/ /\ mode \in {"writing", "updating"} /\ Place >= 0
        /\ data' = Written(data, Place, buf) /\ at' = Place /\ have' = FALSE
        /\ Quiet /\ UNCHANGED <<appending, isOpen, mode, ateof, buf, assigned>>

-----------------------------------------------------------------------------
(* What a program asks.                                                    *)

Answer(what, value) ==
  /\ reply' = <<what, value>>
  /\ UNCHANGED <<stream, mode, ahead, assigned, stopped>>

Eof ==
  CASE mode = "writing" -> Answer("eof", TRUE)
    [] mode = "closed" -> Fails
    [] OTHER -> /\ Filled /\ reply' = <<"eof", FillEof>>
                /\ UNCHANGED <<mode, assigned, stopped>>

\* pas_position: one back when a component was fetched.
Position ==
  /\ Direct
  /\ IF ~isOpen THEN Fails
     ELSE Answer("position", IF have /\ mode # "writing" THEN at - 1 ELSE at)

LastPosition ==
  /\ Direct
  /\ IF ~isOpen \/ data = <<>> THEN Fails ELSE Answer("last", Len(data) - 1)

Empty == Direct /\ IF ~isOpen THEN Fails ELSE Answer("empty", data = <<>>)

-----------------------------------------------------------------------------
\* f^ has been given a value, or fetched, since the file was positioned: what
\* pas_put and pas_update write is then what the program sees in f^.
Touched == IF mode = "writing" THEN assigned ELSE have /\ ~ateof

\* A put to a full external file that was extended, before anything else was
\* written: pas_put asks the stream where it is, which is not yet the end.
Overfills == appending /\ Capacity > 0 /\ Len(data) >= Capacity /\ Place < Capacity

\* The calls that need no further care from the program.
Common ==
  \/ Reset \/ Rewrite \/ Extend \/ Look \/ Get \/ Eof \/ LastPosition \/ Empty
  \/ \E x \in Component : Assign(x)

Seeks == \E n \in -1 .. MaxLength + 1, m \in {"reading", "writing", "updating"} : Seek(n, m)

\* Every program ...
Next ==
  ~stopped /\ UNCHANGED kind /\ (Common \/ Seeks \/ Put \/ Update \/ Position)

\* ... and one that keeps to what the runtime needs: it puts and updates only
\* an f^ it touched, asks no position of a file whose end it has just found,
\* updates a full file only before its end, extends none that is full, and
\* makes no use of the position in a named file it extended.
CarefulNext ==
  /\ ~stopped /\ UNCHANGED kind
  /\ \/ Common
     \/ Touched /\ ~Overfills /\ Put
     \/ /\ ~appending
        /\ \/ Seeks
           \/ Touched /\ (Place < Len(data) \/ ~Full) /\ Update
           \/ ~(have /\ ateof) /\ Position

Spec == Init /\ [][Next]_vars
CarefulSpec == Init /\ [][CarefulNext]_vars

-----------------------------------------------------------------------------
(* Properties.                                                             *)

\* Every variable has its type.
TypeOK ==
  /\ kind \in Kinds
  /\ data \in Seq(Component) /\ at \in 0 .. Len(data)
  /\ appending \in BOOLEAN /\ isOpen \in BOOLEAN
  /\ mode \in {"closed", "reading", "writing", "updating"}
  /\ have \in BOOLEAN /\ ateof \in BOOLEAN
  /\ buf \in Component \cup {Undefined}
  /\ assigned \in BOOLEAN /\ stopped \in BOOLEAN

\* Where the program stands: the read-ahead is not behind it yet.
Here == IF appending THEN Len(data) ELSE IF have /\ ~ateof THEN at - 1 ELSE at

\* The abstract f^.
Buffered ==
  CASE mode = "closed" -> Undefined
    [] mode = "writing" -> IF assigned THEN buf ELSE Undefined
    [] OTHER -> IF Here >= Len(data) THEN Undefined
                ELSE IF have THEN buf ELSE data[Here + 1]

Iso == INSTANCE FileSpec WITH
  L <- SubSeq(data, 1, Here), R <- SubSeq(data, Here + 1, Len(data)),
  M <- mode, buffer <- Buffered, room <- IF Direct THEN Capacity ELSE 0

\* The lazily filled stream implements the file of the standard: whatever the
\* order of seeks, reads and writes, f^, the components before and after the
\* position and every answer are those of the abstract file, which is never
\* longer than its index-type admits.
ImplementsFile == Iso!Spec

\* "how many components lie before the current one": what position answers.
PositionCounts ==
  reply # <<>> /\ reply[1] = "position" /\ ~appending => reply[2] = Here
=============================================================================
