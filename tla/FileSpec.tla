------------------------------ MODULE FileSpec ------------------------------
(***************************************************************************)
(* What a file variable promises (ISO/IEC 10206 6.7.5.2, as the comments   *)
(* of runtime/pasrt.c state it): a file is the components before the       *)
(* current position, L, and those from it on, R, a mode M and the buffer   *)
(* variable f^.  PasFile is shown to implement it.                         *)
(***************************************************************************)
EXTENDS Integers, Sequences

CONSTANTS Component, Undefined
VARIABLES
  L, R, M, buffer, reply, stopped,
  room  \* how many components the index-type admits; 0 for no bound
vars == <<L, R, M, buffer, reply, stopped, room>>

\* f^ follows R when the file is inspected or updated.
First(r) == IF r = <<>> THEN Undefined ELSE Head(r)
Follows(m, r) == IF m \in {"reading", "updating"} THEN First(r) ELSE Undefined

Init ==
  /\ L = <<>> /\ R \in Seq(Component) /\ M = "closed" /\ room \in Nat
  /\ buffer = Undefined /\ reply = <<>> /\ stopped = FALSE

Quiet == reply' = <<>> /\ UNCHANGED stopped

\* reset, rewrite and extend.
Open(l, r, m) ==
  /\ L' = l /\ R' = r /\ M' = m /\ buffer' = Follows(m, r) /\ Quiet
Reset == Open(<<>>, L \o R, "reading")
Rewrite == Open(<<>>, <<>>, "writing")
Extend == Open(L \o R, <<>>, "writing")

\* SeekRead, SeekWrite and SeekUpdate, which the compiler admits for a
\* direct-access file only: to a component, or one past the last.
Seek(n, m) ==
  /\ M # "closed" /\ n \in 0 .. Len(L \o R)
  /\ Open(SubSeq(L \o R, 1, n), SubSeq(L \o R, n + 1, Len(L \o R)), m)

\* f^ := x
Assign(x) ==
  /\ M # "closed"
  /\ M = "writing" \/ R # <<>>
  /\ buffer' = x /\ UNCHANGED <<L, R, M>> /\ Quiet

Get ==
  /\ M \in {"reading", "updating"} /\ R # <<>>
  /\ L' = Append(L, Head(R)) /\ R' = Tail(R)
  /\ buffer' = First(Tail(R))
  /\ UNCHANGED M /\ Quiet

\* 6.4.3.6: a file never grows past its index-type.
Fits == room > 0 => Len(L' \o R') <= room

\* put writes f^ where the file stands, and advances ...
Put ==
  /\ M \in {"writing", "updating"} /\ buffer # Undefined
  /\ L' = Append(L, buffer)
  /\ R' = IF R = <<>> THEN <<>> ELSE Tail(R)
  /\ buffer' = Follows(M, R') /\ Fits
  /\ UNCHANGED M /\ Quiet

\* ... and update writes it there and does not: f.L = f0.L.
Update ==
  /\ M \in {"writing", "updating"} /\ buffer # Undefined
  /\ R' = <<buffer>> \o (IF R = <<>> THEN <<>> ELSE Tail(R))
  /\ UNCHANGED <<L, M, buffer>> /\ Fits /\ Quiet

\* The questions a program can ask, and the only answers there are.
Ask ==
  /\ \/ reply' = <<"eof", M = "writing" \/ R = <<>>>>
     \/ M # "closed" /\ buffer # Undefined /\ reply' = <<"buffer", buffer>>
     \/ M = "writing" /\ buffer = Undefined
        /\ \E x \in Component \cup {Undefined} : reply' = <<"buffer", x>>
     \/ M # "closed" /\ reply' = <<"position", Len(L)>>
     \/ M # "closed" /\ L \o R # <<>> /\ reply' = <<"last", Len(L \o R) - 1>>
     \/ M # "closed" /\ reply' = <<"empty", L \o R = <<>>>>
  /\ UNCHANGED <<L, R, M, buffer, stopped>>

\* An error that is detected stops the program.
Stop == stopped' = TRUE /\ reply' = <<>> /\ UNCHANGED <<L, R, M, buffer>>

Next ==
  /\ ~stopped /\ UNCHANGED room
  /\ \/ Reset \/ Rewrite \/ Extend \/ Get \/ Put \/ Update \/ Ask \/ Stop
     \/ \E x \in Component : Assign(x)
     \/ \E n \in 0 .. Len(L \o R), m \in {"reading", "writing", "updating"} : Seek(n, m)

Spec == Init /\ [][Next]_vars
=============================================================================
