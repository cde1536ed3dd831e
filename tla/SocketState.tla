---------------------------- MODULE SocketState ----------------------------
(***************************************************************************)
(* The state of a connection (struct pasx_socket, runtime/pasrt_posix.c),  *)
(* what it reads and holds of the far end's stream, and what is promised   *)
(* of the lines it answers.  PasSocket has the operations.                 *)
(***************************************************************************)
EXTENDS Integers, Sequences, SequencesExt

CONSTANTS
  Streams,   \* what the far end may send: sequences over "x", CR and LF
  SockBuf,   \* PASX_SOCK_BUF
  LineCaps,  \* the capacities of the strings lines are read into
  Addresses, \* how many addresses a name resolves to at most
  MaxWrite   \* the longest text written

CR == "cr"
LF == "lf"

ASSUME SocketAssumption ==
  /\ Streams \subseteq Seq({"x", CR, LF})
  /\ SockBuf \in Nat \ {0} /\ LineCaps \subseteq Nat
  /\ Addresses \in Nat /\ MaxWrite \in Nat

VARIABLES
  sends,    \* all the far end sends before it closes
  arrived,  \* how much of it this system has
  ended,    \* the far end has closed
  taken,    \* how much read has taken
  sockBuf,  \* the buffer up to tail
  head,
  sock,     \* "none", "opening", "open"
  fd,       \* a descriptor is open
  untried,  \* addresses left to try
  call,     \* what the program is in: nothing, readline, wait or write
  left,     \* what write has still to write
  said      \* what readline answered last
sockVars == <<sends, arrived, ended, taken, sockBuf, head, sock, fd, untried, call, left, said>>

Held == SubSeq(sockBuf, head + 1, Len(sockBuf))
Newlines(s) == {i \in DOMAIN s : s[i] = LF}
FirstNewline(s) == CHOOSE i \in Newlines(s) : \A j \in Newlines(s) : i <= j
Stripped(s) == IF s # <<>> /\ Last(s) = CR THEN Front(s) ELSE s

\* What poll finds: something to read, or the end.
Readable == taken < arrived \/ ended

-----------------------------------------------------------------------------
(* Properties.                                                             *)

\* How much of the stream has been answered for, and what the stream alone
\* says the next line is: up to a newline among the next SockBuf bytes, or
\* those bytes, or what is left of it.
Answered == taken - Len(Held)
Onward(p) == SubSeq(sends, p + 1, Len(sends))
NextLine(p) ==
  LET near == SubSeq(Onward(p), 1, IF Len(Onward(p)) < SockBuf THEN Len(Onward(p)) ELSE SockBuf)
  IN IF Newlines(near) # {}
       THEN [upTo |-> p + FirstNewline(near), whole |-> TRUE,
             line |-> Stripped(SubSeq(near, 1, FirstNewline(near) - 1))]
       ELSE [upTo |-> p + Len(near), whole |-> Len(near) < SockBuf, line |-> near]

\* However the bytes arrive and are buffered, what readline answers depends on
\* the stream alone: each answer is the next line of it, or that it is too
\* long or the end, and nothing is skipped, answered twice or torn
\* (pasx_socket_readline moves a partial line and reads on behind it).
LinesAreOfTheStream ==
  [][call.op = "readline" /\ said' # said /\ said'.status # 2 =>
       LET next == NextLine(Answered)
       IN /\ Answered' = next.upTo
          /\ said' = IF next.upTo = Answered THEN [status |-> 1, line |-> <<>>]
                      ELSE IF next.whole /\ Len(next.line) <= call.cap
                             THEN [status |-> 0, line |-> next.line]
                             ELSE [status |-> 3, line |-> <<>>]]_sockVars

\* A program that waits holds no line it could have read: if its descriptor is
\* quiet, no line has arrived that readline has not answered, and none that is
\* too long to be one (pasx_socket_buffered sees what poll cannot).
WaitMissesNothing ==
  call.op = "wait" /\ ~Readable =>
    LET come == SubSeq(sends, Answered + 1, arrived)
    IN Newlines(come) = {} /\ Len(come) < SockBuf
=============================================================================
