------------------------------ MODULE PasSocket ------------------------------
(***************************************************************************)
(* A connection (struct pasx_socket, runtime/pasrt_posix.c): opening it,   *)
(* reading it by lines through a buffer of this side's own, waiting until  *)
(* a line can be read (NetWait of PasNet over pasx_socket_pending and      *)
(* pasx_socket_poll), writing, and closing it.                             *)
(*                                                                         *)
(* What the far end will send is chosen at the start; it arrives a byte at *)
(* a time, and a read may take any part of what has arrived.  A call that  *)
(* a signal interrupts is repeated, which changes nothing here.  Opening   *)
(* may fail and be tried again; the stream is that of one connection.      *)
(***************************************************************************)
EXTENDS SocketState

Idle == [op |-> "none", cap |-> 0]
NoReply == [status |-> -1, line |-> <<>>]

Init ==
  /\ sends \in Streams /\ arrived = 0 /\ ended = FALSE /\ taken = 0
  /\ sockBuf = <<>> /\ head = 0
  /\ sock = "none" /\ fd = FALSE /\ untried = 0 /\ call = Idle /\ left = 0 /\ said = NoReply

far == <<sends, arrived, ended>>
buffer == <<taken, sockBuf, head>>

-----------------------------------------------------------------------------
(* Opening and closing.                                                    *)

\* getaddrinfo has n addresses; none is the refusal 1.
pasx_socket_open(n) ==
  /\ sock = "none" /\ arrived = 0 /\ untried' = n
  /\ sock' = IF n = 0 THEN "none" ELSE "opening"
  /\ UNCHANGED <<far, buffer, fd, call, left, said>>

\* The next address: a descriptor is made, or not, and it takes the
\* connection or is closed again.  One that works is the socket's, unless
\* there is no memory for it (pasx_socket_new); accept makes one alike.
TryAddress ==
  /\ sock = "opening" /\ ~fd /\ untried > 0
  /\ untried' = untried - 1
  /\ \/ fd' = TRUE
     \/ fd' = FALSE
  /\ sock' = IF ~fd' /\ untried' = 0 THEN "none" ELSE "opening"
  /\ UNCHANGED <<far, buffer, call, left, said>>
Connected ==
  /\ sock = "opening" /\ fd
  /\ sock' = "open" /\ taken' = 0 /\ sockBuf' = <<>> /\ head' = 0
  /\ UNCHANGED <<far, fd, untried, call, left, said>>
NotConnected ==
  /\ sock = "opening" /\ fd
  /\ fd' = FALSE
  /\ sock' = IF untried = 0 THEN "none" ELSE "opening"
  /\ UNCHANGED <<far, buffer, untried, call, left, said>>
pasx_socket_new_fails ==
  /\ sock = "opening" /\ fd /\ fd' = FALSE /\ sock' = "none"
  /\ UNCHANGED <<far, buffer, untried, call, left, said>>

pasx_socket_close ==
  /\ sock = "open" /\ call = Idle
  /\ sock' = "none" /\ fd' = FALSE
  /\ UNCHANGED <<far, buffer, untried, call, left, said>>

-----------------------------------------------------------------------------
(* Reading: pasx_socket_readline, one turn of its loop a step.             *)

rest == <<far, sock, fd, untried, left>>

ReadLine(cap) ==
  /\ sock = "open" /\ call = Idle /\ call' = [op |-> "readline", cap |-> cap]
  /\ said' = NoReply
  /\ UNCHANGED <<far, buffer, sock, fd, untried, left>>

Reading == call.op = "readline"

Answers(status, line) == said' = [status |-> status, line |-> line] /\ call' = Idle
AnswersLine(line) ==
  IF Len(line) > call.cap THEN Answers(3, <<>>) ELSE Answers(0, line)

\* A newline is held: the line before it, a CR taken off.
BufferedLine ==
  /\ Reading /\ Newlines(Held) # {}
  /\ LET i == FirstNewline(Held)
     IN AnswersLine(Stripped(SubSeq(Held, 1, i - 1))) /\ head' = head + i
  /\ UNCHANGED <<taken, sockBuf, rest>>

\* None is, and a buffer full of the line has no room for its end.
LineTooLong ==
  /\ Reading /\ Newlines(Held) = {} /\ Len(Held) = SockBuf
  /\ Answers(3, <<>>) /\ sockBuf' = <<>> /\ head' = 0
  /\ UNCHANGED <<taken, rest>>

\* What is held moves to the front, and more is read behind it.
Waits == Reading /\ Newlines(Held) = {} /\ Len(Held) < SockBuf
MutantReadMore(n) ==
  /\ Waits /\ n \in 1 .. SockBuf - Len(Held) /\ taken + n <= arrived
  /\ sockBuf' = SubSeq(sockBuf, 1, Len(Held)) \o SubSeq(sends, taken + 1, taken + n) /\ head' = 0
  /\ taken' = taken + n
  /\ UNCHANGED <<call, said, rest>>
ReadMore(n) ==
  /\ Waits /\ n \in 1 .. SockBuf - Len(Held) /\ taken + n <= arrived
  /\ sockBuf' = Held \o SubSeq(sends, taken + 1, taken + n) /\ head' = 0
  /\ taken' = taken + n
  /\ UNCHANGED <<call, said, rest>>

\* read is refused, and what was held stays.
ReadRefused ==
  /\ Waits /\ Answers(2, <<>>) /\ sockBuf' = Held /\ head' = 0
  /\ UNCHANGED <<taken, rest>>

\* The far end has closed: a line without an end is a line.
LastLine ==
  /\ Waits /\ ended /\ taken = arrived
  /\ IF Held = <<>> THEN Answers(1, <<>>) ELSE AnswersLine(Held)
  /\ sockBuf' = Held /\ head' = Len(Held)
  /\ UNCHANGED <<taken, rest>>

-----------------------------------------------------------------------------
(* Waiting: NetWait.                                                       *)

\* pasx_socket_buffered: readline would answer without a read.
Mutantpasx_socket_buffered == head = 0 /\ Len(sockBuf) = SockBuf
pasx_socket_buffered == Newlines(Held) # {} \/ (head = 0 /\ Len(sockBuf) = SockBuf)

\* A buffered line ends the wait at once; else poll waits for the descriptor.
NetWait ==
  /\ sock = "open" /\ call = Idle /\ ~pasx_socket_buffered
  /\ call' = [op |-> "wait", cap |-> 0]
  /\ UNCHANGED <<buffer, said, rest>>

\* pasx_socket_poll: something to read, the end, or the timeout.
pasx_socket_poll(timeout) ==
  /\ call.op = "wait" /\ (Readable \/ timeout)
  /\ call' = Idle
  /\ UNCHANGED <<buffer, said, rest>>

-----------------------------------------------------------------------------
(* Writing: pasx_socket_write, as many bytes as the system takes at once.  *)

Write(n) ==
  /\ sock = "open" /\ call = Idle
  /\ call' = [op |-> "write", cap |-> 0] /\ left' = n
  /\ UNCHANGED <<far, buffer, sock, fd, untried, said>>
WriteSome(n) ==
  /\ call.op = "write" /\ n \in 1 .. left
  /\ left' = left - n
  /\ call' = IF left' = 0 THEN Idle ELSE call
  /\ UNCHANGED <<far, buffer, sock, fd, untried, said>>
WriteRefused ==
  /\ call.op = "write" /\ left' = 0 /\ call' = Idle
  /\ UNCHANGED <<far, buffer, sock, fd, untried, said>>

-----------------------------------------------------------------------------
(* The far end.                                                            *)
Arrive ==
  /\ sock = "open" /\ arrived < Len(sends) /\ arrived' = arrived + 1
  /\ UNCHANGED <<sends, ended, buffer, sock, fd, untried, call, left, said>>
FarCloses ==
  /\ sock = "open" /\ arrived = Len(sends) /\ ~ended /\ ended' = TRUE
  /\ UNCHANGED <<sends, arrived, buffer, sock, fd, untried, call, left, said>>

Next ==
  \/ \E n \in 0 .. Addresses : pasx_socket_open(n)
  \/ TryAddress \/ Connected \/ NotConnected \/ pasx_socket_new_fails \/ pasx_socket_close
  \/ \E cap \in LineCaps : ReadLine(cap)
  \/ BufferedLine \/ LineTooLong \/ ReadRefused \/ LastLine
  \/ \E n \in 1 .. SockBuf : ReadMore(n)
  \/ NetWait \/ \E timeout \in BOOLEAN : pasx_socket_poll(timeout)
  \/ \E n \in 1 .. MaxWrite : Write(n) \/ WriteSome(n)
  \/ WriteRefused \/ Arrive \/ FarCloses

Spec == Init /\ [][Next]_sockVars
=============================================================================
