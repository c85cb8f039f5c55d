------------------------------ MODULE TcpSend -------------------------------
(***************************************************************************)
(* The sending half of one connection, in its I/O loop's thread: send,     *)
(* shutdown and the writable event, over outputBuffer_, the channel's      *)
(* events_ and the socket.  The bytes of all messages are numbered from 1  *)
(* in the order of the calls of send.  The peer neither closes nor fails.  *)
(***************************************************************************)
EXTENDS Buffer

CONSTANTS
  Room,       \* what the socket's send buffer holds
  MaxLen,     \* bound on the length of a message
  MaxSent     \* bound on the bytes of all messages

VARIABLES
  state_,
  events_,        \* of the connection's channel
  outputBuffer_,
  sent,           \* how many bytes the calls of send were given
  wire,           \* the bytes the socket took, in order
  room,           \* free space in the socket's send buffer
  wrShut          \* shutdownWrite was called

vars == <<state_, events_, outputBuffer_, sent, wire, room, wrShut>>

Init ==
  /\ state_ = "kConnected"
  /\ events_ = {"read"}
  /\ outputBuffer_ = NewBuffer
  /\ sent = 0
  /\ wire = <<>>
  /\ room = Room
  /\ wrShut = FALSE

\* Channel::isWriteing compares events_ for equality.
isWriteing == events_ = {"write"}

AtMost(m, n) == IF m <= n THEN m ELSE n

\* ::write on a non-blocking socket: it takes what there is room for.
write(data) ==
  LET nwrote == AtMost(Len(data), room) IN
  /\ wire' = wire \o SubSeq(data, 1, nwrote)
  /\ room' = room - nwrote

\* Fault: what the socket did not take is forgotten.
sendInLoopForgetsRest(data) ==
  /\ IF readableBytes(outputBuffer_) = 0 THEN write(data) ELSE UNCHANGED <<wire, room>>
  /\ UNCHANGED <<outputBuffer_, events_>>

\* sendInLoop, state_ being kConnected: write at once when nothing is under way,
\* keep the rest and ask for the writable event.
sendInLoop(data) ==
  LET direct    == ~isWriteing /\ readableBytes(outputBuffer_) = 0
      nwrote    == IF direct THEN AtMost(Len(data), room) ELSE 0
      remaining == SubSeq(data, nwrote + 1, Len(data))
  IN /\ IF direct THEN write(data) ELSE UNCHANGED <<wire, room>>
     /\ IF remaining = <<>>
          THEN UNCHANGED <<outputBuffer_, events_>>
          ELSE /\ outputBuffer_' = append(outputBuffer_, remaining)
               /\ events_' = IF isWriteing THEN events_ ELSE events_ \cup {"write"}

send(n) ==
  /\ state_ = "kConnected"
  /\ sent + n <= MaxSent
  /\ sent' = sent + n
  /\ sendInLoop([i \in 1..n |-> sent + i])
  /\ UNCHANGED <<state_, wrShut>>

\* shutdown and shutdownInLoop.
shutdown ==
  /\ state_ = "kConnected"
  /\ state_' = "kDisconnecting"
  /\ wrShut' = ~isWriteing
  /\ UNCHANGED <<events_, outputBuffer_, sent, wire, room>>

\* handleWrite, when the socket is writable.
handleWrite ==
  LET data   == AsString(outputBuffer_, readableBytes(outputBuffer_))
      n      == AtMost(Len(data), room)
      b      == retrieve(outputBuffer_, n)
      all    == n > 0 /\ readableBytes(b) = 0
  IN /\ "write" \in events_
     /\ room > 0
     /\ IF isWriteing THEN write(data) ELSE UNCHANGED <<wire, room>>
     /\ outputBuffer_' = IF isWriteing /\ n > 0 THEN b ELSE outputBuffer_
     /\ events_' = IF isWriteing /\ all THEN events_ \ {"write"} ELSE events_
     /\ wrShut' = (wrShut \/ (isWriteing /\ all /\ state_ = "kDisconnecting"))
     /\ UNCHANGED <<state_, sent>>

\* The peer reads.
Drains ==
  /\ room < Room
  /\ room' = Room
  /\ UNCHANGED <<state_, events_, outputBuffer_, sent, wire, wrShut>>

Next == (\E n \in 1..MaxLen : send(n)) \/ shutdown \/ handleWrite \/ Drains

Spec == Init /\ [][Next]_vars

-----------------------------------------------------------------------------
(* Properties *)

\* What the socket did not take is kept for handleWrite (TcpConnection.cc:263-265).
RestIsKept ==
  wire \o AsString(outputBuffer_, readableBytes(outputBuffer_)) = [i \in 1..sent |-> i]

\* The writing side is shut down when all data has been written
\* (TcpConnection.cc:286).
ShutWhenAllSent == wrShut => Len(wire) = sent
=============================================================================
