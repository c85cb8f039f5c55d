----------------------------- MODULE InputPath ------------------------------
(***************************************************************************)
(* inputBuffer_ of one connection: handleRead takes what the socket has,   *)
(* as many bytes as readv gives, and lets the message callback retrieve    *)
(* some of them.  The bytes of the stream are numbered from 1 in the order *)
(* in which the peer sent them.  DataPath takes the steps, until one       *)
(* copies past the end of the vector: what comes then is undefined.        *)
(***************************************************************************)
EXTENDS Buffer

CONSTANTS
  MaxRead,     \* bound on the bytes one readv returns
  MaxStream    \* bound on the bytes of the stream

VARIABLES
  inputBuffer_,
  arrived,     \* how many bytes readv has returned
  delivered    \* the bytes the message callback has retrieved

Init ==
  /\ inputBuffer_ = NewBuffer
  /\ arrived = 0
  /\ delivered = <<>>

\* TcpConnection::handleRead with n > 0, the message callback included.
handleRead(n) ==
  LET b == readFd(inputBuffer_, [i \in 1..n |-> arrived + i]) IN
  /\ n <= MaxReadable(inputBuffer_)
  /\ arrived + n <= MaxStream
  /\ arrived' = arrived + n
  /\ \E taken \in 0..readableBytes(b) :
       /\ delivered' = delivered \o AsString(b, taken)
       /\ inputBuffer_' = retrieve(b, taken)

-----------------------------------------------------------------------------
(* Properties *)

\* What the callback has retrieved, and what it still can retrieve.
Stream == delivered \o AsString(inputBuffer_, readableBytes(inputBuffer_))

\* By how much readFd has made the vector grow.
Growth == Len(inputBuffer_.buffer_) - (kCheapPrepend + kInitialSize)

\* The indices leave the order that the class's picture gives (Buffer.h:15) only
\* by a copy past the vector's end: neither a partial retrieve, nor makeSpace, nor
\* the writerIndex_ of a full vector breaks it.
IndicesInOrder == inputBuffer_.overrun \/ InOrder(inputBuffer_)

\* Of the bytes read, the callback gets each at most once, and in their order; as
\* many are lost as readFd has made the vector grow by (Buffer.cc:42-46): none
\* while the vector has its first size.
StreamIsKept ==
  ~inputBuffer_.overrun =>
    /\ \A i \in DOMAIN Stream : Stream[i] \in 1..arrived
    /\ \A i, j \in DOMAIN Stream : i < j => Stream[i] < Stream[j]
    /\ Len(Stream) + Growth = arrived

\* The class's picture: 0 <= readerIndex <= writerIndex <= size (Buffer.h:15).
IndicesAlwaysInOrder == InOrder(inputBuffer_)

\* readFd takes what it does not know the size of (Buffer.cc:10-13), the rest
\* through extrabuf, and hands all of it on.
StreamIsWhole == ~inputBuffer_.overrun => Stream = [i \in 1..arrived |-> i]
=============================================================================
