------------------------------- MODULE Buffer -------------------------------
(***************************************************************************)
(* Buffer as operators on a record b with the class's three fields and     *)
(*   overrun     bytes have been copied past the end of the vector, which  *)
(*               is undefined behaviour: what they hit is not modelled     *)
(* buffer_[i + 1] is the byte at index i.                                  *)
(***************************************************************************)
EXTENDS Naturals, Sequences

CONSTANTS
  kCheapPrepend,  \* 8
  kInitialSize,   \* 1024
  ExtraSize,      \* 65536, sizeof extrabuf in readFd
  NoByte          \* what no one has written, or what lies past the vector

ASSUME BufferAssumption == kCheapPrepend \in Nat /\ kInitialSize \in Nat /\ ExtraSize \in Nat

NewBuffer == [
  buffer_      |-> [i \in 1..(kCheapPrepend + kInitialSize) |-> NoByte],
  readerIndex_ |-> kCheapPrepend,
  writerIndex_ |-> kCheapPrepend,
  overrun      |-> FALSE]

readableBytes(b)    == b.writerIndex_ - b.readerIndex_
writableBytes(b)    == Len(b.buffer_) - b.readerIndex_
prependableBytes(b) == b.readerIndex_

\* The len bytes at index at.
Bytes(b, at, len) ==
  [i \in 1..len |-> IF at + i <= Len(b.buffer_) THEN b.buffer_[at + i] ELSE NoByte]

\* std::copy, or readv, of data to index at.
Copied(b, at, data) ==
  [b EXCEPT
    !.buffer_ = [i \in DOMAIN @ |-> IF i - 1 \in at..(at + Len(data) - 1)
                                     THEN data[i - at] ELSE @[i]],
    !.overrun = @ \/ at + Len(data) > Len(b.buffer_)]

\* Fault: writerIndex_ is not reset.
retrieveAllKeepsWriter(b) == [b EXCEPT !.readerIndex_ = kCheapPrepend]

retrieveAll(b) ==
  [b EXCEPT !.readerIndex_ = kCheapPrepend, !.writerIndex_ = kCheapPrepend]

\* Fault: the wrong index is moved.
retrieveGoesBack(b, len) ==
  IF len < readableBytes(b) THEN [b EXCEPT !.writerIndex_ = @ + len] ELSE retrieveAll(b)

\* Fault: what was not retrieved is dropped.
retrieveDropsRest(b, len) == retrieveAll(b)

retrieve(b, len) ==
  IF len < readableBytes(b) THEN [b EXCEPT !.readerIndex_ = @ + len] ELSE retrieveAll(b)

\* The string that retrieveAsString returns before it calls retrieve.
AsString(b, len) == Bytes(b, b.readerIndex_, len)

makeSpace(b, len) ==
  IF writableBytes(b) + prependableBytes(b) < len + kCheapPrepend
    THEN [b EXCEPT !.buffer_ =
            [i \in 1..(b.writerIndex_ + len) |-> IF i \in DOMAIN @ THEN @[i] ELSE NoByte]]
    ELSE [Copied(b, kCheapPrepend, AsString(b, readableBytes(b))) EXCEPT
            !.readerIndex_ = kCheapPrepend,
            !.writerIndex_ = kCheapPrepend + readableBytes(b)]

ensureWritableBytes(b, len) == IF writableBytes(b) < len THEN makeSpace(b, len) ELSE b

\* append copies; it does not move writerIndex_.
append(b, data) ==
  LET roomy == ensureWritableBytes(b, Len(data)) IN Copied(roomy, roomy.writerIndex_, data)

\* readFd, when readv returns the bytes data.
MaxReadable(b) ==
  writableBytes(b) + IF writableBytes(b) < ExtraSize THEN ExtraSize ELSE 0

readFd(b, data) ==
  LET n        == Len(data)
      writable == writableBytes(b)
      filled   == Copied(b, b.writerIndex_, SubSeq(data, 1, IF n <= writable THEN n ELSE writable))
  IN IF n <= writable
       THEN [filled EXCEPT !.writerIndex_ = @ + n]
       ELSE append([filled EXCEPT !.writerIndex_ = Len(b.buffer_)],
                   SubSeq(data, writable + 1, n))

\* The picture that opens Buffer.h: 0 <= readerIndex <= writerIndex <= size.
InOrder(b) == b.readerIndex_ <= b.writerIndex_ /\ b.writerIndex_ <= Len(b.buffer_)
=============================================================================
