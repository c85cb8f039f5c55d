-------------------------- MODULE DataPath_proofs ---------------------------
(***************************************************************************)
(* DataPath for buffers, reads, messages and streams of any size.  The     *)
(* input half: as long as nothing has been copied past the end of the      *)
(* vector, its indices are in order, and only its growth loses bytes.  The *)
(* output half: nothing is written after the writing side is shut down,    *)
(* when one thread makes all calls from outside onMessage.  Both halves:   *)
(* the peer gets back what onMessage took, as long as the socket takes     *)
(* everything at once.                                                     *)
(***************************************************************************)
EXTENDS DataPath, TLAPS

USE BufferAssumption, DataPathAssumption

Byte == Nat \cup {NoByte}

Buffers == [buffer_ : Seq(Byte), readerIndex_ : Nat, writerIndex_ : Nat, overrun : BOOLEAN]

\* A buffer that reads have not overrun; an empty one has been reset.
Sound(b) ==
  /\ b \in Buffers
  /\ InOrder(b)
  /\ ~b.overrun
  /\ kCheapPrepend <= Len(b.buffer_)
  /\ b.readerIndex_ = b.writerIndex_ => b.readerIndex_ = kCheapPrepend

\* What is readable in b continues the stream s after its n-th byte.
Continues(b, s, n) == \A i \in (b.readerIndex_ + 1)..b.writerIndex_ :
                        b.buffer_[i] = s[n + (i - b.readerIndex_)]

\* s has bytes from 1..n, in their order.
Rises(s, n) ==
  /\ \A i \in 1..Len(s) : s[i] \in 1..n
  /\ \A i, j \in 1..Len(s) : i < j => s[i] < s[j]

\* Callback and buffer hold the stream s.
Holds(s) ==
  /\ s \in Seq(Nat) /\ Rises(s, arrived)
  /\ Len(s) = Len(delivered) + readableBytes(inputBuffer_)
  /\ \A i \in 1..Len(delivered) : delivered[i] = s[i]
  /\ Continues(inputBuffer_, s, Len(delivered))

\* Callback, buffer and count of bytes read agree, until a read overruns the buffer.
Kept ==
  /\ arrived \in Nat /\ arrived <= MaxStream
  /\ ~inputBuffer_.overrun =>
       /\ Sound(inputBuffer_)
       /\ delivered \in Seq(Nat)
       /\ Len(delivered) + readableBytes(inputBuffer_)
            + (Len(inputBuffer_.buffer_) - (kCheapPrepend + kInitialSize)) = arrived
       /\ \E s : Holds(s)

-----------------------------------------------------------------------------
(* The operators of Buffer *)

\* A function on the domain of a sequence is a sequence of the same length.
LEMMA SameDomain ==
  ASSUME NEW S, NEW s \in Seq(S), NEW t \in [1..Len(s) -> S]
  PROVE  t \in Seq(S) /\ Len(t) = Len(s)
<1>1. Len(s) \in Nat
  OBVIOUS
<1> QED
  BY <1>1

\* One sequence after another.
LEMMA Joined ==
  ASSUME NEW S, NEW s \in Seq(S), NEW t \in Seq(S)
  PROVE  /\ s \o t \in Seq(S) /\ Len(s) \in Nat /\ Len(t) \in Nat
         /\ Len(s \o t) = Len(s) + Len(t)
         /\ DOMAIN s = 1..Len(s) /\ DOMAIN (s \o t) = 1..(Len(s) + Len(t))
         /\ \A i \in 1..Len(s) : (s \o t)[i] = s[i]
         /\ \A i \in (Len(s) + 1)..(Len(s) + Len(t)) :
              (s \o t)[i] = t[i - Len(s)] /\ i - Len(s) \in 1..Len(t)
<1>1. /\ s \o t \in Seq(S) /\ Len(s) \in Nat /\ Len(t) \in Nat
      /\ Len(s \o t) = Len(s) + Len(t) /\ DOMAIN s = 1..Len(s)
      /\ DOMAIN (s \o t) = 1..(Len(s) + Len(t))
  OBVIOUS
<1>2. \A i \in 1..Len(s) : (s \o t)[i] = s[i]
  OBVIOUS
<1>3. ASSUME NEW i \in (Len(s) + 1)..(Len(s) + Len(t))
      PROVE  (s \o t)[i] = t[i - Len(s)] /\ i - Len(s) \in 1..Len(t)
  <2>1. i - Len(s) \in 1..Len(t) /\ i \in 1..(Len(s) + Len(t)) /\ i > Len(s)
    BY <1>1
  <2> QED
    BY <1>1, <2>1
<1> QED
  BY <1>1, <1>2, <1>3

\* c is b with data at its place, and with the mark when that is past the end.
IsCopy(c, b, at, data) ==
  /\ c \in Buffers /\ Len(c.buffer_) = Len(b.buffer_)
  /\ c.readerIndex_ = b.readerIndex_ /\ c.writerIndex_ = b.writerIndex_
  /\ ~c.overrun <=> ~b.overrun /\ at + Len(data) <= Len(b.buffer_)
  /\ \A i \in 1..Len(b.buffer_) :
       c.buffer_[i] = IF i \in (at + 1)..(at + Len(data)) THEN data[i - at] ELSE b.buffer_[i]

\* Copied puts data to its place and changes nothing else.
LEMMA CopiedIs ==
  ASSUME NEW b \in Buffers, NEW at \in Nat, NEW data \in Seq(Byte),
         NEW c, c = Copied(b, at, data)
  PROVE  IsCopy(c, b, at, data)
<1> DEFINE s == b.buffer_
           t == [i \in DOMAIN s |-> IF i - 1 \in at..(at + Len(data) - 1)
                                      THEN data[i - at] ELSE s[i]]
<1>1. s \in Seq(Byte) /\ DOMAIN s = 1..Len(s) /\ Len(s) \in Nat /\ Len(data) \in Nat
  BY DEF Buffers
<1>2. c.buffer_ = t /\ c.readerIndex_ = b.readerIndex_ /\ c.writerIndex_ = b.writerIndex_
  BY DEF Copied, Buffers
<1>3. (~c.overrun <=> ~b.overrun /\ at + Len(data) <= Len(s)) /\ c.overrun \in BOOLEAN
  <2>1. c.overrun = (b.overrun \/ at + Len(data) > Len(s)) /\ c.overrun \in BOOLEAN
    BY DEF Copied, Buffers
  <2>2. at + Len(data) > Len(s) <=> ~(at + Len(data) <= Len(s))
    BY <1>1
  <2> QED
    BY <2>1, <2>2, Zenon
<1>4. \A i \in 1..Len(s) :
        t[i] = IF i \in (at + 1)..(at + Len(data)) THEN data[i - at] ELSE s[i]
  BY <1>1
<1>5. t \in [1..Len(s) -> Byte]
  <2>1. ASSUME NEW i \in 1..Len(s)
        PROVE  t[i] \in Byte
    <3>1. CASE i \in (at + 1)..(at + Len(data))
      <4>1. i - at \in 1..Len(data)
        BY <1>1, <3>1
      <4>2. data[i - at] \in Byte
        BY <4>1
      <4> QED
        BY <1>4, <3>1, <4>2
    <3>2. CASE i \notin (at + 1)..(at + Len(data))
      BY <1>1, <1>4, <3>2
    <3> QED
      BY <3>1, <3>2
  <2> QED
    BY <1>1, <2>1
<1>6. t \in Seq(Byte) /\ Len(t) = Len(s)
  BY <1>1, <1>5, SameDomain
<1>7. c \in Buffers
  BY <1>2, <1>3, <1>6 DEF Copied, Buffers
<1> HIDE DEF t
<1> QED
  BY <1>2, <1>3, <1>4, <1>6, <1>7 DEF IsCopy

\* Moving one index, or both, changes nothing else.
LEMMA ReaderMoved ==
  ASSUME NEW b \in Buffers, NEW r \in Nat, NEW c, c = [b EXCEPT !.readerIndex_ = r]
  PROVE  /\ c \in Buffers /\ c.buffer_ = b.buffer_ /\ c.overrun = b.overrun
         /\ c.readerIndex_ = r /\ c.writerIndex_ = b.writerIndex_
<1>1. c \in Buffers
  BY DEF Buffers
<1>2. c.buffer_ = b.buffer_ /\ c.readerIndex_ = r /\ c.writerIndex_ = b.writerIndex_
  BY DEF Buffers
<1>3. c.overrun = b.overrun
  BY DEF Buffers
<1> QED
  BY <1>1, <1>2, <1>3

LEMMA WriterMoved ==
  ASSUME NEW b \in Buffers, NEW w \in Nat, NEW c, c = [b EXCEPT !.writerIndex_ = w]
  PROVE  /\ c \in Buffers /\ c.buffer_ = b.buffer_ /\ c.overrun = b.overrun
         /\ c.readerIndex_ = b.readerIndex_ /\ c.writerIndex_ = w
<1>1. c \in Buffers
  BY DEF Buffers
<1>2. c.buffer_ = b.buffer_ /\ c.readerIndex_ = b.readerIndex_ /\ c.writerIndex_ = w
  BY DEF Buffers
<1>3. c.overrun = b.overrun
  BY DEF Buffers
<1> QED
  BY <1>1, <1>2, <1>3

LEMMA AllRetrieved ==
  ASSUME NEW b \in Buffers
  PROVE  LET c == retrieveAll(b) IN
           /\ c \in Buffers /\ c.buffer_ = b.buffer_ /\ c.overrun = b.overrun
           /\ c.readerIndex_ = kCheapPrepend /\ c.writerIndex_ = kCheapPrepend
<1> DEFINE c == retrieveAll(b)
<1>1. c \in Buffers
  BY DEF Buffers, retrieveAll
<1>2. c.buffer_ = b.buffer_ /\ c.readerIndex_ = kCheapPrepend /\ c.writerIndex_ = kCheapPrepend
  BY DEF Buffers, retrieveAll
<1>3. c.overrun = b.overrun
  BY DEF Buffers, retrieveAll
<1> QED
  BY <1>1, <1>2, <1>3

\* What is behind an index of the vector is a sequence of bytes.
LEMMA BytesAre ==
  ASSUME NEW b \in Buffers, NEW len \in Nat
  PROVE  AsString(b, len) \in Seq(Byte) /\ Len(AsString(b, len)) = len
<1>1. b.buffer_ \in Seq(Byte) /\ b.readerIndex_ \in Nat /\ Len(b.buffer_) \in Nat
  BY DEF Buffers
<1>2. ASSUME NEW i \in 1..len, b.readerIndex_ + i <= Len(b.buffer_)
      PROVE  b.buffer_[b.readerIndex_ + i] \in Byte
  <2>1. b.readerIndex_ + i \in 1..Len(b.buffer_)
    BY <1>1, <1>2
  <2> QED
    BY <1>1, <2>1
<1>3. AsString(b, len) \in [1..len -> Byte]
  BY <1>2 DEF AsString, Bytes, Byte
<1> QED
  BY <1>3

\* makeSpace makes the vector grow by what is missing behind writerIndex_, or moves
\* what is readable to its front.
LEMMA SpaceMade ==
  ASSUME NEW b \in Buffers, b.readerIndex_ <= b.writerIndex_, b.writerIndex_ = Len(b.buffer_),
         NEW len \in Nat
  PROVE  LET c == makeSpace(b, len) IN
           /\ c \in Buffers
           /\ b.overrun => c.overrun
           /\ Len(b.buffer_) < len + kCheapPrepend =>
                /\ Len(c.buffer_) = Len(b.buffer_) + len /\ c.overrun = b.overrun
                /\ c.readerIndex_ = b.readerIndex_ /\ c.writerIndex_ = b.writerIndex_
                /\ \A i \in 1..Len(b.buffer_) : c.buffer_[i] = b.buffer_[i]
           /\ ~(Len(b.buffer_) < len + kCheapPrepend) =>
                /\ Len(c.buffer_) = Len(b.buffer_)
                /\ c.writerIndex_ = kCheapPrepend + (Len(b.buffer_) - b.readerIndex_)
<1> DEFINE w == b.writerIndex_
           r == b.readerIndex_
           l == Len(b.buffer_)
           c == makeSpace(b, len)
<1>1. w \in Nat /\ r \in Nat /\ l \in Nat /\ b.buffer_ \in Seq(Byte) /\ DOMAIN b.buffer_ = 1..l
  BY DEF Buffers
<1>2. /\ writableBytes(b) + prependableBytes(b) = l /\ readableBytes(b) = l - r
      /\ readableBytes(b) \in Nat
  BY <1>1 DEF writableBytes, prependableBytes, readableBytes
<1>3. CASE l < len + kCheapPrepend
  <2> DEFINE t == [i \in 1..(w + len) |-> IF i \in DOMAIN b.buffer_ THEN b.buffer_[i] ELSE NoByte]
  <2>1. c = [b EXCEPT !.buffer_ = t]
    BY <1>2, <1>3 DEF makeSpace
  <2>2. t \in [1..(w + len) -> Byte] /\ w + len \in Nat
    BY <1>1 DEF Byte
  <2>3. t \in Seq(Byte) /\ Len(t) = l + len /\ \A i \in 1..l : t[i] = b.buffer_[i]
    BY <1>1, <2>2
  <2> HIDE DEF t, c
  <2>4. c \in Buffers
    BY <2>1, <2>3 DEF Buffers
  <2>5. c.buffer_ = t /\ c.readerIndex_ = r /\ c.writerIndex_ = w
    BY <2>1 DEF Buffers
  <2>6. c.overrun = b.overrun
    BY <2>1 DEF Buffers
  <2> QED
    BY <1>3, <2>3, <2>4, <2>5, <2>6 DEF c
<1>4. CASE ~(l < len + kCheapPrepend)
  <2> DEFINE d == Copied(b, kCheapPrepend, AsString(b, readableBytes(b)))
             x == kCheapPrepend + readableBytes(b)
  <2>1. c = [d EXCEPT !.readerIndex_ = kCheapPrepend, !.writerIndex_ = x]
    BY <1>2, <1>4 DEF makeSpace
  <2>2. d \in Buffers /\ Len(d.buffer_) = l /\ (b.overrun => d.overrun)
    <3> DEFINE data == AsString(b, readableBytes(b))
    <3>1. data \in Seq(Byte) /\ kCheapPrepend \in Nat
      BY <1>2, BytesAre
    <3> HIDE DEF data
    <3>2. IsCopy(d, b, kCheapPrepend, data)
      <4>1. d = Copied(b, kCheapPrepend, data)
        BY DEF data
      <4> HIDE DEF d
      <4> QED
        BY <3>1, <4>1, CopiedIs
    <3> QED
      BY <3>2 DEF IsCopy
  <2>3. x \in Nat /\ x = kCheapPrepend + (l - r)
    BY <1>2
  <2> HIDE DEF d, c, x
  <2>4. c \in Buffers
    BY <2>1, <2>2, <2>3 DEF Buffers
  <2>5. c.buffer_ = d.buffer_ /\ c.writerIndex_ = x
    BY <2>1, <2>2 DEF Buffers
  <2>6. c.overrun = d.overrun
    BY <2>1, <2>2 DEF Buffers
  <2> QED
    BY <1>4, <2>2, <2>3, <2>4, <2>5, <2>6 DEF c
<1> QED
  BY <1>3, <1>4

\* append to a full vector goes past its end, unless the vector grows by exactly
\* what is appended; writerIndex_ stays.
LEMMA AppendedFull ==
  ASSUME NEW b \in Buffers, b.readerIndex_ <= b.writerIndex_, b.writerIndex_ = Len(b.buffer_),
         ~b.overrun => b.readerIndex_ = kCheapPrepend,
         NEW data \in Seq(Byte), Len(data) > 0,
         NEW c, c = append(b, data), ~c.overrun
  PROVE  /\ c \in Buffers /\ ~b.overrun
         /\ Len(c.buffer_) = Len(b.buffer_) + Len(data)
         /\ c.readerIndex_ = b.readerIndex_ /\ c.writerIndex_ = b.writerIndex_
         /\ \A i \in 1..Len(b.buffer_) : c.buffer_[i] = b.buffer_[i]
<1> DEFINE l == Len(b.buffer_)
           n == Len(data)
           d == ensureWritableBytes(b, n)
<1>1. l \in Nat /\ n \in Nat /\ b.readerIndex_ \in Nat
  BY DEF Buffers
<1>2. c = Copied(d, d.writerIndex_, data)
  BY DEF append
<1>3. d = b \/ d = makeSpace(b, n)
  BY DEF ensureWritableBytes
<1>4. d \in Buffers /\ (b.overrun => d.overrun)
  BY <1>1, <1>3, SpaceMade
<1> HIDE DEF d
<1>5. IsCopy(c, d, d.writerIndex_, data)
  <2>1. d.writerIndex_ \in Nat
    BY <1>4 DEF Buffers
  <2> QED
    BY <1>2, <1>4, <2>1, CopiedIs
<1>6. ~d.overrun /\ d.writerIndex_ + n <= Len(d.buffer_) /\ ~b.overrun
  BY <1>4, <1>5 DEF IsCopy
<1>7. b.readerIndex_ = kCheapPrepend
  BY <1>6
<1>8. d # b
  BY <1>1, <1>6
<1>9. d = makeSpace(b, n)
  BY <1>3, <1>8
<1>10. l < n + kCheapPrepend
  <2> SUFFICES ASSUME ~(l < n + kCheapPrepend) PROVE FALSE
    OBVIOUS
  <2>1. Len(d.buffer_) = l /\ d.writerIndex_ = kCheapPrepend + (l - b.readerIndex_)
    BY <1>1, <1>9, SpaceMade
  <2> QED
    BY <1>1, <1>6, <1>7, <2>1
<1>11. /\ Len(d.buffer_) = l + n
       /\ d.readerIndex_ = b.readerIndex_ /\ d.writerIndex_ = l
       /\ \A i \in 1..l : d.buffer_[i] = b.buffer_[i]
  BY <1>1, <1>9, <1>10, SpaceMade
<1>12. ASSUME NEW i \in 1..l
       PROVE  c.buffer_[i] = b.buffer_[i]
  <2>1. i \in 1..Len(d.buffer_) /\ ~(i \in (d.writerIndex_ + 1)..(d.writerIndex_ + n))
    BY <1>1, <1>11
  <2>2. c.buffer_[i] = d.buffer_[i]
    BY <1>5, <2>1, Zenon DEF IsCopy
  <2> QED
    BY <1>11, <2>2
<1> QED
  BY <1>5, <1>6, <1>11, <1>12 DEF IsCopy

\* c is b with the first m of n bytes appended, the vector longer by the other bytes.
Took(c, b, n, k, m) ==
  /\ Sound(c)
  /\ c.readerIndex_ = b.readerIndex_ /\ c.writerIndex_ = b.writerIndex_ + m
  /\ Len(c.buffer_) = Len(b.buffer_) + (n - m)
  /\ \A i \in 1..b.writerIndex_ : c.buffer_[i] = b.buffer_[i]
  /\ \A i \in 1..m : c.buffer_[b.writerIndex_ + i] = k + i

\* readFd takes the first of the bytes it has read, and the vector grows by as many
\* as there are others, unless it goes past the end.
LEMMA ReadTakes ==
  ASSUME NEW b, Sound(b), NEW n \in Nat, NEW k \in Nat,
         NEW c, c = readFd(b, [i \in 1..n |-> k + i]), ~c.overrun
  PROVE  \E m \in 0..n : Took(c, b, n, k, m)
<1> DEFINE data == [i \in 1..n |-> k + i]
           w == b.writerIndex_
           r == b.readerIndex_
           l == Len(b.buffer_)
<1>0. /\ w \in Nat /\ r \in Nat /\ l \in Nat /\ r <= w /\ w <= l /\ kCheapPrepend <= l
      /\ b \in Buffers /\ ~b.overrun /\ (r = w => r = kCheapPrepend)
      /\ writableBytes(b) = l - r
  BY DEF Sound, Buffers, InOrder, writableBytes
<1>1. /\ data \in Seq(Byte) /\ Len(data) = n
      /\ \A i \in 1..n : data[i] = k + i
  BY DEF Byte
<1>c. c = readFd(b, data)
  OBVIOUS
<1> HIDE DEF data
<1>2. CASE n <= l - r
  <2> DEFINE d == Copied(b, w, data)
  <2>1. c = [d EXCEPT !.writerIndex_ = @ + n]
    <3>1. SubSeq(data, 1, n) = data
      BY <1>1
    <3> QED
      BY <1>0, <1>1, <1>2, <1>c, <3>1 DEF readFd
  <2>2. /\ d \in Buffers /\ Len(d.buffer_) = l
        /\ d.readerIndex_ = r /\ d.writerIndex_ = w
        /\ ~d.overrun => w + n <= l
        /\ \A i \in 1..l :
             d.buffer_[i] = IF i \in (w + 1)..(w + n) THEN data[i - w] ELSE b.buffer_[i]
    <3>1. IsCopy(d, b, w, data)
      <4> HIDE DEF w
      <4> QED
        BY <1>0, <1>1, CopiedIs
    <3> QED
      BY <1>1, <3>1, Zenon DEF IsCopy
  <2> HIDE DEF d
  <2>3. /\ c \in Buffers /\ c.buffer_ = d.buffer_ /\ c.overrun = d.overrun
        /\ c.readerIndex_ = r /\ c.writerIndex_ = w + n
    <3>1. c = [d EXCEPT !.writerIndex_ = w + n]
      <4> HIDE DEF w
      <4> QED
        BY <2>1, <2>2, Zenon
    <3>2. w + n \in Nat
      BY <1>0
    <3> QED
      BY <2>2, <3>1, <3>2, WriterMoved
  <2>4. w + n <= l
    BY <1>0, <2>2, <2>3
  <2>5. Sound(c) /\ Len(c.buffer_) = l + (n - n)
    BY <1>0, <2>2, <2>3, <2>4 DEF Sound, InOrder
  <2>6. ASSUME NEW i \in 1..w
        PROVE  c.buffer_[i] = b.buffer_[i]
    <3>1. i \in 1..l /\ i \notin (w + 1)..(w + n)
      BY <1>0
    <3> QED
      BY <2>2, <2>3, <3>1
  <2>7. ASSUME NEW i \in 1..n
        PROVE  c.buffer_[w + i] = k + i
    <3> HIDE DEF w, l
    <3>1. w + i \in 1..l /\ w + i \in (w + 1)..(w + n) /\ (w + i) - w = i
      BY <1>0, <2>4
    <3>2. c.buffer_[w + i] = data[i]
      BY <2>2, <2>3, <3>1
    <3> QED
      BY <1>1, <3>2
  <2>8. n \in 0..n
    OBVIOUS
  <2> QED
    BY <2>3, <2>5, <2>6, <2>7, <2>8 DEF Took
<1>3. CASE n > l - r
  <2> DEFINE m     == l - r
             first == SubSeq(data, 1, m)
             rest  == SubSeq(data, m + 1, n)
             d     == Copied(b, w, first)
             g     == [d EXCEPT !.writerIndex_ = l]
  <2>1. m \in 0..n /\ m \in Nat /\ ~(n <= writableBytes(b))
    BY <1>0, <1>3
  <2>2. c = append(g, rest)
    BY <1>0, <1>1, <1>c, <2>1 DEF readFd
  <2>3. /\ first \in Seq(Byte) /\ Len(first) = m /\ rest \in Seq(Byte) /\ Len(rest) = n - m
        /\ \A i \in 1..m : first[i] = k + i
    BY <1>1, <2>1
  <2> HIDE DEF first, rest
  <2>4. /\ d \in Buffers /\ Len(d.buffer_) = l
        /\ d.readerIndex_ = r /\ d.writerIndex_ = w
        /\ ~d.overrun => w + m <= l
        /\ \A i \in 1..l :
             d.buffer_[i] = IF i \in (w + 1)..(w + m) THEN first[i - w] ELSE b.buffer_[i]
    <3> HIDE DEF m
    <3>1. IsCopy(d, b, w, first)
      <4> HIDE DEF w
      <4> QED
        BY <1>0, <2>3, CopiedIs
    <3> QED
      BY <2>3, <3>1, Zenon DEF IsCopy
  <2> HIDE DEF d
  <2>5. /\ g \in Buffers /\ g.buffer_ = d.buffer_ /\ g.overrun = d.overrun
        /\ g.readerIndex_ = r /\ g.writerIndex_ = l
    BY <1>0, <2>4, WriterMoved, SMTT(30)
  <2> HIDE DEF g
  <2>6. ~g.overrun => r = kCheapPrepend /\ r = w
    BY <1>0, <2>4, <2>5
  <2>7. /\ c \in Buffers /\ ~g.overrun
        /\ Len(c.buffer_) = l + (n - m)
        /\ c.readerIndex_ = r /\ c.writerIndex_ = l
        /\ \A i \in 1..l : c.buffer_[i] = d.buffer_[i]
    <3>2. /\ g.readerIndex_ <= g.writerIndex_ /\ g.writerIndex_ = Len(g.buffer_)
          /\ Len(rest) > 0
      BY <1>0, <1>3, <2>1, <2>3, <2>4, <2>5, SMTT(30)
    <3>3. ~g.overrun => g.readerIndex_ = kCheapPrepend
      BY <2>5, <2>6
    <3> HIDE DEF m
    <3>4. /\ c \in Buffers /\ ~g.overrun
          /\ Len(c.buffer_) = Len(g.buffer_) + Len(rest)
          /\ c.readerIndex_ = g.readerIndex_ /\ c.writerIndex_ = g.writerIndex_
          /\ \A i \in 1..Len(g.buffer_) : c.buffer_[i] = g.buffer_[i]
      BY <2>2, <2>3, <2>5, <3>2, <3>3, AppendedFull, ZenonT(60)
    <3> QED
      BY <2>3, <2>4, <2>5, <3>4
  <2>8. r = w /\ r = kCheapPrepend /\ w + m = l
    BY <1>0, <2>6, <2>7
  <2>9. Sound(c)
    BY <1>0, <2>1, <2>7, <2>8 DEF Sound, InOrder
  <2>10. ASSUME NEW i \in 1..w
         PROVE  c.buffer_[i] = b.buffer_[i]
    <3> HIDE DEF w, l, m
    <3>1. i \in 1..l /\ i \notin (w + 1)..(w + m)
      BY <1>0
    <3> QED
      BY <2>4, <2>7, <3>1
  <2>11. ASSUME NEW i \in 1..m
         PROVE  c.buffer_[w + i] = k + i
    <3> HIDE DEF w, l, m
    <3>1. w + i \in 1..l /\ w + i \in (w + 1)..(w + m) /\ (w + i) - w = i
      BY <1>0, <2>1, <2>8
    <3>2. c.buffer_[w + i] = first[i]
      BY <2>4, <2>7, <3>1
    <3> QED
      BY <2>3, <3>2
  <2>12. c.writerIndex_ = w + m
    BY <2>7, <2>8
  <2> HIDE DEF m
  <2> QED
    BY <2>1, <2>7, <2>9, <2>10, <2>11, <2>12 DEF Took
<1>4. n <= l - r \/ n > l - r
  BY <1>0
<1> QED
  BY <1>2, <1>3, <1>4

\* retrieve takes the first bytes of what is readable, and leaves the rest.
LEMMA Retrieved ==
  ASSUME NEW b, Sound(b), NEW s, NEW n \in Nat, Continues(b, s, n),
         NEW taken \in 0..readableBytes(b)
  PROVE  /\ AsString(b, taken) = [i \in 1..taken |-> s[n + i]]
         /\ Sound(retrieve(b, taken))
         /\ readableBytes(retrieve(b, taken)) = readableBytes(b) - taken
         /\ Len(retrieve(b, taken).buffer_) = Len(b.buffer_)
         /\ Continues(retrieve(b, taken), s, n + taken)
<1> DEFINE r == b.readerIndex_
           w == b.writerIndex_
<1>0. /\ r \in Nat /\ w \in Nat /\ Len(b.buffer_) \in Nat
      /\ r <= w /\ w <= Len(b.buffer_)
      /\ readableBytes(b) = w - r
  BY DEF Sound, Buffers, InOrder, readableBytes
<1>1. AsString(b, taken) = [i \in 1..taken |-> s[n + i]]
  <2>1. ASSUME NEW i \in 1..taken
        PROVE  r + i \in (r + 1)..w /\ r + i <= Len(b.buffer_) /\ b.buffer_[r + i] = s[n + i]
    <3>1. r + i \in (r + 1)..w /\ r + i <= Len(b.buffer_) /\ (r + i) - r = i
      BY <1>0, SMTT(30)
    <3>2. b.buffer_[r + i] = s[n + ((r + i) - r)]
      BY <3>1 DEF Continues
    <3> QED
      BY <3>1, <3>2
  <2>2. AsString(b, taken) = [i \in 1..taken |->
                                IF r + i <= Len(b.buffer_) THEN b.buffer_[r + i] ELSE NoByte]
    BY DEF AsString, Bytes
  <2> QED
    BY <2>1, <2>2
<1>2. CASE taken < readableBytes(b)
  <2> DEFINE c == retrieve(b, taken)
  <2>1. /\ c.buffer_ = b.buffer_ /\ c.overrun = b.overrun
        /\ c.readerIndex_ = r + taken /\ c.writerIndex_ = w
        /\ c \in Buffers
    <3>1. c = [b EXCEPT !.readerIndex_ = r + taken] /\ r + taken \in Nat /\ b \in Buffers
      BY <1>0, <1>2, SMTT(30) DEF retrieve, Sound
    <3> QED
      BY <3>1, ReaderMoved
  <2> HIDE DEF c
  <2>2. Sound(c) /\ readableBytes(c) = readableBytes(b) - taken
    BY <1>0, <1>2, <2>1 DEF Sound, InOrder, readableBytes
  <2>3. Continues(c, s, n + taken)
    <3>1. ASSUME NEW i \in (r + taken + 1)..w
          PROVE  c.buffer_[i] = s[n + taken + (i - (r + taken))]
      <4>1. i \in (r + 1)..w /\ n + taken + (i - (r + taken)) = n + (i - r)
        BY <1>0
      <4> QED
        BY <2>1, <4>1 DEF Continues
    <3> QED
      BY <2>1, <3>1 DEF Continues
  <2> QED
    BY <1>1, <2>1, <2>2, <2>3 DEF c
<1>3. CASE taken = readableBytes(b)
  <2> DEFINE c == retrieve(b, taken)
  <2>1. /\ c.buffer_ = b.buffer_ /\ c.overrun = b.overrun
        /\ c.readerIndex_ = kCheapPrepend /\ c.writerIndex_ = kCheapPrepend
        /\ c \in Buffers
    <3>1. ~(taken < readableBytes(b)) /\ b \in Buffers
      BY <1>0, <1>3 DEF Sound
    <3>2. c = retrieveAll(b)
      BY <3>1, Zenon DEF retrieve
    <3> QED
      BY <3>1, <3>2, AllRetrieved
  <2> HIDE DEF c
  <2>2. Sound(c) /\ readableBytes(c) = readableBytes(b) - taken
    BY <1>0, <1>3, <2>1 DEF Sound, InOrder, readableBytes
  <2>3. Continues(c, s, n + taken)
    BY <2>1 DEF Continues
  <2> QED
    BY <1>1, <2>1, <2>2, <2>3 DEF c
<1> QED
  BY <1>0, <1>2, <1>3

-----------------------------------------------------------------------------
(* The invariant *)

\* A new connection has an empty buffer.
LEMMA InitKept == Init => Kept
<1> SUFFICES ASSUME Init PROVE Kept
  OBVIOUS
<1> DEFINE b == NewBuffer
<1>1. inputBuffer_ = b /\ arrived = 0 /\ delivered = <<>>
  BY DEF Init, In!Init, In!NewBuffer, NewBuffer
<1>2. Len(b.buffer_) = kCheapPrepend + kInitialSize /\ b.buffer_ \in Seq(Byte)
  BY DEF NewBuffer, Byte
<1>3. b.readerIndex_ = kCheapPrepend /\ b.writerIndex_ = kCheapPrepend /\ ~b.overrun
  BY DEF NewBuffer
<1>4. b \in Buffers
  BY <1>2, <1>3 DEF NewBuffer, Buffers
<1> HIDE DEF b
<1>5. Holds(<<>>)
  BY <1>1, <1>3 DEF Holds, Rises, readableBytes, Continues
<1>6. Sound(inputBuffer_) /\ readableBytes(inputBuffer_) = 0
  BY <1>1, <1>2, <1>3, <1>4 DEF Sound, InOrder, readableBytes
<1> QED
  BY <1>1, <1>2, <1>5, <1>6 DEF Kept

\* t is s with m bytes more, of the n that follow the k-th.
GoesOn(t, s, k, n, m) ==
  /\ t \in Seq(Nat) /\ Len(t) = Len(s) + m /\ Rises(t, k + n)
  /\ \A i \in 1..Len(s) : t[i] = s[i]
  /\ \A i \in 1..m : t[Len(s) + i] = k + i

\* A stream that goes on with the next bytes.
LEMMA RisesMore ==
  ASSUME NEW s \in Seq(Nat), NEW k \in Nat, Rises(s, k), NEW n \in Nat, NEW m \in 0..n
  PROVE  GoesOn(s \o [i \in 1..m |-> k + i], s, k, n, m)
<1> DEFINE u == [i \in 1..m |-> k + i]
           t == s \o u
           l == Len(s)
<1>1. u \in Seq(Nat) /\ Len(u) = m /\ \A i \in 1..m : u[i] = k + i
  OBVIOUS
<1> HIDE DEF u
<1>2. /\ l \in Nat /\ t \in Seq(Nat) /\ Len(t) = l + m
      /\ \A i \in 1..l : t[i] = s[i]
      /\ \A i \in (l + 1)..(l + m) : t[i] = u[i - l] /\ i - l \in 1..m
  <2>1. /\ s \o u \in Seq(Nat) /\ Len(s) \in Nat
        /\ Len(s \o u) = Len(s) + Len(u)
        /\ \A i \in 1..Len(s) : (s \o u)[i] = s[i]
        /\ \A i \in (Len(s) + 1)..(Len(s) + Len(u)) :
             (s \o u)[i] = u[i - Len(s)] /\ i - Len(s) \in 1..Len(u)
    <3>1. u \in Seq(Nat)
      BY <1>1
    <3> QED
      BY <3>1, Joined
  <2>2. Len(u) = m
    BY <1>1
  <2> QED
    BY <2>1, <2>2
<1> HIDE DEF t, l
<1>3. \A i \in (l + 1)..(l + m) : t[i] = k + (i - l)
  BY <1>1, <1>2
<1>4. \A i \in 1..l : t[i] \in 1..k
  BY <1>2 DEF Rises, l
<1>5. ASSUME NEW i \in 1..(l + m)
      PROVE  t[i] \in 1..(k + n)
  <2>1. CASE i <= l
    <3>1. t[i] \in 1..k
      BY <1>2, <1>4, <2>1
    <3> QED
      BY <3>1
  <2>2. CASE i > l
    <3>1. t[i] = k + (i - l) /\ i - l \in 1..m
      BY <1>1, <1>2, <1>3, <2>2
    <3> QED
      BY <3>1
  <2> QED
    BY <1>2, <2>1, <2>2
<1>6. ASSUME NEW i \in 1..(l + m), NEW j \in 1..(l + m), i < j
      PROVE  t[i] < t[j]
  <2>1. CASE j <= l
    <3>1. i \in 1..l /\ j \in 1..l
      BY <1>2, <1>6, <2>1
    <3>2. s[i] < s[j]
      BY <1>6, <3>1 DEF Rises, l
    <3> QED
      BY <1>2, <3>1, <3>2
  <2>2. CASE j > l /\ i <= l
    <3>1. t[j] = k + (j - l) /\ j - l \in 1..m /\ t[i] \in 1..k
      BY <1>1, <1>2, <1>3, <1>4, <2>2
    <3> QED
      BY <3>1
  <2>3. CASE i > l
    <3>1. i \in (l + 1)..(l + m) /\ j \in (l + 1)..(l + m)
      BY <1>2, <1>6, <2>3
    <3> QED
      BY <1>2, <1>3, <1>6, <3>1
  <2> QED
    BY <1>2, <2>1, <2>2, <2>3
<1>7. ASSUME NEW i \in 1..m
      PROVE  t[l + i] = k + i
  <2>1. l + i \in (l + 1)..(l + m) /\ (l + i) - l = i
    BY <1>2
  <2> QED
    BY <1>3, <2>1
<1>8. Rises(t, k + n)
  BY <1>2, <1>5, <1>6 DEF Rises
<1> QED
  BY <1>2, <1>7, <1>8 DEF GoesOn, t, u, l

\* InputPath's instance of Buffer is DataPath's.
LEMMA OneBuffer ==
  ASSUME NEW b, NEW data, NEW len
  PROVE  /\ In!readFd(b, data) = readFd(b, data)
         /\ In!readableBytes(b) = readableBytes(b)
         /\ In!AsString(b, len) = AsString(b, len)
         /\ In!retrieve(b, len) = retrieve(b, len)
<1>1. In!readableBytes(b) = readableBytes(b)
  BY Zenon DEF In!readableBytes, readableBytes
<1>2. In!AsString(b, len) = AsString(b, len)
  BY Zenon DEF In!AsString, AsString, In!Bytes, Bytes
<1>3. In!retrieve(b, len) = retrieve(b, len)
  BY Zenon DEF In!retrieve, retrieve, In!retrieveAll, retrieveAll, In!readableBytes, readableBytes
<1>4. In!readFd(b, data) = readFd(b, data)
  BY Zenon DEF In!readFd, readFd, In!Copied, Copied, In!append, append, In!ensureWritableBytes,
       ensureWritableBytes, In!makeSpace, makeSpace, In!writableBytes, writableBytes,
       In!prependableBytes, prependableBytes, In!readableBytes, readableBytes, In!AsString,
       AsString, In!Bytes, Bytes
<1> QED
  BY <1>1, <1>2, <1>3, <1>4

\* What a read and its callback do.
LEMMA ReadDoes ==
  ASSUME NEW n \in 1..MaxRead, handleRead(n)
  PROVE  LET b == readFd(inputBuffer_, [i \in 1..n |-> arrived + i]) IN
           /\ arrived' = arrived + n /\ arrived + n <= MaxStream
           /\ \E taken \in 0..readableBytes(b) :
                /\ delivered' = delivered \o AsString(b, taken)
                /\ inputBuffer_' = retrieve(b, taken)
<1> DEFINE b == readFd(inputBuffer_, [i \in 1..n |-> arrived + i])
<1>1. In!handleRead(n)
  BY DEF handleRead
<1>2. In!readFd(inputBuffer_, [i \in 1..n |-> arrived + i]) = b
  BY OneBuffer, Zenon
<1> HIDE DEF b
<1>3. /\ arrived' = arrived + n /\ arrived + n <= MaxStream
      /\ \E taken \in 0..In!readableBytes(b) :
           /\ delivered' = delivered \o In!AsString(b, taken)
           /\ inputBuffer_' = In!retrieve(b, taken)
  BY <1>1, <1>2, Zenon DEF In!handleRead
<1>4. /\ In!readableBytes(b) = readableBytes(b)
      /\ \A taken : /\ In!AsString(b, taken) = AsString(b, taken)
                     /\ In!retrieve(b, taken) = retrieve(b, taken)
  BY OneBuffer, Zenon
<1> QED
  BY <1>3, <1>4, Zenon DEF b

\* retrieve does not take the mark of an overrun away.
LEMMA OverrunStays ==
  ASSUME NEW b, NEW len, ~retrieve(b, len).overrun
  PROVE  ~b.overrun
BY DEF retrieve, retrieveAll

\* A read that does not overrun the buffer, and its callback, keep the stream, which
\* goes on.
LEMMA ReadKeeps ==
  ASSUME Kept, ~inputBuffer_.overrun, NEW n \in 1..MaxRead, handleRead(n)
  PROVE  /\ Kept'
         /\ ~inputBuffer_.overrun' =>
              /\ Len(delivered) <= Len(delivered')
              /\ \A i \in 1..Len(delivered) : delivered'[i] = delivered[i]
<1> DEFINE len  == Len(delivered)
           more == [i \in 1..n |-> arrived + i]
           b    == readFd(inputBuffer_, more)
           c    == inputBuffer_'
           held == readableBytes(inputBuffer_)
           size == Len(inputBuffer_.buffer_)
<1>1. arrived' = arrived + n /\ arrived + n <= MaxStream
  BY ReadDoes
<1>2. PICK taken \in 0..readableBytes(b) :
        delivered' = delivered \o AsString(b, taken) /\ c = retrieve(b, taken)
  BY ReadDoes
<1>3. arrived' \in Nat /\ arrived' <= MaxStream /\ n \in Nat /\ arrived \in Nat
  BY <1>1 DEF Kept
<1>4. ASSUME ~c.overrun
      PROVE  /\ Sound(c)
             /\ delivered' \in Seq(Nat)
             /\ Len(delivered') + readableBytes(c)
                  + (Len(c.buffer_) - (kCheapPrepend + kInitialSize)) = arrived'
             /\ \E s : Holds(s)'
             /\ Len(delivered) <= Len(delivered')
             /\ \A i \in 1..Len(delivered) : delivered'[i] = delivered[i]
  <2>0. /\ len \in Nat /\ held \in Nat /\ size \in Nat
        /\ inputBuffer_.readerIndex_ \in Nat /\ inputBuffer_.writerIndex_ \in Nat
        /\ inputBuffer_.readerIndex_ <= inputBuffer_.writerIndex_
        /\ held = inputBuffer_.writerIndex_ - inputBuffer_.readerIndex_
    BY DEF Kept, Sound, Buffers, InOrder, readableBytes
  <2>c. len + held + (size - (kCheapPrepend + kInitialSize)) = arrived
    BY DEF Kept
  <2>d. Sound(inputBuffer_) /\ delivered \in Seq(Nat)
    BY DEF Kept
  <2>1. PICK s : Holds(s)
    BY DEF Kept
  <2> HIDE DEF len, held, size
  <2>2. /\ s \in Seq(Nat) /\ Rises(s, arrived) /\ Len(s) = len + held
        /\ \A i \in 1..len : delivered[i] = s[i]
        /\ Continues(inputBuffer_, s, len)
    BY <2>1 DEF Holds, len, held
  <2>3. ~b.overrun
    BY <1>2, <1>4, OverrunStays
  <2>4. PICK m \in 0..n :
          Took(b, inputBuffer_, n, arrived, m)
    <3>1. b = readFd(inputBuffer_, [i \in 1..n |-> arrived + i])
      OBVIOUS
    <3> HIDE DEF b
    <3> QED
      BY <1>3, <2>d, <2>3, <3>1, ReadTakes
  <2> HIDE DEF b
  <2>a. /\ m \in Nat
        /\ b.readerIndex_ = inputBuffer_.readerIndex_
        /\ b.writerIndex_ = inputBuffer_.writerIndex_ + m
        /\ Len(b.buffer_) = size + (n - m)
    BY <1>3, <2>4 DEF Took, size
  <2>b. /\ Sound(b)
        /\ \A i \in 1..inputBuffer_.writerIndex_ : b.buffer_[i] = inputBuffer_.buffer_[i]
        /\ \A i \in 1..m : b.buffer_[inputBuffer_.writerIndex_ + i] = arrived + i
    BY <2>4 DEF Took
  <2>5. PICK t : t = s \o [i \in 1..m |-> arrived + i]
    OBVIOUS
  <2>6. /\ t \in Seq(Nat) /\ Len(t) = len + held + m /\ Rises(t, arrived + n)
        /\ \A i \in 1..(len + held) : t[i] = s[i]
        /\ \A i \in 1..m : t[(len + held) + i] = arrived + i
    <3>1. s \in Seq(Nat) /\ Rises(s, arrived) /\ m \in 0..n
      BY <2>2
    <3>2. GoesOn(t, s, arrived, n, m)
      BY <1>3, <2>5, <3>1, RisesMore
    <3>3. Len(s) = len + held
      BY <2>2
    <3> QED
      BY <3>2, <3>3 DEF GoesOn
  <2> HIDE DEF c
  <2>7. readableBytes(b) = held + m /\ m \in Nat
    BY <2>0, <2>a DEF readableBytes
  <2>8. Continues(b, t, len)
    <3> DEFINE r == inputBuffer_.readerIndex_
               w == inputBuffer_.writerIndex_
    <3>1. ASSUME NEW i \in (r + 1)..(w + m)
          PROVE  b.buffer_[i] = t[len + (i - r)]
      <4>1. CASE i <= w
        <5>1. i \in 1..w /\ i \in (r + 1)..w /\ len + (i - r) \in 1..(len + held)
          BY <2>0, <2>7, <4>1
        <5>2. b.buffer_[i] = inputBuffer_.buffer_[i]
          BY <2>b, <5>1
        <5>3. inputBuffer_.buffer_[i] = s[len + (i - r)]
          BY <2>2, <5>1 DEF Continues
        <5> QED
          BY <2>6, <5>1, <5>2, <5>3
      <4>2. CASE i > w
        <5>1. i - w \in 1..m /\ w + (i - w) = i /\ (len + held) + (i - w) = len + (i - r)
          BY <2>0, <2>7, <4>2
        <5>2. b.buffer_[w + (i - w)] = arrived + (i - w)
          BY <2>b, <5>1
        <5>3. t[(len + held) + (i - w)] = arrived + (i - w)
          BY <2>6, <5>1
        <5> QED
          BY <5>1, <5>2, <5>3
      <4> QED
        BY <2>0, <4>1, <4>2
    <3> QED
      BY <2>a, <3>1 DEF Continues
  <2>9. /\ AsString(b, taken) = [i \in 1..taken |-> t[len + i]]
        /\ Sound(c)
        /\ readableBytes(c) = readableBytes(b) - taken
        /\ Len(c.buffer_) = Len(b.buffer_)
        /\ Continues(c, t, len + taken)
    <3>1. taken \in 0..readableBytes(b)
      BY <1>2
    <3>2. /\ AsString(b, taken) = [i \in 1..taken |-> t[len + i]]
          /\ Sound(retrieve(b, taken))
          /\ readableBytes(retrieve(b, taken)) = readableBytes(b) - taken
          /\ Len(retrieve(b, taken).buffer_) = Len(b.buffer_)
          /\ Continues(retrieve(b, taken), t, len + taken)
      BY <2>0, <2>b, <2>8, <3>1, Retrieved
    <3> QED
      BY <1>2, <3>2
  <2>10. taken \in Nat /\ taken <= held + m
    BY <1>2, <2>0, <2>7
  <2>11. ASSUME NEW i \in 1..taken
         PROVE  AsString(b, taken)[i] = t[len + i] /\ t[len + i] \in Nat
    <3>1. len + i \in 1..(len + held + m)
      BY <2>0, <2>7, <2>10
    <3> QED
      BY <2>6, <2>9, <3>1
  <2>12. AsString(b, taken) \in Seq(Nat) /\ Len(AsString(b, taken)) = taken
    BY <2>9, <2>10, <2>11
  <2>13. /\ delivered' \in Seq(Nat) /\ Len(delivered') = len + taken
         /\ \A i \in 1..len : delivered'[i] = delivered[i]
         /\ \A i \in (len + 1)..(len + taken) : delivered'[i] = AsString(b, taken)[i - len]
    <3> DEFINE str == AsString(b, taken)
    <3>1. str \in Seq(Nat) /\ Len(str) = taken /\ delivered' = delivered \o str /\ len = Len(delivered)
      BY <1>2, <2>12 DEF len
    <3> HIDE DEF str
    <3> QED
      <4>1. str \in Seq(Nat) /\ delivered \in Seq(Nat)
        BY <2>d, <3>1
      <4>2. /\ delivered \o str \in Seq(Nat)
            /\ Len(delivered \o str) = Len(delivered) + Len(str)
            /\ \A i \in 1..Len(delivered) : (delivered \o str)[i] = delivered[i]
            /\ \A i \in (Len(delivered) + 1)..(Len(delivered) + Len(str)) :
                 (delivered \o str)[i] = str[i - Len(delivered)]
        BY <4>1, Joined
      <4> QED
        BY <3>1, <4>2 DEF str
  <2>14. ASSUME NEW i \in 1..(len + taken)
         PROVE  delivered'[i] = t[i]
    <3>1. CASE i <= len
      <4>1. i \in 1..len /\ i \in 1..(len + held)
        BY <2>0, <3>1
      <4> QED
        BY <2>2, <2>6, <2>13, <4>1
    <3>2. CASE i > len
      <4>1. i \in (len + 1)..(len + taken) /\ i - len \in 1..taken /\ len + (i - len) = i
        BY <2>0, <2>10, <3>2
      <4> QED
        BY <2>11, <2>13, <4>1
    <3> QED
      BY <2>0, <2>10, <3>1, <3>2
  <2>15. /\ readableBytes(c) = held + m - taken
         /\ Len(c.buffer_) = size + (n - m)
    BY <2>0, <2>a, <2>7, <2>9, <2>10
  <2>16. Len(delivered') + readableBytes(c)
           + (Len(c.buffer_) - (kCheapPrepend + kInitialSize)) = arrived'
    <3>1. Len(delivered') = len + taken
      BY <2>13
    <3>3. PICK x \in Nat, y \in Nat : x = held + m - taken /\ y = size + (n - m)
      BY <1>3, <2>0, <2>a, <2>10
    <3>4. readableBytes(c) = x /\ Len(c.buffer_) = y
      BY <2>15, <3>3
    <3>5. len + taken + x + (y - (kCheapPrepend + kInitialSize)) = arrived + n
      <4>1. PICK f \in Nat : f = kCheapPrepend + kInitialSize
        OBVIOUS
      <4>2. len + held + (size - f) = arrived
        BY <2>c, <4>1
      <4>3. len + taken + x + (y - f) = arrived + n
        <5>1. /\ len \in Nat /\ held \in Nat /\ size \in Nat /\ m \in Nat /\ taken \in Nat
              /\ n \in Nat /\ arrived \in Nat
          BY <1>3, <2>0, <2>a, <2>10
        <5> QED
          BY <3>3, <4>2, <5>1
      <4> QED
        BY <4>1, <4>3
    <3> QED
      BY <1>1, <3>1, <3>4, <3>5
  <2>17. Holds(t)'
    <3>1. Len(t) = Len(delivered') + readableBytes(c)
      BY <2>0, <2>6, <2>7, <2>10, <2>13, <2>15
    <3>2. Continues(c, t, Len(delivered'))
      BY <2>9, <2>13
    <3>3. \A i \in 1..Len(delivered') : delivered'[i] = t[i]
      BY <2>13, <2>14
    <3> QED
      BY <1>1, <2>6, <3>1, <3>2, <3>3 DEF Holds, Rises, readableBytes, Continues, c
  <2> QED
    <3>1. Sound(c) /\ Len(delivered) <= Len(delivered') /\ delivered' \in Seq(Nat)
      BY <2>0, <2>9, <2>10, <2>13 DEF len
    <3>2. \A i \in 1..Len(delivered) : delivered'[i] = delivered[i]
      BY <2>13 DEF len
    <3> QED
      BY <2>16, <2>17, <3>1, <3>2
<1>5. Kept'
  <2>1. ASSUME ~c.overrun
        PROVE  Sound(inputBuffer_)'
    BY <1>4, <2>1 DEF Sound, Buffers, InOrder
  <2> QED
    BY <1>3, <1>4, <2>1 DEF Kept, readableBytes
<1> QED
  BY <1>4, <1>5

\* Nothing else touches the input.
LEMMA OthersKeep ==
  ASSUME Kept, [Next]_vars, \A n \in 1..MaxRead : ~handleRead(n)
  PROVE  Kept'
<1>1. UNCHANGED inputVars
  BY DEF Next, Loop, Sender, vars, shutdown, handleWrite, runSendInLoop, runShutdownInLoop, sends,
         shuts, dropsString, Drains
<1> QED
  BY <1>1 DEF inputVars, Kept, Holds, Rises, Sound, Buffers, InOrder, readableBytes, Continues

\* Every step keeps the invariant.
THEOREM InputKept == Spec => []Kept
<1>1. ASSUME Kept, [Next]_vars
      PROVE  Kept'
  <2>1. ASSUME NEW n \in 1..MaxRead, handleRead(n), [Next]_vars, ~(UNCHANGED vars)
        PROVE  Kept'
    <3>1. ~inputBuffer_.overrun
      BY <2>1 DEF Next
    <3> QED
      BY <1>1, <2>1, <3>1, ReadKeeps
  <2>2. CASE UNCHANGED vars
    <3>1. UNCHANGED inputVars
      BY <2>2 DEF vars
    <3> QED
      BY <1>1, <3>1 DEF inputVars, Kept, Holds, Rises, Sound, Buffers, InOrder, readableBytes,
                        Continues
  <2> QED
    BY <1>1, <2>1, <2>2, OthersKeep
<1> QED
  BY <1>1, InitKept, PTL DEF Spec

\* The indices leave the order of the class's picture (Buffer.h:15) only by a copy
\* past the vector's end.
THEOREM IndicesStayInOrder == Spec => []IndicesInOrder
<1>1. Kept => IndicesInOrder
  BY DEF Kept, Sound, IndicesInOrder, In!IndicesInOrder, In!InOrder, InOrder
<1>2. Spec => []Kept
  BY InputKept
<1> QED
  BY <1>1, <1>2, PTL

\* Of the bytes read, onMessage gets each at most once, and in their order, and as
\* many are lost as readFd has made the vector grow by (Buffer.cc:42-46).
THEOREM StreamAlwaysKept == Spec => []StreamIsKept
<1>1. ASSUME Kept PROVE StreamIsKept
  <2> SUFFICES ASSUME ~inputBuffer_.overrun
               PROVE  /\ \A i \in DOMAIN In!Stream : In!Stream[i] \in 1..arrived
                      /\ \A i, j \in DOMAIN In!Stream : i < j => In!Stream[i] < In!Stream[j]
                      /\ Len(In!Stream) + In!Growth = arrived
    BY Zenon DEF StreamIsKept, In!StreamIsKept
  <2> DEFINE left == readableBytes(inputBuffer_)
             rest == AsString(inputBuffer_, left)
             len  == Len(delivered)
             all  == delivered \o rest
  <2>1. /\ left \in Nat /\ arrived \in Nat /\ len \in Nat /\ delivered \in Seq(Nat)
        /\ Sound(inputBuffer_)
        /\ len + left + (Len(inputBuffer_.buffer_) - (kCheapPrepend + kInitialSize)) = arrived
    BY <1>1 DEF Kept, Sound, Buffers, InOrder, readableBytes
  <2>2. PICK s : Holds(s)
    BY <1>1 DEF Kept
  <2>3. /\ s \in Seq(Nat) /\ Rises(s, arrived) /\ Len(s) = len + left
        /\ \A i \in 1..len : delivered[i] = s[i]
        /\ Continues(inputBuffer_, s, len)
    BY <2>2 DEF Holds
  <2>4. rest = [i \in 1..left |-> s[len + i]]
    <3>1. left \in 0..readableBytes(inputBuffer_)
      BY <2>1
    <3> HIDE DEF left, len
    <3>2. /\ AsString(inputBuffer_, left) = [i \in 1..left |-> s[len + i]]
          /\ Sound(retrieve(inputBuffer_, left))
          /\ readableBytes(retrieve(inputBuffer_, left)) = readableBytes(inputBuffer_) - left
          /\ Len(retrieve(inputBuffer_, left).buffer_) = Len(inputBuffer_.buffer_)
          /\ Continues(retrieve(inputBuffer_, left), s, len + left)
      BY <2>1, <2>3, <3>1, Retrieved
    <3> QED
      BY <3>2
  <2> HIDE DEF rest, left
  <2>a. len = Len(delivered)
    OBVIOUS
  <2> HIDE DEF len
  <2>n. len \in Nat /\ left \in Nat
    BY <2>1
  <2>5. rest \in Seq(Nat) /\ Len(rest) = left /\ \A i \in 1..left : rest[i] = s[len + i]
    <3>1. ASSUME NEW i \in 1..left
          PROVE  s[len + i] \in Nat
      <4>1. len + i \in 1..(len + left)
        BY <2>n
      <4> QED
        BY <2>3, <4>1
    <3>2. rest \in [1..left -> Nat]
      BY <2>4, <3>1
    <3> QED
      BY <2>n, <2>4, <3>2
  <2>6. /\ Len(all) = len + left /\ DOMAIN all = 1..(len + left)
        /\ \A i \in 1..len : all[i] = delivered[i]
        /\ \A i \in (len + 1)..(len + left) : all[i] = rest[i - len] /\ i - len \in 1..left
    <3>1. delivered \in Seq(Nat) /\ rest \in Seq(Nat)
      BY <2>1, <2>5
    <3>2. /\ Len(delivered \o rest) = Len(delivered) + Len(rest)
          /\ DOMAIN (delivered \o rest) = 1..(Len(delivered) + Len(rest))
          /\ \A i \in 1..Len(delivered) : (delivered \o rest)[i] = delivered[i]
          /\ \A i \in (Len(delivered) + 1)..(Len(delivered) + Len(rest)) :
               /\ (delivered \o rest)[i] = rest[i - Len(delivered)]
               /\ i - Len(delivered) \in 1..Len(rest)
      BY <3>1, Joined
    <3>3. Len(rest) = left
      BY <2>5
    <3> QED
      BY <2>a, <3>2, <3>3
  <2>7. ASSUME NEW i \in 1..(len + left)
        PROVE  all[i] = s[i]
    <3> HIDE DEF all
    <3>1. CASE i \in 1..len
      BY <2>3, <2>6, <3>1
    <3>2. CASE i \in (len + 1)..(len + left)
      <4>1. len + (i - len) = i
        BY <2>n
      <4> QED
        BY <2>5, <2>6, <3>2, <4>1
    <3> QED
      BY <2>n, <3>1, <3>2
  <2>8. In!Stream = all
    BY OneBuffer DEF In!Stream, rest, left
  <2>9. In!Growth = Len(inputBuffer_.buffer_) - (kCheapPrepend + kInitialSize)
    BY DEF In!Growth
  <2> HIDE DEF all, len
  <2> QED
    BY <2>1, <2>3, <2>6, <2>7, <2>8, <2>9, ZenonT(60) DEF Rises
<1>2. Spec => []Kept
  BY InputKept
<1> QED
  BY <1>1, <1>2, PTL
-----------------------------------------------------------------------------
(* The writing side *)

TaskType == [op : {"send", "shutdown"}, msg : Seq(Nat)]

\* The shutdown task is the last one, and from then on send is refused.  The
\* channel never stops reading, so that the equality test of isWriteing fails.
Orderly ==
  /\ "read" \in events_
  /\ usage \in Usages
  /\ sent \in Nat
  /\ tasks \in Seq(TaskType)
  /\ \A i \in DOMAIN tasks :
       tasks[i].op = "shutdown" => i = Len(tasks) /\ state_ # "kConnected"

\* Once the shutdown task has run, or the loop's thread has shut down, nothing is
\* queued any more.
WritesEnd ==
  /\ ~killed
  /\ ~usage.sends /\ usage.shuts = "loop" => tasks = <<>>
  /\ wrShut => state_ # "kConnected" /\ tasks = <<>>

\* sendInLoop never stops reading, and does not write to a closed side while the
\* side is open.
LEMMA SendKeepsReading ==
  ASSUME "read" \in events_, NEW data, sendInLoop(data)
  PROVE  "read" \in events_' /\ (~wrShut => killed' = killed)
<1>1. CASE events_' = events_ /\ killed' = TRUE /\ wrShut
  BY <1>1
<1>2. CASE Out!sendInLoop(data) /\ killed' = killed
  <2>1. events_' = events_ \/ events_' = events_ \cup {"write"}
    BY <1>2, Zenon DEF Out!sendInLoop, Out!isWriteing
  <2> QED
    BY <1>2, <2>1
<1> QED
  BY <1>1, <1>2, Zenon DEF sendInLoop

\* The first task leaves the queue.
LEMMA TaskRun ==
  ASSUME Orderly, tasks # <<>>, tasks' = Tail(tasks), state_' = state_
  PROVE  /\ Head(tasks) = tasks[1] /\ tasks' \in Seq(TaskType)
         /\ \A i \in DOMAIN tasks' :
              tasks'[i].op = "shutdown" => i = Len(tasks') /\ state_' # "kConnected"
         /\ Head(tasks).op = "shutdown" => tasks' = <<>> /\ state_ # "kConnected"
<1>1. /\ tasks \in Seq(TaskType) /\ Len(tasks) \in Nat /\ Len(tasks) > 0
      /\ DOMAIN tasks = 1..Len(tasks)
  BY DEF Orderly
<1>2. /\ Head(tasks) = tasks[1] /\ tasks' \in Seq(TaskType) /\ Len(tasks') = Len(tasks) - 1
      /\ \A i \in 1..Len(tasks') : tasks'[i] = tasks[i + 1] /\ i + 1 \in 1..Len(tasks)
      /\ DOMAIN tasks' = 1..Len(tasks')
  BY <1>1, SMTT(30)
<1>3. \A i \in 1..Len(tasks) :
        tasks[i].op = "shutdown" => i = Len(tasks) /\ state_ # "kConnected"
  BY <1>1 DEF Orderly
<1>4. ASSUME NEW i \in DOMAIN tasks', tasks'[i].op = "shutdown"
      PROVE  i = Len(tasks') /\ state_' # "kConnected"
  <2>1. i \in 1..Len(tasks') /\ i + 1 \in 1..Len(tasks) /\ tasks[i + 1].op = "shutdown"
    BY <1>2, <1>4
  <2>2. i + 1 = Len(tasks) /\ state_ # "kConnected"
    BY <1>3, <2>1
  <2> QED
    BY <1>1, <1>2, <2>1, <2>2
<1>5. ASSUME Head(tasks).op = "shutdown"
      PROVE  tasks' = <<>> /\ state_ # "kConnected"
  <2>0. 1 \in 1..Len(tasks) /\ tasks[1].op = "shutdown"
    BY <1>1, <1>2, <1>5
  <2>1. 1 = Len(tasks) /\ state_ # "kConnected"
    BY <1>3, <2>0
  <2> QED
    BY <1>2, <2>1
<1> QED
  BY <1>2, <1>4, <1>5

\* A task joins the queue of a connection that is not shut down.
LEMMA TaskQueued ==
  ASSUME Orderly, state_ = "kConnected", NEW t \in TaskType, tasks' = Append(tasks, t),
         t.op = "shutdown" => state_' # "kConnected"
  PROVE  /\ tasks' \in Seq(TaskType)
         /\ \A i \in DOMAIN tasks' :
              tasks'[i].op = "shutdown" => i = Len(tasks') /\ state_' # "kConnected"
<1>1. /\ tasks \in Seq(TaskType) /\ Len(tasks) \in Nat /\ DOMAIN tasks = 1..Len(tasks)
      /\ tasks' \in Seq(TaskType) /\ Len(tasks') = Len(tasks) + 1
      /\ DOMAIN tasks' = 1..Len(tasks')
      /\ tasks'[Len(tasks')] = t
      /\ \A i \in 1..Len(tasks) : tasks'[i] = tasks[i]
  BY DEF Orderly
<1>2. \A i \in 1..Len(tasks) : tasks[i].op # "shutdown"
  BY <1>1 DEF Orderly
<1>3. ASSUME NEW i \in DOMAIN tasks', tasks'[i].op = "shutdown"
      PROVE  i = Len(tasks') /\ state_' # "kConnected"
  <2>1. i \in 1..Len(tasks) \/ i = Len(tasks')
    BY <1>1
  <2>2. i = Len(tasks')
    BY <1>1, <1>2, <1>3, <2>1
  <2> QED
    BY <1>1, <1>3, <2>2
<1> QED
  BY <1>1, <1>3

\* onMessage only sends.
LEMMA MessageKeepsReading ==
  ASSUME "read" \in events_, NEW n \in 1..MaxRead, handleRead(n)
  PROVE  /\ "read" \in events_'
         /\ ~wrShut \/ state_ # "kConnected" => killed' = killed
<1> DEFINE msg == SubSeq(delivered', Len(delivered) + 1, Len(delivered'))
<1>1. onMessage(msg)
  BY DEF handleRead
<1> HIDE DEF msg
<1>2. CASE state_ = "kConnected"
  BY <1>1, <1>2, SendKeepsReading DEF onMessage
<1>3. CASE state_ # "kConnected"
  BY <1>1, <1>3 DEF onMessage
<1> QED
  BY <1>2, <1>3

\* handleWrite neither writes nor shuts down.
LEMMA WriteDoesNothing ==
  ASSUME "read" \in events_, handleWrite
  PROVE  events_' = events_ /\ (wrShut' => wrShut)
         /\ UNCHANGED <<state_, sent, tasks, usage, killed>>
<1>1. ~Out!isWriteing
  BY DEF Out!isWriteing
<1>2. UNCHANGED <<state_, sent, tasks, usage, killed>>
  BY DEF handleWrite, Out!handleWrite, callVars
<1>3. \E all : /\ events_' = IF Out!isWriteing /\ all THEN events_ \ {"write"} ELSE events_
               /\ wrShut' = (wrShut \/ (Out!isWriteing /\ all /\ state_ = "kDisconnecting"))
  BY Zenon DEF handleWrite, Out!handleWrite
<1>4. events_' = events_ /\ (wrShut' => wrShut)
  BY <1>1, <1>3, Zenon
<1> QED
  BY <1>2, <1>4

\* Every step keeps the order of the tasks.
LEMMA OrderlyStep ==
  ASSUME Orderly, [Next]_vars
  PROVE  Orderly'
<1>1. CASE UNCHANGED vars
  BY <1>1 DEF Orderly, vars, callVars
<1>2. ASSUME NEW n \in 1..MaxRead, handleRead(n)
      PROVE  Orderly'
  <2>1. UNCHANGED <<state_, sent, usage, tasks>>
    BY <1>2 DEF handleRead, callVars
  <2> QED
    BY <1>2, <2>1, MessageKeepsReading DEF Orderly
<1>3. CASE shutdown
  BY <1>3 DEF shutdown, Out!shutdown, callVars, Orderly
<1>4. CASE handleWrite
  BY <1>4, WriteDoesNothing DEF Orderly
<1>5. CASE runSendInLoop
  <2>1. /\ tasks # <<>> /\ tasks' = Tail(tasks) /\ UNCHANGED <<state_, sent, usage>>
        /\ \E data : sendInLoop(data)
    BY <1>5 DEF runSendInLoop
  <2>2. "read" \in events_'
    BY <2>1, SendKeepsReading DEF Orderly
  <2> QED
    BY <2>1, <2>2, TaskRun DEF Orderly
<1>6. CASE runShutdownInLoop
  <2>1. /\ tasks # <<>> /\ tasks' = Tail(tasks) /\ UNCHANGED <<state_, events_, sent, usage>>
    BY <1>6 DEF runShutdownInLoop
  <2> QED
    BY <2>1, TaskRun DEF Orderly
<1>7. ASSUME NEW n \in 1..MaxLen, sends(n)
      PROVE  Orderly'
  <2> DEFINE msg == [i \in 1..n |-> MaxStream + sent + i]
             t   == [op |-> "send", msg |-> msg]
  <2>1. /\ usage.sends /\ state_ = "kConnected" /\ sent' = sent + n /\ tasks' = Append(tasks, t)
        /\ UNCHANGED <<state_, events_, usage>>
    BY <1>7 DEF sends
  <2>2. t \in TaskType /\ t.op = "send" /\ sent' \in Nat
    BY <2>1 DEF TaskType, Orderly
  <2> HIDE DEF t
  <2>3. /\ tasks' \in Seq(TaskType)
        /\ \A i \in DOMAIN tasks' :
             tasks'[i].op = "shutdown" => i = Len(tasks') /\ state_' # "kConnected"
    BY <2>1, <2>2, TaskQueued
  <2> QED
    BY <2>1, <2>2, <2>3 DEF Orderly
<1>8. CASE shuts
  <2> DEFINE t == [op |-> "shutdown", msg |-> <<>>]
  <2>1. /\ state_ = "kConnected" /\ state_' = "kDisconnecting"
        /\ tasks' = Append(tasks, t) /\ UNCHANGED <<events_, sent, usage>>
    BY <1>8 DEF shuts
  <2>2. t \in TaskType
    BY DEF TaskType
  <2> HIDE DEF t
  <2>3. /\ tasks' \in Seq(TaskType)
        /\ \A i \in DOMAIN tasks' :
             tasks'[i].op = "shutdown" => i = Len(tasks') /\ state_' # "kConnected"
    BY <2>1, <2>2, TaskQueued
  <2> QED
    BY <2>1, <2>3 DEF Orderly
<1>9. CASE Drains \/ \E msg \in strings : dropsString(msg)
  <2>1. UNCHANGED <<state_, events_, sent, tasks, usage>>
    BY <1>9 DEF Drains, Out!Drains, dropsString, callVars
  <2> QED
    BY <2>1 DEF Orderly
<1> QED
  BY <1>1, <1>2, <1>3, <1>4, <1>5, <1>6, <1>7, <1>8, <1>9 DEF Next, Loop, Sender

\* Every step keeps the end of the writing, when a sender's thread that sends is the
\* one that shuts down.
LEMMA WritesStep ==
  ASSUME \A x \in Usages : x.sends => x.shuts = "sender",
         Orderly, WritesEnd, [Next]_vars
  PROVE  WritesEnd'
<1>u. usage \in Usages /\ (usage.sends => usage.shuts = "sender")
      /\ usage.sends \in BOOLEAN /\ usage.shuts \in {"loop", "sender"} /\ "read" \in events_
  BY DEF Orderly, Usage
<1>1. CASE UNCHANGED vars
  BY <1>1 DEF WritesEnd, vars, callVars
<1>2. ASSUME NEW n \in 1..MaxRead, handleRead(n)
      PROVE  WritesEnd'
  <2>1. UNCHANGED <<state_, wrShut, usage, tasks>>
    BY <1>2 DEF handleRead, callVars
  <2>2. killed' = killed
    BY <1>u, <1>2, MessageKeepsReading DEF WritesEnd
  <2> QED
    BY <2>1, <2>2 DEF WritesEnd
<1>3. CASE shutdown
  <2>1. /\ usage.shuts = "loop" /\ state_' = "kDisconnecting" /\ UNCHANGED <<tasks, usage, killed>>
    BY <1>3 DEF shutdown, Out!shutdown, callVars
  <2>2. tasks = <<>>
    BY <1>u, <2>1 DEF WritesEnd
  <2> QED
    BY <2>1, <2>2 DEF WritesEnd
<1>4. CASE handleWrite
  BY <1>u, <1>4, WriteDoesNothing DEF WritesEnd
<1>5. CASE runSendInLoop
  <2>1. /\ tasks # <<>> /\ tasks' = Tail(tasks) /\ UNCHANGED <<state_, wrShut, usage>>
        /\ \E data : sendInLoop(data)
    BY <1>5 DEF runSendInLoop
  <2>2. ~wrShut /\ ~killed'
    BY <1>u, <2>1, SendKeepsReading DEF WritesEnd
  <2>3. tasks = <<>> => FALSE
    BY <2>1
  <2> QED
    BY <2>1, <2>2, <2>3 DEF WritesEnd
<1>6. CASE runShutdownInLoop
  <2>1. /\ tasks # <<>> /\ tasks' = Tail(tasks) /\ Head(tasks).op = "shutdown"
        /\ UNCHANGED <<state_, usage, killed>>
    BY <1>6 DEF runShutdownInLoop
  <2>2. tasks' = <<>> /\ state_ # "kConnected"
    BY <2>1, TaskRun
  <2> QED
    BY <2>1, <2>2 DEF WritesEnd
<1>7. ASSUME NEW n \in 1..MaxLen, sends(n)
      PROVE  WritesEnd'
  <2>1. usage.sends /\ state_ = "kConnected" /\ UNCHANGED <<state_, wrShut, usage, killed>>
    BY <1>7 DEF sends
  <2> QED
    BY <2>1 DEF WritesEnd
<1>8. CASE shuts
  <2>1. /\ usage.shuts = "sender" /\ state_ = "kConnected" /\ UNCHANGED <<wrShut, usage, killed>>
    BY <1>8 DEF shuts
  <2> QED
    BY <2>1 DEF WritesEnd
<1>9. CASE Drains \/ \E msg \in strings : dropsString(msg)
  <2>1. UNCHANGED <<state_, wrShut, tasks, usage, killed>>
    BY <1>9 DEF Drains, Out!Drains, dropsString, callVars
  <2> QED
    BY <2>1 DEF WritesEnd
<1> QED
  BY <1>1, <1>2, <1>3, <1>4, <1>5, <1>6, <1>7, <1>8, <1>9 DEF Next, Loop, Sender

\* The order of the tasks holds in every usage.
LEMMA AlwaysOrderly == Spec => []Orderly
<1>1. Init => Orderly
  BY DEF Init, Out!Init, Orderly
<1>2. Orderly /\ [Next]_vars => Orderly'
  BY OrderlyStep
<1> QED
  BY <1>1, <1>2, PTL DEF Spec

\* No write follows the end of the writing side, so that SIGPIPE never ends the
\* process (TcpConnection.cc:238), when the sender's thread, if it sends, is also the
\* one that shuts down.
THEOREM NoWriteComesLate ==
  ASSUME \A x \in Usages : x.sends => x.shuts = "sender"
  PROVE  Spec => []NoWriteAfterShutdown
<1>1. Init => WritesEnd
  BY DEF Init, Out!Init, WritesEnd
<1>2. Orderly /\ WritesEnd /\ [Next]_vars => WritesEnd'
  BY WritesStep
<1>3. WritesEnd => NoWriteAfterShutdown
  BY DEF WritesEnd, NoWriteAfterShutdown
<1>4. Spec => []Orderly
  BY AlwaysOrderly
<1> QED
  BY <1>1, <1>2, <1>3, <1>4, PTL DEF Spec
-----------------------------------------------------------------------------
(* The echo *)

\* u is t after s.
Follows(u, s, t) ==
  /\ u \in Seq(Byte) /\ Len(s) \in Nat /\ Len(u) = Len(s) + Len(t)
  /\ DOMAIN s = 1..Len(s) /\ DOMAIN t = 1..Len(t) /\ DOMAIN u = 1..(Len(s) + Len(t))
  /\ \A i \in 1..Len(s) : u[i] = s[i]
  /\ \A i \in (Len(s) + 1)..(Len(s) + Len(t)) : u[i] = t[i - Len(s)] /\ i - Len(s) \in 1..Len(t)

LEMMA BytesFollow ==
  ASSUME NEW s \in Seq(Byte), NEW t \in Seq(Byte)
  PROVE  Follows(s \o t, s, t)
<1>1. DOMAIN t = 1..Len(t)
  OBVIOUS
<1> QED
  BY <1>1, Joined, SMTT(30) DEF Follows

\* A sequence that carries S goes on with one that carries T, whose bytes come later.
LEMMA CarriesMore ==
  ASSUME NEW s \in Seq(Byte), NEW t \in Seq(Byte), NEW S \in SUBSET Nat, NEW T \in SUBSET Nat,
         Carries(s, S), Carries(t, T),
         \A i \in 1..Len(s) : s[i] \notin T, \A i \in 1..Len(t) : t[i] \notin S,
         \A x \in S, y \in T : x < y
  PROVE  Carries(s \o t, S \cup T)
<1> DEFINE u == s \o t
           l == Len(s)
           n == Len(t)
<1>1. /\ l \in Nat /\ n \in Nat /\ DOMAIN s = 1..l /\ DOMAIN t = 1..n /\ DOMAIN u = 1..(l + n)
      /\ \A i \in 1..l : u[i] = s[i]
      /\ \A i \in (l + 1)..(l + n) : u[i] = t[i - l] /\ i - l \in 1..n
  <2>1. Follows(s \o t, s, t) /\ Len(t) \in Nat
    BY BytesFollow
  <2> QED
    BY <2>1, Zenon DEF Follows
<1> HIDE DEF u, l, n
<1>2. ASSUME NEW b \in S \cup T
      PROVE  \E i \in DOMAIN u : u[i] = b
  <2>1. CASE b \in S
    <3>1. PICK i \in DOMAIN s : s[i] = b
      BY <2>1 DEF Carries
    <3>2. i \in 1..l /\ i \in DOMAIN u
      BY <1>1, <3>1
    <3> QED
      BY <1>1, <3>1, <3>2
  <2>2. CASE b \in T
    <3>1. PICK i \in DOMAIN t : t[i] = b
      BY <2>2 DEF Carries
    <3>2. i \in 1..n /\ l + i \in (l + 1)..(l + n) /\ l + i \in DOMAIN u /\ (l + i) - l = i
      BY <1>1, <3>1
    <3>3. u[l + i] = b
      BY <1>1, <3>1, <3>2
    <3> QED
      BY <3>2, <3>3
  <2> QED
    BY <1>2, <2>1, <2>2
<1>3. ASSUME NEW i \in DOMAIN u, NEW j \in DOMAIN u, i < j, u[i] \in S \cup T, u[j] \in S \cup T
      PROVE  u[i] < u[j]
  <2>1. ASSUME NEW x \in 1..l, u[x] \in S \cup T
        PROVE  u[x] = s[x] /\ s[x] \in S /\ x \in DOMAIN s
    <3>1. u[x] = s[x] /\ s[x] \notin T
      BY <1>1, <2>1 DEF l
    <3> QED
      BY <1>1, <2>1, <3>1
  <2>2. ASSUME NEW x \in (l + 1)..(l + n), u[x] \in S \cup T
        PROVE  u[x] = t[x - l] /\ t[x - l] \in T /\ x - l \in DOMAIN t
    <3>1. u[x] = t[x - l] /\ x - l \in 1..n
      BY <1>1
    <3>2. t[x - l] \notin S
      BY <3>1 DEF n
    <3> QED
      BY <1>1, <2>2, <3>1, <3>2
  <2>3. CASE j \in 1..l
    <3>1. i \in 1..l
      BY <1>1, <1>3, <2>3
    <3>2. /\ u[i] = s[i] /\ s[i] \in S /\ i \in DOMAIN s
          /\ u[j] = s[j] /\ s[j] \in S /\ j \in DOMAIN s
      BY <1>3, <2>1, <2>3, <3>1
    <3> QED
      BY <1>3, <3>2 DEF Carries
  <2>4. CASE j \in (l + 1)..(l + n)
    <3>1. u[j] = t[j - l] /\ t[j - l] \in T /\ j - l \in DOMAIN t
      BY <1>3, <2>2, <2>4
    <3>2. CASE i \in 1..l
      <4>1. u[i] = s[i] /\ s[i] \in S
        BY <1>3, <2>1, <3>2
      <4> QED
        BY <3>1, <4>1
    <3>3. CASE i \in (l + 1)..(l + n)
      <4>1. u[i] = t[i - l] /\ t[i - l] \in T /\ i - l \in DOMAIN t
        BY <1>3, <2>2, <3>3
      <4>2. i - l < j - l
        BY <1>1, <1>3, <2>4, <3>3
      <4> QED
        BY <3>1, <4>1, <4>2 DEF Carries
    <3> QED
      BY <1>1, <1>3, <3>2, <3>3
  <2> QED
    BY <1>1, <1>3, <2>3, <2>4
<1> QED
  BY <1>2, <1>3 DEF Carries, u

\* Each task sends the bytes that follow those of the tasks before it: at[j] is
\* how many of the sender's bytes come before task j.
Queued(at) ==
  /\ at[Len(tasks) + 1] = sent
  /\ \A j \in DOMAIN tasks :
       /\ at[j] <= at[j + 1]
       /\ tasks[j].op = "shutdown" => at[j + 1] = at[j]
       /\ tasks[j].op = "send" =>
            /\ usage.keeps => tasks[j].msg \in strings
            /\ tasks[j].msg = [i \in 1..(at[j + 1] - at[j]) |-> MaxStream + at[j] + i]

\* The wire has nothing but these bytes of the peer and of the sender, and what a
\* message was whose string was gone.
OnWire(k, m) ==
  \A i \in DOMAIN wire : wire[i] \in PeersBytes(k) \cup SendersBytes(m) \cup {NoByte}

\* The wire has k of the bytes that onMessage took, all unless send refused, and the
\* queue begins where the wire ends.
EchoHolds(k, at) ==
  /\ k \in 0..Len(delivered) /\ at \in [1..(Len(tasks) + 1) -> 0..sent]
  /\ Echoed(k, at[1]) /\ OnWire(k, at[1])
  /\ state_ = "kConnected" => k = Len(delivered)
  /\ Queued(at)

\* The socket has taken everything, and nothing has gone wrong.
AllTaken == "write" \notin events_ /\ ~killed /\ ~inputBuffer_.overrun

\* As long as that is so, nothing is buffered, and the wire and the queue together
\* hold what the two threads sent.
Echoing ==
  /\ readableBytes(outputBuffer_) = 0
  /\ wire \in Seq(Byte) /\ room \in Nat
  /\ \E k, at : EchoHolds(k, at)

EchoKept == AllTaken => Echoing

\* What onMessage took is in the order of the stream.
LEMMA DeliveredRises ==
  ASSUME Kept, ~inputBuffer_.overrun
  PROVE  /\ delivered \in Seq(Nat) /\ Len(delivered) \in Nat
         /\ Rises(delivered, MaxStream)
<1>1. PICK s : Holds(s)
  BY DEF Kept
<1>2. /\ delivered \in Seq(Nat) /\ Len(delivered) \in Nat /\ arrived \in Nat /\ arrived <= MaxStream
      /\ readableBytes(inputBuffer_) \in Nat
  BY DEF Kept, Sound, Buffers, InOrder, readableBytes
<1>3. /\ s \in Seq(Nat) /\ Len(s) = Len(delivered) + readableBytes(inputBuffer_)
      /\ \A i \in 1..Len(delivered) : delivered[i] = s[i]
      /\ \A i \in 1..Len(s) : s[i] \in 1..arrived
      /\ \A i, j \in 1..Len(s) : i < j => s[i] < s[j]
  BY <1>1 DEF Holds, Rises
<1>4. \A i \in 1..Len(delivered) : i \in 1..Len(s)
  BY <1>2, <1>3
<1>5. \A i \in 1..Len(delivered) : delivered[i] \in 1..MaxStream
  <2>1. ASSUME NEW i \in 1..Len(delivered)
        PROVE  delivered[i] \in 1..MaxStream
    <3>1. delivered[i] \in 1..arrived
      BY <1>3, <1>4
    <3> QED
      BY <1>2, <3>1
  <2> QED
    BY <2>1
<1>6. \A i, j \in 1..Len(delivered) : i < j => delivered[i] < delivered[j]
  BY <1>3, <1>4
<1> QED
  BY <1>2, <1>5, <1>6 DEF Rises

\* The wire goes on with what onMessage took.
LEMMA EchoMore ==
  ASSUME wire \in Seq(Byte), delivered' \in Seq(Nat), Rises(delivered', MaxStream),
         NEW k \in Nat, \A i \in 1..k : delivered'[i] = delivered[i],
         NEW m \in Nat, Echoed(k, m), OnWire(k, m),
         NEW more \in Nat, k + more = Len(delivered'),
         NEW data \in Seq(Nat), Len(data) = more,
         \A i \in 1..more : data[i] = delivered'[k + i],
         wire' = wire \o data, usage' = usage
  PROVE  wire' \in Seq(Byte) /\ Echoed(k + more, m)' /\ OnWire(k + more, m)'
<1> DEFINE P == {delivered'[i] : i \in 1..k}
           T == {delivered'[k + i] : i \in 1..more}
           S == SendersBytes(m)
<1>1. /\ \A i \in 1..(k + more) : delivered'[i] \in 1..MaxStream
      /\ \A i, j \in 1..(k + more) : i < j => delivered'[i] < delivered'[j]
  BY DEF Rises
<1>2. P = PeersBytes(k) /\ P \cup T = PeersBytes(k + more)'
  <2>1. \A i \in 1..(k + more) : i \in 1..k \/ (i - k \in 1..more /\ k + (i - k) = i)
    OBVIOUS
  <2>2. \A i \in 1..more : k + i \in 1..(k + more)
    OBVIOUS
  <2>3. \A i \in 1..k : i \in 1..(k + more)
    OBVIOUS
  <2>4. P = PeersBytes(k)
    BY DEF PeersBytes
  <2>5. P \cup T = {delivered'[i] : i \in 1..(k + more)}
    <3>1. ASSUME NEW x \in P \cup T
          PROVE  \E i \in 1..(k + more) : x = delivered'[i]
      BY <2>2, <2>3, <3>1
    <3>2. ASSUME NEW i \in 1..(k + more)
          PROVE  delivered'[i] \in P \cup T
      <4>1. CASE i \in 1..k
        BY <4>1
      <4>2. CASE i - k \in 1..more /\ k + (i - k) = i
        <5>1. delivered'[k + (i - k)] \in T
          BY <4>2
        <5> QED
          BY <4>2, <5>1
      <4> QED
        BY <2>1, <4>1, <4>2
    <3> HIDE DEF P, T
    <3> QED
      BY <3>1, <3>2
  <2> QED
    BY <2>4, <2>5 DEF PeersBytes
<1>3. /\ P \in SUBSET (1..MaxStream) /\ T \in SUBSET (1..MaxStream)
      /\ S \in SUBSET Nat /\ \A y \in S : y > MaxStream
      /\ \A x \in P, y \in T : x < y
  <2>1. /\ \A i \in 1..k : i \in 1..(k + more)
        /\ \A j \in 1..more : k + j \in 1..(k + more)
        /\ \A i \in 1..k, j \in 1..more : i < k + j
    OBVIOUS
  <2>2. P \in SUBSET (1..MaxStream) /\ T \in SUBSET (1..MaxStream)
    BY <1>1, <2>1
  <2>3. \A x \in P, y \in T : x < y
    BY <1>1, <2>1
  <2>4. S \in SUBSET Nat /\ \A y \in S : y > MaxStream
    BY DEF SendersBytes
  <2> QED
    BY <2>2, <2>3, <2>4
<1>4. P \in SUBSET Nat /\ T \in SUBSET Nat /\ data \in Seq(Byte) /\ NoByte \notin T
  <2>1. data \in Seq(Byte)
    <3>1. Nat \subseteq Byte
      BY DEF Byte
    <3> HIDE DEF P, T, S
    <3> QED
      BY <3>1
  <2> HIDE DEF P, T, S
  <2>2. P \in SUBSET Nat /\ T \in SUBSET Nat
    BY <1>3
  <2> QED
    BY <2>1, <2>2
<1>5. Carries(data, T)
  <2>1. DOMAIN data = 1..more /\ \A i \in 1..more : k + i \in 1..(k + more)
    OBVIOUS
  <2>2. \A i, j \in 1..more : i < j => data[i] < data[j]
    <3>1. ASSUME NEW i \in 1..more, NEW j \in 1..more, i < j
          PROVE  data[i] < data[j]
      <4>1. k + i \in 1..(k + more) /\ k + j \in 1..(k + more) /\ k + i < k + j
        BY <3>1
      <4>2. delivered'[k + i] < delivered'[k + j]
        BY <1>1, <4>1
      <4> QED
        BY <4>2
    <3> QED
      BY <3>1
  <2>3. \A b \in T : \E i \in 1..more : data[i] = b
    OBVIOUS
  <2> QED
    BY <2>1, <2>2, <2>3 DEF Carries
<1>6. \A i \in 1..Len(wire) : wire[i] \notin T
  <2> HIDE DEF P, S, T
  <2>1. ASSUME NEW i \in 1..Len(wire)
        PROVE  wire[i] \notin T
    <3>1. wire[i] \in PeersBytes(k) \cup SendersBytes(m) \cup {NoByte}
      <4>1. i \in DOMAIN wire
        OBVIOUS
      <4> QED
        BY <4>1, Zenon DEF OnWire
    <3>2. \A x \in P : x \notin T
      BY <1>3
    <3>3. \A y \in S : y \notin T
      BY <1>3
    <3> QED
      BY <1>2, <1>4, <3>1, <3>2, <3>3, Zenon DEF S
  <2> QED
    BY <2>1
<1>7. \A i \in 1..Len(data) : data[i] \in T /\ data[i] \notin P /\ data[i] \notin S
  <2>1. \A i \in 1..Len(data) : data[i] \in T
    OBVIOUS
  <2> HIDE DEF P, S, T
  <2>2. \A y \in T : y \notin P /\ y \notin S
    BY <1>3
  <2> QED
    BY <2>1, <2>2
<1>8. /\ Len(wire) \in Nat /\ wire' \in Seq(Byte) /\ Len(wire') = Len(wire) + more
      /\ DOMAIN wire' = 1..(Len(wire) + more) /\ DOMAIN wire = 1..Len(wire)
      /\ \A i \in 1..Len(wire) : wire'[i] = wire[i]
      /\ \A i \in (Len(wire) + 1)..(Len(wire) + more) :
           wire'[i] = data[i - Len(wire)] /\ i - Len(wire) \in 1..Len(data)
  <2>1. wire \in Seq(Byte) /\ data \in Seq(Byte) /\ Len(data) = more
    BY <1>4
  <2> HIDE DEF P, T, S
  <2>2. Follows(wire \o data, wire, data)
    BY <2>1, BytesFollow
  <2> QED
    BY <2>1, <2>2, Zenon DEF Follows
<1> HIDE DEF P, T, S
<1>9. Carries(wire', P \cup T)
  <2>1. Carries(wire, P)
    BY <1>2 DEF Echoed
  <2> QED
    BY <1>3, <1>4, <1>5, <1>6, <1>7, <2>1, CarriesMore
<1>10. usage.keeps => Carries(wire', S)
  <2> SUFFICES ASSUME usage.keeps PROVE Carries(wire', S)
    OBVIOUS
  <2>1. Carries(wire, S)
    BY DEF Echoed, S
  <2>2. Carries(data, {})
    BY <1>7 DEF Carries
  <2>3. Carries(wire \o data, S \cup {})
    BY <1>3, <1>4, <1>7, <2>1, <2>2, CarriesMore
  <2> QED
    BY <2>3
<1>11. \A i \in DOMAIN wire' : wire'[i] \in P \cup T \cup S \cup {NoByte}
  <2>1. ASSUME NEW i \in 1..Len(wire)
        PROVE  wire'[i] \in P \cup T \cup S \cup {NoByte}
    <3>1. wire[i] \in P \cup S \cup {NoByte}
      BY <1>2, <1>8, Zenon DEF OnWire, S
    <3> QED
      BY <1>8, <3>1
  <2>2. ASSUME NEW i \in (Len(wire) + 1)..(Len(wire) + more)
        PROVE  wire'[i] \in P \cup T \cup S \cup {NoByte}
    BY <1>7, <1>8
  <2>3. \A i \in DOMAIN wire' : i \in 1..Len(wire) \/ i \in (Len(wire) + 1)..(Len(wire) + more)
    BY <1>8
  <2> QED
    BY <2>1, <2>2, <2>3
<1>12. Len(wire) = k + m /\ SendersBytes(m)' = S
  BY DEF Echoed, SendersBytes, S
<1>13. Len(wire') = (k + more) + m
  BY <1>8, <1>12
<1>14. Echoed(k + more, m)'
  BY <1>2, <1>9, <1>10, <1>12, <1>13, Zenon DEF Echoed, Carries
<1>15. OnWire(k + more, m)'
  BY <1>2, <1>11, <1>12, Zenon DEF OnWire
<1> QED
  BY <1>8, <1>14, <1>15

\* The wire goes on with the next bytes of the sender, or with what there is where its
\* string was.
LEMMA SentMore ==
  ASSUME wire \in Seq(Byte), delivered \in Seq(Nat), Rises(delivered, MaxStream),
         NEW k \in 0..Len(delivered), NEW m \in Nat, Echoed(k, m), OnWire(k, m),
         NEW n \in Nat, NEW data \in Seq(Byte), Len(data) = n,
         \/ \A i \in 1..n : data[i] = MaxStream + m + i
         \/ ~usage.keeps /\ \A i \in 1..n : data[i] = NoByte,
         wire' = wire \o data, UNCHANGED <<usage, delivered>>
  PROVE  wire' \in Seq(Byte) /\ Echoed(k, m + n)' /\ OnWire(k, m + n)'
<1> DEFINE P == PeersBytes(k)
           S == SendersBytes(m)
           T == (MaxStream + m + 1)..(MaxStream + m + n)
<1>1. /\ P \in SUBSET (1..MaxStream) /\ S \in SUBSET Nat /\ T \in SUBSET Nat
      /\ S \cup T = SendersBytes(m + n)
      /\ \A x \in S : x > MaxStream /\ \A y \in T : x < y
      /\ \A y \in T : y > MaxStream
  <2>1. \A i \in 1..k : i \in 1..Len(delivered)
    OBVIOUS
  <2>2. P \in SUBSET (1..MaxStream)
    BY <2>1 DEF PeersBytes, Rises
  <2>3. /\ S \in SUBSET Nat /\ T \in SUBSET Nat
        /\ \A x \in S : x > MaxStream /\ \A y \in T : x < y
        /\ \A y \in T : y > MaxStream
    BY DEF SendersBytes
  <2>4. S \cup T = SendersBytes(m + n)
    BY DEF SendersBytes
  <2> QED
    BY <2>2, <2>3, <2>4
<1>2. P \in SUBSET Nat /\ \A x \in P : x \notin S /\ x \notin T
  BY <1>1
<1>3. /\ Len(wire) \in Nat /\ wire' \in Seq(Byte) /\ Len(wire') = Len(wire) + n
      /\ DOMAIN wire' = 1..(Len(wire) + n) /\ DOMAIN wire = 1..Len(wire)
      /\ \A i \in 1..Len(wire) : wire'[i] = wire[i]
      /\ \A i \in (Len(wire) + 1)..(Len(wire) + n) :
           wire'[i] = data[i - Len(wire)] /\ i - Len(wire) \in 1..Len(data)
  <2>1. wire \in Seq(Byte) /\ data \in Seq(Byte) /\ Len(data) = n
    OBVIOUS
  <2> HIDE DEF P, T, S
  <2>2. Follows(wire \o data, wire, data)
    BY <2>1, BytesFollow
  <2> QED
    BY <2>1, <2>2, Zenon DEF Follows
<1>4. \A i \in 1..Len(wire) : wire[i] \in P \cup S \cup {NoByte}
  BY <1>3, Zenon DEF OnWire
<1>5. \A i \in 1..Len(data) : data[i] \in T \cup {NoByte}
  <2>1. CASE \A i \in 1..n : data[i] = MaxStream + m + i
    <3>1. \A i \in 1..n : MaxStream + m + i \in T
      OBVIOUS
    <3> HIDE DEF T
    <3> QED
      BY <2>1, <3>1
  <2>2. CASE \A i \in 1..n : data[i] = NoByte
    BY <2>2
  <2> QED
    BY <2>1, <2>2
<1>6. NoByte \notin P /\ NoByte \notin S /\ NoByte \notin T
  BY <1>1, <1>2
<1> HIDE DEF P, S, T
<1>7. /\ \A i \in 1..Len(wire) : wire[i] \notin T
      /\ \A i \in 1..Len(data) : data[i] \notin P /\ data[i] \notin S
  <2>1. \A y \in T : y \notin P /\ y \notin S
    BY <1>1, <1>2
  <2> QED
    BY <1>4, <1>5, <1>6, <2>1, Zenon
<1>8. Carries(wire', P)
  <2>1. Carries(wire, P)
    BY DEF Echoed, P
  <2>2. Carries(data, {})
    BY DEF Carries
  <2>3. Carries(wire \o data, P \cup {})
    BY <1>2, <1>7, <2>1, <2>2, CarriesMore
  <2> QED
    BY <2>3
<1>9. usage.keeps => Carries(wire', S \cup T)
  <2> SUFFICES ASSUME usage.keeps PROVE Carries(wire', S \cup T)
    OBVIOUS
  <2>1. \A i \in 1..n : data[i] = MaxStream + m + i
    OBVIOUS
  <2>2. Carries(data, T)
    <3>1. DOMAIN data = 1..n /\ \A i, j \in 1..n : i < j => data[i] < data[j]
      BY <2>1
    <3>2. ASSUME NEW b \in T
          PROVE  \E i \in 1..n : data[i] = b
      <4>1. b - (MaxStream + m) \in 1..n /\ MaxStream + m + (b - (MaxStream + m)) = b
        BY <3>2 DEF T
      <4> QED
        BY <2>1, <4>1
    <3> QED
      BY <3>1, <3>2 DEF Carries
  <2>3. Carries(wire, S)
    BY DEF Echoed, S
  <2> QED
    BY <1>1, <1>7, <2>2, <2>3, CarriesMore
<1>10. \A i \in DOMAIN wire' : wire'[i] \in P \cup (S \cup T) \cup {NoByte}
  <2>1. ASSUME NEW i \in 1..Len(wire)
        PROVE  wire'[i] \in P \cup (S \cup T) \cup {NoByte}
    BY <1>3, <1>4
  <2>2. ASSUME NEW i \in (Len(wire) + 1)..(Len(wire) + n)
        PROVE  wire'[i] \in P \cup (S \cup T) \cup {NoByte}
    BY <1>3, <1>5
  <2>3. \A i \in DOMAIN wire' : i \in 1..Len(wire) \/ i \in (Len(wire) + 1)..(Len(wire) + n)
    BY <1>3
  <2> QED
    BY <2>1, <2>2, <2>3
<1>11. Len(wire') = k + (m + n)
  <2>1. Len(wire) = k + m /\ k \in Nat
    BY DEF Echoed
  <2> QED
    BY <1>3, <2>1
<1>12. PeersBytes(k)' = P /\ SendersBytes(m + n)' = S \cup T
  BY <1>1 DEF PeersBytes, P, SendersBytes
<1>13. Echoed(k, m + n)'
  BY <1>8, <1>9, <1>11, <1>12, Zenon DEF Echoed, Carries
<1>14. OnWire(k, m + n)'
  BY <1>10, <1>12, Zenon DEF OnWire
<1> QED
  BY <1>3, <1>13, <1>14

\* What sendInLoop is given is on the wire when the writable event is not asked for.
LEMMA AllWritten ==
  ASSUME "read" \in events_, "write" \notin events_', readableBytes(outputBuffer_) = 0,
         room \in Nat, wire \in Seq(Byte), ~killed', NEW data \in Seq(Byte), sendInLoop(data)
  PROVE  wire' = wire \o data /\ room' \in Nat /\ outputBuffer_' = outputBuffer_
<1> DEFINE nwrote == Out!AtMost(Len(data), room)
           rest   == SubSeq(data, nwrote + 1, Len(data))
<1>1. Out!sendInLoop(data)
  BY DEF sendInLoop
<1>2. ~Out!isWriteing /\ Out!readableBytes(outputBuffer_) = 0
  <2>1. Out!readableBytes(outputBuffer_) = readableBytes(outputBuffer_)
    BY Zenon DEF Out!readableBytes, readableBytes
  <2> QED
    BY <2>1 DEF Out!isWriteing
<1>3. /\ Out!write(data)
      /\ IF rest = <<>>
           THEN UNCHANGED <<outputBuffer_, events_>>
           ELSE events_' = events_ \cup {"write"}
  BY <1>1, <1>2, Zenon DEF Out!sendInLoop
<1>4. rest = <<>> /\ outputBuffer_' = outputBuffer_
  BY <1>3
<1>5. /\ wire' = wire \o SubSeq(data, 1, nwrote)
      /\ room' = room - nwrote
  BY <1>3 DEF Out!write
<1>6. nwrote \in 0..Len(data) /\ nwrote <= room /\ Len(data) \in Nat
  BY DEF Out!AtMost
<1> HIDE DEF nwrote
<1>7. nwrote = Len(data)
  <2>1. Len(rest) = Len(data) - nwrote
    BY <1>6
  <2>2. Len(rest) = 0
    BY <1>4
  <2> HIDE DEF rest
  <2> QED
    BY <1>6, <2>1, <2>2
<1>8. SubSeq(data, 1, Len(data)) = data
  OBVIOUS
<1> QED
  BY <1>4, <1>5, <1>6, <1>7, <1>8, SMTT(30)

\* The first task leaves the queue.
LEMMA QueueRun ==
  ASSUME tasks \in Seq(TaskType), tasks # <<>>, tasks' = Tail(tasks), UNCHANGED <<sent, strings, usage>>,
         NEW at \in [1..(Len(tasks) + 1) -> 0..sent], Queued(at),
         NEW left, left = [j \in 1..Len(tasks) |-> at[j + 1]]
  PROVE  /\ left \in [1..(Len(tasks') + 1) -> 0..sent']
         /\ Queued(left)' /\ left[1] = at[2]
<1>1. /\ Len(tasks) \in Nat \ {0} /\ DOMAIN tasks = 1..Len(tasks)
      /\ Len(tasks') = Len(tasks) - 1 /\ DOMAIN tasks' = 1..Len(tasks')
      /\ \A j \in 1..Len(tasks') : tasks'[j] = tasks[j + 1]
  OBVIOUS
<1>2. left \in [1..(Len(tasks') + 1) -> 0..sent'] /\ left[1] = at[2]
  BY <1>1
<1>3. left[Len(tasks') + 1] = sent'
  BY <1>1 DEF Queued
<1>4. ASSUME NEW j \in DOMAIN tasks'
      PROVE  /\ left[j] <= left[j + 1]
             /\ tasks'[j].op = "shutdown" => left[j + 1] = left[j]
             /\ tasks'[j].op = "send" =>
                  /\ usage'.keeps => tasks'[j].msg \in strings'
                  /\ tasks'[j].msg = [i \in 1..(left[j + 1] - left[j]) |-> MaxStream + left[j] + i]
  <2>1. j + 1 \in DOMAIN tasks /\ tasks'[j] = tasks[j + 1]
    BY <1>1
  <2>2. left[j] = at[j + 1] /\ left[j + 1] = at[(j + 1) + 1]
    BY <1>1
  <2>3. /\ at[j + 1] <= at[(j + 1) + 1]
        /\ tasks[j + 1].op = "shutdown" => at[(j + 1) + 1] = at[j + 1]
        /\ tasks[j + 1].op = "send" =>
             /\ usage.keeps => tasks[j + 1].msg \in strings
             /\ tasks[j + 1].msg =
                  [i \in 1..(at[(j + 1) + 1] - at[j + 1]) |-> MaxStream + at[j + 1] + i]
    BY <2>1, Zenon DEF Queued
  <2> QED
    BY <2>1, <2>2, <2>3, Zenon
<1>5. Queued(left)'
  BY <1>3, <1>4, Zenon DEF Queued
<1> QED
  BY <1>2, <1>5

\* A task joins the queue.
LEMMA QueueMore ==
  ASSUME tasks \in Seq(TaskType), NEW t \in TaskType, tasks' = Append(tasks, t),
         sent \in Nat, sent' \in Nat, sent <= sent', strings \subseteq strings', usage' = usage,
         t.op = "shutdown" => sent' = sent,
         t.op = "send" => /\ t.msg \in strings'
                          /\ t.msg = [i \in 1..(sent' - sent) |-> MaxStream + sent + i],
         NEW at \in [1..(Len(tasks) + 1) -> 0..sent], Queued(at),
         NEW more,
         more = [j \in 1..(Len(tasks) + 2) |-> IF j = Len(tasks) + 2 THEN sent' ELSE at[j]]
  PROVE  /\ more \in [1..(Len(tasks') + 1) -> 0..sent']
         /\ Queued(more)' /\ more[1] = at[1]
<1>1. /\ Len(tasks) \in Nat /\ DOMAIN tasks = 1..Len(tasks)
      /\ Len(tasks') = Len(tasks) + 1 /\ DOMAIN tasks' = 1..Len(tasks')
      /\ \A j \in 1..Len(tasks) : tasks'[j] = tasks[j]
      /\ tasks'[Len(tasks) + 1] = t
  OBVIOUS
<1>2. more \in [1..(Len(tasks') + 1) -> 0..sent'] /\ more[1] = at[1]
  BY <1>1, SMTT(30)
<1>3. more[Len(tasks') + 1] = sent'
  BY <1>1
<1>4. ASSUME NEW j \in DOMAIN tasks'
      PROVE  /\ more[j] <= more[j + 1]
             /\ tasks'[j].op = "shutdown" => more[j + 1] = more[j]
             /\ tasks'[j].op = "send" =>
                  /\ usage'.keeps => tasks'[j].msg \in strings'
                  /\ tasks'[j].msg = [i \in 1..(more[j + 1] - more[j]) |-> MaxStream + more[j] + i]
  <2>1. CASE j \in DOMAIN tasks
    <3>1. tasks'[j] = tasks[j] /\ more[j] = at[j] /\ more[j + 1] = at[j + 1]
      BY <1>1, <2>1
    <3>2. /\ at[j] <= at[j + 1]
          /\ tasks[j].op = "shutdown" => at[j + 1] = at[j]
          /\ tasks[j].op = "send" =>
               /\ usage.keeps => tasks[j].msg \in strings
               /\ tasks[j].msg = [i \in 1..(at[j + 1] - at[j]) |-> MaxStream + at[j] + i]
      BY <2>1, Zenon DEF Queued
    <3>3. tasks[j].msg \in strings => tasks[j].msg \in strings'
      OBVIOUS
    <3> QED
      BY <3>1, <3>2, <3>3, Zenon
  <2>2. CASE j = Len(tasks) + 1
    <3>1. tasks'[j] = t
      BY <1>1, <2>2
    <3>2. more[j] = sent /\ more[j + 1] = sent'
      BY <1>1, <2>2 DEF Queued
    <3> DEFINE Msg(x, y) == [i \in 1..(y - x) |-> MaxStream + x + i]
    <3>3. t.op = "send" => t.msg \in strings' /\ t.msg = Msg(sent, sent')
      OBVIOUS
    <3> HIDE DEF Msg
    <3>4. tasks'[j].op = "send" =>
           tasks'[j].msg \in strings' /\ tasks'[j].msg = Msg(more[j], more[j + 1])
      BY <3>1, <3>2, <3>3, Zenon
    <3>5. more[j] <= more[j + 1] /\ (tasks'[j].op = "shutdown" => more[j + 1] = more[j])
      BY <3>1, <3>2
    <3> QED
      BY <3>4, <3>5, Zenon DEF Msg
  <2> QED
    BY <1>1, <2>1, <2>2
<1>5. Queued(more)'
  BY <1>3, <1>4, Zenon DEF Queued
<1> QED
  BY <1>2, <1>5
\* What is on the wire stays there.
LEMMA SameWire ==
  ASSUME NEW k, NEW m, Echoed(k, m), OnWire(k, m), PeersBytes(k)' = PeersBytes(k),
         UNCHANGED <<wire, usage>>
  PROVE  Echoed(k, m)' /\ OnWire(k, m)'
<1>1. SendersBytes(m)' = SendersBytes(m)
  BY DEF SendersBytes
<1>2. Len(wire') = k + m /\ Carries(wire', PeersBytes(k))
  BY Zenon DEF Echoed, Carries
<1>3. usage'.keeps => Carries(wire', SendersBytes(m))
  BY Zenon DEF Echoed, Carries
<1>4. Echoed(k, m)'
  BY <1>1, <1>2, <1>3 DEF Echoed
<1>5. \A i \in DOMAIN wire' : wire'[i] \in PeersBytes(k) \cup SendersBytes(m) \cup {NoByte}
  BY Zenon DEF OnWire
<1>6. OnWire(k, m)'
  BY <1>1, <1>5, Zenon DEF OnWire
<1> QED
  BY <1>4, <1>6

\* Steps that move neither a byte nor a task.
LEMMA NothingMoves ==
  ASSUME EchoKept,
         UNCHANGED <<delivered, events_, outputBuffer_, wire, sent, tasks, usage, killed,
                     inputBuffer_>>,
         room \in Nat => room' \in Nat, state_' = "kConnected" => state_ = "kConnected",
         usage.keeps =>
           \A j \in DOMAIN tasks : tasks[j].msg \in strings => tasks[j].msg \in strings'
  PROVE  EchoKept'
<1> SUFFICES ASSUME AllTaken' PROVE Echoing'
  BY DEF EchoKept
<1>1. Echoing
  <2>1. AllTaken
    BY Zenon DEF AllTaken
  <2> QED
    BY <2>1 DEF EchoKept
<1>2. PICK k, at : EchoHolds(k, at)
  BY <1>1 DEF Echoing
<1>3. readableBytes(outputBuffer_)' = 0 /\ wire' \in Seq(Byte) /\ room' \in Nat
  BY <1>1 DEF Echoing, readableBytes
<1>4. Echoed(k, at[1])' /\ OnWire(k, at[1])'
  <2>1. Echoed(k, at[1]) /\ OnWire(k, at[1])
    BY <1>2, Zenon DEF EchoHolds
  <2>2. PeersBytes(k)' = PeersBytes(k)
    BY DEF PeersBytes
  <2> QED
    BY <2>1, <2>2, SameWire
<1>5. Queued(at)'
  <2>1. Queued(at)
    BY <1>2, Zenon DEF EchoHolds
  <2> QED
    BY <2>1, Zenon DEF Queued
<1>6. EchoHolds(k, at)'
  BY <1>2, <1>4, <1>5, Zenon DEF EchoHolds
<1> QED
  BY <1>3, <1>6, Zenon DEF Echoing

\* onMessage sends on what it took, unless send refuses.
LEMMA ReadEchoes ==
  ASSUME Kept, ~inputBuffer_.overrun, ~killed, Orderly, EchoKept,
         NEW n \in 1..MaxRead, handleRead(n)
  PROVE  EchoKept'
<1> SUFFICES ASSUME AllTaken' PROVE Echoing'
  BY DEF EchoKept
<1> DEFINE len  == Len(delivered)
           data == SubSeq(delivered', len + 1, Len(delivered'))
<1>1. /\ Kept' /\ ~inputBuffer_.overrun' /\ ~killed' /\ "write" \notin events_'
      /\ len <= Len(delivered') /\ \A i \in 1..len : delivered'[i] = delivered[i]
      /\ onMessage(data) /\ UNCHANGED <<state_, sent, tasks, strings, usage>>
  BY ReadKeeps DEF handleRead, callVars, AllTaken
<1>2. /\ len \in Nat /\ delivered' \in Seq(Nat) /\ Len(delivered') \in Nat
      /\ Rises(delivered', MaxStream)
  <2>1. len \in Nat
    BY DeliveredRises
  <2>2. delivered' \in Seq(Nat) /\ Len(delivered') \in Nat /\ Rises(delivered', MaxStream)
    <3>1. Kept' /\ ~inputBuffer_.overrun'
      BY <1>1
    <3>2. (Kept /\ ~inputBuffer_.overrun =>
            delivered \in Seq(Nat) /\ Len(delivered) \in Nat /\ Rises(delivered, MaxStream))'
      BY DeliveredRises, PTL
    <3> QED
      BY <3>1, <3>2
  <2> QED
    BY <2>1, <2>2
<1>3. PICK more \in Nat : more = Len(delivered') - len /\ len + more = Len(delivered')
  BY <1>1, <1>2
<1>4. data \in Seq(Nat) /\ Len(data) = more /\ \A i \in 1..more : data[i] = delivered'[len + i]
  <2>1. \A i \in 1..more : data[i] = delivered'[len + i] /\ len + i \in 1..Len(delivered')
    BY <1>1, <1>2, <1>3
  <2>2. data \in Seq(Nat) /\ Len(data) = more
    BY <1>1, <1>2, <1>3
  <2> QED
    BY <2>1, <2>2
<1> HIDE DEF data
<1>5. AllTaken
  <2>1. "write" \notin events_
    BY <1>1, Zenon DEF onMessage, sendInLoop, Out!sendInLoop
  <2> QED
    BY <2>1 DEF AllTaken
<1>6. Echoing
  BY <1>5 DEF EchoKept
<1>7. PICK k, at : EchoHolds(k, at)
  BY <1>6 DEF Echoing
<1>8. readableBytes(outputBuffer_) = 0 /\ wire \in Seq(Byte) /\ room \in Nat
  BY <1>6 DEF Echoing
<1>9. /\ k \in 0..len /\ at \in [1..(Len(tasks) + 1) -> 0..sent]
      /\ Echoed(k, at[1]) /\ OnWire(k, at[1])
      /\ state_ = "kConnected" => k = len
      /\ Queued(at)
  BY <1>7, Zenon DEF EchoHolds
<1>10. at \in [1..(Len(tasks') + 1) -> 0..sent'] /\ Queued(at)' /\ at[1] \in Nat
  <2>1. Queued(at)'
    BY <1>1, <1>9, Zenon DEF Queued
  <2>2. sent \in Nat /\ Len(tasks) \in Nat
    BY DEF Orderly
  <2> QED
    BY <1>1, <1>9, <2>1, <2>2
<1>11. CASE state_ = "kConnected"
  <2>1. wire' = wire \o data /\ room' \in Nat /\ outputBuffer_' = outputBuffer_
    <3>1. sendInLoop(data) /\ data \in Seq(Byte)
      <4>1. data \in Seq(Byte)
        <5>1. Nat \subseteq Byte
          BY DEF Byte
        <5> QED
          BY <1>4, <5>1
      <4> QED
        BY <1>1, <1>11, <4>1 DEF onMessage
    <3> QED
      BY <1>1, <1>8, <3>1, AllWritten DEF Orderly
  <2>2. k = len /\ k \in Nat
    BY <1>2, <1>9, <1>11
  <2>3. wire' \in Seq(Byte) /\ Echoed(k + more, at[1])' /\ OnWire(k + more, at[1])'
    <3>1. /\ \A i \in 1..k : delivered'[i] = delivered[i]
          /\ k + more = Len(delivered')
          /\ \A i \in 1..more : data[i] = delivered'[k + i]
      BY <1>1, <1>3, <1>4, <2>2
    <3> HIDE DEF len
    <3> QED
      BY <1>1, <1>2, <1>4, <1>8, <1>9, <1>10, <2>1, <2>2, <3>1, EchoMore, ZenonT(60)
  <2>4. EchoHolds(k + more, at)'
    <3>1. k + more \in 0..Len(delivered') /\ k + more = Len(delivered')
      BY <1>2, <1>3, <2>2
    <3> QED
      BY <1>10, <2>3, <3>1, Zenon DEF EchoHolds
  <2>5. readableBytes(outputBuffer_)' = 0
    BY <1>8, <2>1 DEF readableBytes
  <2> QED
    BY <2>1, <2>3, <2>4, <2>5, Zenon DEF Echoing
<1>12. CASE state_ # "kConnected"
  <2>1. UNCHANGED <<outputBuffer_, wire, room>>
    BY <1>1, <1>12 DEF onMessage
  <2>2. k \in 0..Len(delivered') /\ k \in Nat
    BY <1>1, <1>2, <1>9
  <2>3. PeersBytes(k)' = PeersBytes(k)
    <3>1. \A i \in 1..k : delivered'[i] = delivered[i]
      BY <1>1, <1>2, <1>9
    <3> QED
      BY <3>1 DEF PeersBytes
  <2>4. Echoed(k, at[1])' /\ OnWire(k, at[1])'
    BY <1>1, <1>9, <2>1, <2>3, SameWire
  <2>5. EchoHolds(k, at)'
    BY <1>1, <1>10, <1>12, <2>2, <2>4, Zenon DEF EchoHolds
  <2>6. readableBytes(outputBuffer_)' = 0
    BY <1>8, <2>1 DEF readableBytes
  <2> QED
    BY <1>8, <2>1, <2>5, <2>6, Zenon DEF Echoing
<1> QED
  BY <1>11, <1>12

\* The task of send writes its message, or what there is where its string was.
LEMMA TaskEchoes ==
  ASSUME Kept, ~inputBuffer_.overrun, ~killed, Orderly, EchoKept, runSendInLoop
  PROVE  EchoKept'
<1> SUFFICES ASSUME AllTaken' PROVE Echoing'
  BY DEF EchoKept
<1> DEFINE msg  == tasks[1].msg
           data == IF msg \in strings THEN msg ELSE [i \in DOMAIN msg |-> NoByte]
<1>1. /\ tasks \in Seq(TaskType) /\ sent \in Nat /\ "read" \in events_
      /\ ~killed' /\ "write" \notin events_'
  BY DEF Orderly, AllTaken
<1>2. /\ tasks # <<>> /\ tasks' = Tail(tasks) /\ tasks[1].op = "send" /\ sendInLoop(data)
      /\ UNCHANGED <<delivered, inputBuffer_, state_, sent, strings, usage>>
  BY DEF runSendInLoop, inputVars
<1> HIDE DEF data, msg
<1>3. Echoing
  <2>1. "write" \notin events_
    BY <1>1, <1>2, Zenon DEF sendInLoop, Out!sendInLoop
  <2> QED
    BY <2>1 DEF AllTaken, EchoKept
<1>4. PICK k, at : EchoHolds(k, at)
  BY <1>3 DEF Echoing
<1>5. readableBytes(outputBuffer_) = 0 /\ wire \in Seq(Byte) /\ room \in Nat
  BY <1>3 DEF Echoing
<1>6. /\ k \in 0..Len(delivered) /\ at \in [1..(Len(tasks) + 1) -> 0..sent]
      /\ Echoed(k, at[1]) /\ OnWire(k, at[1])
      /\ state_ = "kConnected" => k = Len(delivered)
      /\ Queued(at)
  BY <1>4, Zenon DEF EchoHolds
<1>7. PICK left : left = [j \in 1..Len(tasks) |-> at[j + 1]]
  OBVIOUS
<1>8. /\ left \in [1..(Len(tasks') + 1) -> 0..sent']
      /\ Queued(left)' /\ left[1] = at[2]
  BY <1>1, <1>2, <1>6, <1>7, QueueRun
<1>9. 1 \in DOMAIN tasks /\ at[1] \in Nat /\ at[2] \in Nat
  <2>1. Len(tasks) \in Nat /\ Len(tasks) # 0 /\ DOMAIN tasks = 1..Len(tasks)
    BY <1>1, <1>2
  <2>2. 1 \in 1..(Len(tasks) + 1) /\ 2 \in 1..(Len(tasks) + 1)
    BY <2>1
  <2>3. at[1] \in 0..sent /\ at[2] \in 0..sent
    BY <1>6, <2>2
  <2> QED
    BY <1>1, <2>1, <2>3
<1>10. /\ at[1] <= at[2] /\ (usage.keeps => msg \in strings)
       /\ msg = [i \in 1..(at[2] - at[1]) |-> MaxStream + at[1] + i]
  <2>1. /\ at[1] <= at[1 + 1]
        /\ usage.keeps => tasks[1].msg \in strings
        /\ tasks[1].msg = [i \in 1..(at[1 + 1] - at[1]) |-> MaxStream + at[1] + i]
    BY <1>2, <1>6, <1>9, Zenon DEF Queued
  <2>2. 1 + 1 = 2
    OBVIOUS
  <2> QED
    BY <2>1, <2>2 DEF msg
<1>11. PICK m, n \in Nat : m = at[1] /\ n = at[2] - at[1] /\ m + n = at[2]
  BY <1>9, <1>10
<1>12. /\ data \in Seq(Byte) /\ Len(data) = n
       /\ \/ \A i \in 1..n : data[i] = MaxStream + m + i
          \/ ~usage.keeps /\ \A i \in 1..n : data[i] = NoByte
  <2>1. m \in Nat /\ n \in Nat
    BY <1>11
  <2>2. msg = [i \in 1..n |-> MaxStream + m + i]
    BY <1>10, <1>11
  <2>3. CASE msg \in strings
    <3>1. data = [i \in 1..n |-> MaxStream + m + i]
      BY <2>2, <2>3 DEF data
    <3> QED
      BY <2>1, <3>1 DEF Byte
  <2>4. CASE msg \notin strings
    <3>1. data = [i \in 1..n |-> NoByte] /\ ~usage.keeps
      BY <1>10, <2>2, <2>4 DEF data
    <3> QED
      BY <2>1, <3>1 DEF Byte
  <2> QED
    BY <2>3, <2>4
<1>13. wire' = wire \o data /\ room' \in Nat /\ outputBuffer_' = outputBuffer_
  BY <1>1, <1>2, <1>5, <1>12, AllWritten
<1>14. wire' \in Seq(Byte) /\ Echoed(k, m + n)' /\ OnWire(k, m + n)'
  <2>1. delivered \in Seq(Nat) /\ Rises(delivered, MaxStream)
    BY DeliveredRises
  <2>2. m \in Nat /\ n \in Nat /\ Echoed(k, m) /\ OnWire(k, m)
    BY <1>6, <1>11
  <2>3. /\ k \in 0..Len(delivered) /\ wire \in Seq(Byte) /\ data \in Seq(Byte) /\ Len(data) = n
        /\ wire' = wire \o data /\ UNCHANGED <<usage, delivered>>
    BY <1>2, <1>5, <1>6, <1>12, <1>13
  <2>4. \/ \A i \in 1..n : data[i] = MaxStream + m + i
        \/ ~usage.keeps /\ \A i \in 1..n : data[i] = NoByte
    BY <1>12
  <2> QED
    BY <2>1, <2>2, <2>3, <2>4, SentMore
<1>15. EchoHolds(k, left)'
  <2>1. m + n = left[1]
    BY <1>8, <1>11
  <2> QED
    BY <1>2, <1>6, <1>8, <1>14, <2>1, Zenon DEF EchoHolds
<1>16. readableBytes(outputBuffer_)' = 0
  BY <1>5, <1>13 DEF readableBytes
<1> QED
  BY <1>13, <1>14, <1>15, <1>16, Zenon DEF Echoing

\* The task of shutdown leaves the queue.
LEMMA ShutdownKeepsEcho ==
  ASSUME Orderly, EchoKept, runShutdownInLoop
  PROVE  EchoKept'
<1> SUFFICES ASSUME AllTaken' PROVE Echoing'
  BY DEF EchoKept
<1>1. /\ tasks \in Seq(TaskType) /\ sent \in Nat
      /\ tasks # <<>> /\ tasks' = Tail(tasks) /\ tasks[1].op = "shutdown"
      /\ UNCHANGED <<inputBuffer_, delivered, state_, events_, outputBuffer_, sent, wire, room,
                     strings, usage, killed>>
  BY DEF Orderly, runShutdownInLoop, inputVars
<1>2. Echoing
  BY <1>1, Zenon DEF AllTaken, EchoKept
<1>3. PICK k, at : EchoHolds(k, at)
  BY <1>2 DEF Echoing
<1>4. readableBytes(outputBuffer_)' = 0 /\ wire' \in Seq(Byte) /\ room' \in Nat
  BY <1>1, <1>2 DEF Echoing, readableBytes
<1>5. /\ at \in [1..(Len(tasks) + 1) -> 0..sent] /\ Queued(at)
      /\ Echoed(k, at[1]) /\ OnWire(k, at[1])
  BY <1>3, Zenon DEF EchoHolds
<1>6. PICK left : left = [j \in 1..Len(tasks) |-> at[j + 1]]
  OBVIOUS
<1>7. /\ left \in [1..(Len(tasks') + 1) -> 0..sent']
      /\ Queued(left)' /\ left[1] = at[2]
  BY <1>1, <1>5, <1>6, QueueRun
<1>8. at[2] = at[1]
  <2>1. 1 \in DOMAIN tasks /\ 1 + 1 = 2
    BY <1>1
  <2>2. at[1 + 1] = at[1]
    BY <1>1, <1>5, <2>1, Zenon DEF Queued
  <2> QED
    BY <2>1, <2>2
<1>9. Echoed(k, left[1])' /\ OnWire(k, left[1])'
  <2>1. PeersBytes(k)' = PeersBytes(k) /\ UNCHANGED <<wire, usage>>
    BY <1>1 DEF PeersBytes
  <2>2. Echoed(k, left[1]) /\ OnWire(k, left[1])
    BY <1>5, <1>7, <1>8
  <2> QED
    BY <2>1, <2>2, SameWire
<1>10. EchoHolds(k, left)'
  BY <1>1, <1>3, <1>7, <1>9, Zenon DEF EchoHolds
<1> QED
  BY <1>4, <1>10, Zenon DEF Echoing

\* A task joins the queue of a connection that is not shut down.
LEMMA QueueingKeepsEcho ==
  ASSUME Orderly, EchoKept, NEW t \in TaskType, tasks' = Append(tasks, t),
         sent' \in Nat, sent <= sent', strings \subseteq strings',
         t.op = "shutdown" => sent' = sent,
         t.op = "send" => /\ t.msg \in strings'
                          /\ t.msg = [i \in 1..(sent' - sent) |-> MaxStream + sent + i],
         UNCHANGED <<inputBuffer_, delivered, events_, outputBuffer_, wire, room, usage, killed>>,
         state_ = "kConnected"
  PROVE  EchoKept'
<1> SUFFICES ASSUME AllTaken' PROVE Echoing'
  BY DEF EchoKept
<1>1. tasks \in Seq(TaskType) /\ sent \in Nat
  BY DEF Orderly
<1>2. Echoing
  BY Zenon DEF AllTaken, EchoKept
<1>3. PICK k, at : EchoHolds(k, at)
  BY <1>2 DEF Echoing
<1>4. readableBytes(outputBuffer_)' = 0 /\ wire' \in Seq(Byte) /\ room' \in Nat
  BY <1>2 DEF Echoing, readableBytes
<1>5. /\ at \in [1..(Len(tasks) + 1) -> 0..sent] /\ Queued(at)
      /\ Echoed(k, at[1]) /\ OnWire(k, at[1])
      /\ k \in 0..Len(delivered) /\ k = Len(delivered)
  BY <1>3, Zenon DEF EchoHolds
<1>6. PICK more :
        more = [j \in 1..(Len(tasks) + 2) |-> IF j = Len(tasks) + 2 THEN sent' ELSE at[j]]
  OBVIOUS
<1>7. /\ more \in [1..(Len(tasks') + 1) -> 0..sent']
      /\ Queued(more)' /\ more[1] = at[1]
  BY <1>1, <1>5, <1>6, QueueMore
<1>8. Echoed(k, more[1])' /\ OnWire(k, more[1])'
  <2>1. PeersBytes(k)' = PeersBytes(k) /\ UNCHANGED <<wire, usage>>
    BY DEF PeersBytes
  <2>2. Echoed(k, more[1]) /\ OnWire(k, more[1])
    BY <1>5, <1>7
  <2> QED
    BY <2>1, <2>2, SameWire
<1>9. EchoHolds(k, more)'
  BY <1>5, <1>7, <1>8, Zenon DEF EchoHolds
<1> QED
  BY <1>4, <1>9, Zenon DEF Echoing

\* Every step keeps the echo.
LEMMA EchoStep ==
  ASSUME Kept, Orderly, EchoKept, [Next]_vars
  PROVE  EchoKept'
<1>1. CASE UNCHANGED vars
  BY <1>1, NothingMoves DEF vars, inputVars, callVars
<1> SUFFICES ASSUME Next PROVE EchoKept'
  BY <1>1
<1>n. ~killed /\ ~inputBuffer_.overrun
  BY DEF Next
<1>2. ASSUME NEW n \in 1..MaxRead, handleRead(n)
      PROVE  EchoKept'
  BY <1>n, <1>2, ReadEchoes
<1>3. CASE shutdown
  <2>1. /\ state_' = "kDisconnecting"
        /\ UNCHANGED <<inputBuffer_, delivered, events_, outputBuffer_, wire, sent, tasks, strings,
                       room, usage, killed>>
    BY <1>3 DEF shutdown, Out!shutdown, inputVars, callVars
  <2> QED
    BY <2>1, NothingMoves
<1>4. CASE handleWrite
  <2>1. "write" \in events_
    BY <1>4 DEF handleWrite, Out!handleWrite
  <2>2. events_' = events_
    BY <1>4, WriteDoesNothing DEF Orderly
  <2> QED
    BY <2>1, <2>2 DEF EchoKept, AllTaken
<1>5. CASE runSendInLoop
  BY <1>n, <1>5, TaskEchoes
<1>6. CASE runShutdownInLoop
  BY <1>6, ShutdownKeepsEcho
<1>7. ASSUME NEW n \in 1..MaxLen, sends(n)
      PROVE  EchoKept'
  <2> DEFINE msg == [i \in 1..n |-> MaxStream + sent + i]
             t   == [op |-> "send", msg |-> msg]
  <2>1. /\ state_ = "kConnected" /\ sent' = sent + n /\ strings' = strings \cup {msg}
        /\ tasks' = Append(tasks, t)
        /\ UNCHANGED <<inputBuffer_, delivered, events_, outputBuffer_, wire, room, usage, killed>>
    BY <1>7 DEF sends, inputVars
  <2>2. sent \in Nat /\ n \in Nat /\ sent' - sent = n
    BY <2>1 DEF Orderly
  <2>3. msg \in Seq(Nat) /\ msg \in strings'
    BY <2>1, <2>2
  <2>4. /\ t \in TaskType /\ t.op = "send"
        /\ t.msg = [i \in 1..(sent' - sent) |-> MaxStream + sent + i]
    BY <2>2, <2>3 DEF TaskType
  <2>5. t.msg \in strings' /\ sent' \in Nat /\ sent <= sent' /\ strings \subseteq strings'
    BY <2>1, <2>2, <2>3
  <2> HIDE DEF t, msg
  <2> QED
    BY <2>1, <2>4, <2>5, QueueingKeepsEcho
<1>8. CASE shuts
  <2> DEFINE t == [op |-> "shutdown", msg |-> <<>>]
  <2>1. /\ state_ = "kConnected" /\ tasks' = Append(tasks, t)
        /\ UNCHANGED <<inputBuffer_, delivered, events_, outputBuffer_, wire, room, sent, strings,
                       usage, killed>>
    BY <1>8 DEF shuts, inputVars
  <2>2. t \in TaskType /\ t.op = "shutdown" /\ sent \in Nat
    BY DEF TaskType, Orderly
  <2> HIDE DEF t
  <2>3. /\ sent' = sent /\ sent' \in Nat /\ sent <= sent' /\ strings \subseteq strings'
        /\ t.op # "send"
    BY <2>1, <2>2
  <2> QED
    BY <2>1, <2>2, <2>3, QueueingKeepsEcho
<1>9. CASE Drains
  <2>1. /\ room' = Room
        /\ UNCHANGED <<inputBuffer_, delivered, state_, events_, outputBuffer_, wire, sent, tasks,
                       strings, usage, killed>>
    BY <1>9 DEF Drains, Out!Drains, inputVars, callVars
  <2> QED
    BY <2>1, NothingMoves
<1>10. ASSUME NEW msg \in strings, dropsString(msg)
       PROVE  EchoKept'
  <2>1. /\ usage.keeps => \A i \in DOMAIN tasks : tasks[i].msg # msg
        /\ strings' = strings \ {msg}
        /\ UNCHANGED <<inputBuffer_, delivered, state_, events_, outputBuffer_, wire, sent, tasks,
                       room, usage, killed>>
    BY <1>10 DEF dropsString, inputVars
  <2> QED
    BY <2>1, NothingMoves
<1> QED
  BY <1>2, <1>3, <1>4, <1>5, <1>6, <1>7, <1>8, <1>9, <1>10 DEF Next, Loop, Sender

\* While the socket takes what it is given, the peer gets back what onMessage took,
\* all of it and in order unless send refused, and as many bytes of the sender's as
\* it sent, its messages in the order of their calls if it keeps its strings
\* (TcpConnection.cc:66-85).
THEOREM EchoAlwaysComplete == Spec => []EchoIsComplete
<1>1. Init => EchoKept
  <2> SUFFICES ASSUME Init PROVE Echoing
    BY DEF EchoKept
  <2>1. /\ delivered = <<>> /\ sent = 0 /\ wire = <<>> /\ room = Room
        /\ tasks = <<>> /\ readableBytes(outputBuffer_) = 0
    BY DEF Init, In!Init, Out!Init, Out!NewBuffer, readableBytes
  <2>2. PICK at : at = [j \in 1..1 |-> 0]
    OBVIOUS
  <2>3. Echoed(0, 0) /\ OnWire(0, 0)
    BY <2>1 DEF Echoed, Carries, OnWire, PeersBytes, SendersBytes
  <2>4. at \in [1..(Len(tasks) + 1) -> 0..sent] /\ at[1] = 0 /\ Queued(at)
    BY <2>1, <2>2 DEF Queued
  <2>5. 0 \in 0..Len(delivered) /\ 0 = Len(delivered) /\ wire \in Seq(Byte) /\ room \in Nat
    BY <2>1
  <2>6. EchoHolds(0, at)
    BY <2>1, <2>3, <2>4, <2>5 DEF EchoHolds
  <2> QED
    BY <2>1, <2>5, <2>6 DEF Echoing
<1>2. Kept /\ Orderly /\ EchoKept /\ [Next]_vars => EchoKept'
  BY EchoStep
<1>3. Orderly /\ EchoKept => EchoIsComplete
  <2> SUFFICES ASSUME Orderly, Echoing
               PROVE  \E k \in 0..Len(delivered), m \in 0..sent :
                        /\ Echoed(k, m)
                        /\ state_ = "kConnected" => k = Len(delivered)
                        /\ (\A i \in DOMAIN tasks : tasks[i].op # "send") => m = sent
    BY DEF EchoIsComplete, EchoKept, AllTaken
  <2>1. PICK k, at : EchoHolds(k, at)
    BY Zenon DEF Echoing
  <2>2. /\ k \in 0..Len(delivered) /\ at \in [1..(Len(tasks) + 1) -> 0..sent]
        /\ Echoed(k, at[1]) /\ (state_ = "kConnected" => k = Len(delivered)) /\ Queued(at)
    BY <2>1, Zenon DEF EchoHolds
  <2>3. /\ tasks \in Seq(TaskType) /\ sent \in Nat /\ Len(tasks) \in Nat
        /\ DOMAIN tasks = 1..Len(tasks)
    BY DEF Orderly
  <2>4. at[1] \in 0..sent
    BY <2>2, <2>3
  <2>5. ASSUME \A i \in DOMAIN tasks : tasks[i].op # "send"
        PROVE  at[1] = sent
    <3>1. CASE Len(tasks) = 0
      BY <2>2, <3>1 DEF Queued
    <3>2. CASE Len(tasks) # 0
      <4>1. 1 \in DOMAIN tasks /\ tasks[1].op \in {"send", "shutdown"}
        <5>1. 1 \in DOMAIN tasks /\ tasks[1] \in TaskType
          BY <2>3, <3>2
        <5> QED
          BY <5>1 DEF TaskType
      <4>2. tasks[1].op = "shutdown"
        BY <2>5, <4>1
      <4>3. 1 = Len(tasks)
        BY <4>1, <4>2 DEF Orderly
      <4>4. at[1 + 1] = at[1] /\ at[1 + 1] = sent
        BY <2>2, <4>1, <4>2, <4>3, Zenon DEF Queued
      <4> QED
        BY <4>4
    <3> QED
      BY <3>1, <3>2
  <2> QED
    BY <2>2, <2>4, <2>5, Zenon
<1>4. Spec => []Kept
  BY InputKept
<1>5. Spec => []Orderly
  BY AlwaysOrderly
<1> QED
  BY <1>1, <1>2, <1>3, <1>4, <1>5, PTL DEF Spec
=============================================================================
