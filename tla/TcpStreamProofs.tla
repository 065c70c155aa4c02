--------------------------- MODULE TcpStreamProofs ---------------------------
(***************************************************************************)
(* Proofs about Buffer and TcpStream, for buffers of any size and streams  *)
(* of any length.                                                          *)
(***************************************************************************)
EXTENDS TcpStream, SequenceTheorems, TLAPS

\* What a cell of a buffer may hold.
Octets == Nat \cup {Junk}

BufferType ==
    [buf_ : [0 .. Size - 1 -> Octets], readerIndex_ : Nat, writerIndex_ : Nat]

\* A buffer as the program leaves it.
GoodBuffer(b) == b \in BufferType /\ BufferOK(b)

-----------------------------------------------------------------------------
\* Sequences.

LEMMA FunctionIsSeq ==
    ASSUME NEW S, NEW n \in Nat, NEW f \in [1 .. n -> S]
    PROVE  f \in Seq(S) /\ Len(f) = n
<1>1. f \in UNION {[1 .. m -> S] : m \in Nat}
  BY Zenon
<1>2. f \in Seq(S)
  BY <1>1, SeqDef, Zenon
<1> QED BY <1>2, LenProperties

\* A sequence cut in two.
LEMMA CutSeq ==
    ASSUME NEW S, NEW s \in Seq(S), NEW n \in 0 .. Len(s)
    PROVE  /\ SubSeq(s, 1, n) \in Seq(S) /\ SubSeq(s, n + 1, Len(s)) \in Seq(S)
           /\ Len(SubSeq(s, 1, n)) = n
           /\ Len(SubSeq(s, n + 1, Len(s))) = Len(s) - n
           /\ SubSeq(s, 1, n) \o SubSeq(s, n + 1, Len(s)) = s
<1>1. Len(s) \in Nat /\ \A i \in 1 .. Len(s) : s[i] \in S
  BY LenProperties, ElementOfSeq
<1>2. /\ SubSeq(s, 1, n) \in Seq(S)
      /\ Len(SubSeq(s, 1, n)) = IF 1 <= n THEN n - 1 + 1 ELSE 0
  BY <1>1, SubSeqProperties
<1>3. /\ SubSeq(s, n + 1, Len(s)) \in Seq(S)
      /\ Len(SubSeq(s, n + 1, Len(s))) =
            IF n + 1 <= Len(s) THEN Len(s) - (n + 1) + 1 ELSE 0
  <2>1. \A i \in (n + 1) .. Len(s) : s[i] \in S
    BY <1>1
  <2> QED BY <1>1, <2>1, SubSeqProperties
<1>4. SubSeq(s, 1, n) \o SubSeq(s, n + 1, Len(s)) = SubSeq(s, 1, Len(s))
  <2> DEFINE m == 1
  <2>1. m \in 1 .. Len(s) + 1 /\ n \in m - 1 .. Len(s) /\ Len(s) \in n .. Len(s)
    BY <1>1
  <2> HIDE DEF m
  <2>2. SubSeq(s, m, n) \o SubSeq(s, n + 1, Len(s)) = SubSeq(s, m, Len(s))
    BY <2>1, ConcatAdjacentSubSeq
  <2> QED BY <2>2 DEF m
<1>5. SubSeq(s, 1, Len(s)) = s
  BY SubSeqFull
<1>6. Len(SubSeq(s, 1, n)) = n
  BY <1>1, <1>2
<1>7. Len(SubSeq(s, n + 1, Len(s))) = Len(s) - n
  BY <1>1, <1>3
<1> QED BY <1>2, <1>3, <1>4, <1>5, <1>6, <1>7

LEMMA OctetsAssoc ==
    \A s, t, u \in Seq(Octets) : (s \o t) \o u = s \o (t \o u)
BY ConcatAssociative

LEMMA BytesType ==
    ASSUME NEW m \in Nat, NEW n \in Nat
    PROVE  Bytes(m, n) \in Seq(Nat) /\ Len(Bytes(m, n)) = n
<1>1. Bytes(m, n) \in [1 .. n -> Nat]
  BY DEF Bytes
<1> QED BY <1>1, FunctionIsSeq

\* The first m bytes and the next n.
LEMMA BytesConcat ==
    ASSUME NEW m \in Nat, NEW n \in Nat
    PROVE  Bytes(0, m) \o Bytes(m, n) = Bytes(0, m + n)
<1> DEFINE l == Bytes(0, m) \o Bytes(m, n)
<1>1. /\ l \in Seq(Nat) /\ Len(l) = m + n
      /\ \A i \in 1 .. m + n :
            l[i] = IF i <= m THEN Bytes(0, m)[i] ELSE Bytes(m, n)[i - m]
  <2> DEFINE x == Bytes(0, m)
             y == Bytes(m, n)
  <2>1. /\ x \in Seq(Nat) /\ Len(x) = m /\ y \in Seq(Nat) /\ Len(y) = n
    BY BytesType
  <2> HIDE DEF x, y
  <2>2. /\ x \o y \in Seq(Nat) /\ Len(x \o y) = m + n
        /\ \A i \in 1 .. m + n :
              (x \o y)[i] = IF i <= m THEN x[i] ELSE y[i - m]
    BY <2>1
  <2> QED BY <2>2 DEF x, y
<1>2. Bytes(0, m + n) \in Seq(Nat) /\ Len(Bytes(0, m + n)) = m + n
  BY BytesType
<1> HIDE DEF l
<1>3. ASSUME NEW i \in 1 .. m + n
      PROVE  l[i] = Bytes(0, m + n)[i]
  <2>1. CASE i <= m
    <3>1. i \in 1 .. m
      BY <2>1
    <3>2. l[i] = Bytes(0, m)[i]
      BY <1>1, <2>1
    <3> QED BY <3>1, <3>2 DEF Bytes
  <2>2. CASE i > m
    <3>1. i - m \in 1 .. n /\ ~(i <= m)
      BY <2>2
    <3>2. l[i] = m + (i - m)
      BY <1>1, <3>1 DEF Bytes
    <3> QED BY <3>2 DEF Bytes
  <2> QED BY <2>1, <2>2
<1>4. l = Bytes(0, m + n)
  BY <1>1, <1>2, <1>3, SeqEqual
<1> QED BY <1>4 DEF l

LEMMA BytesAppend ==
    ASSUME NEW m \in Nat
    PROVE  Append(Bytes(0, m), m + 1) = Bytes(0, m + 1)
<1> DEFINE l == Append(Bytes(0, m), m + 1)
<1>1. /\ l \in Seq(Nat) /\ Len(l) = m + 1 /\ l[m + 1] = m + 1
      /\ \A i \in 1 .. m : l[i] = Bytes(0, m)[i]
  <2>1. Bytes(0, m) \in Seq(Nat) /\ Len(Bytes(0, m)) = m /\ m + 1 \in Nat
    BY BytesType
  <2> QED BY <2>1, AppendProperties
<1>2. Bytes(0, m + 1) \in Seq(Nat) /\ Len(Bytes(0, m + 1)) = m + 1
  BY BytesType
<1> HIDE DEF l
<1>3. \A i \in 1 .. m + 1 : l[i] = Bytes(0, m + 1)[i]
  BY <1>1 DEF Bytes
<1>4. l = Bytes(0, m + 1)
  BY <1>1, <1>2, <1>3, SeqEqual
<1> QED BY <1>4 DEF l

-----------------------------------------------------------------------------
\* The operations of Buffer.

LEMMA SizeType == Size \in Nat \ {0} /\ kCheapPrepend \in Nat /\ kInitialSize \in Nat
BY SizeAssumption DEF Size

LEMMA ReadableType ==
    ASSUME NEW b, GoodBuffer(b)
    PROVE  readableBytes(b) \in Nat /\ writableBytes(b) \in Nat
BY SizeType DEF GoodBuffer, BufferType, BufferOK, readableBytes, writableBytes

LEMMA ContentsType ==
    ASSUME NEW b, GoodBuffer(b)
    PROVE  Contents(b) \in Seq(Octets) /\ Len(Contents(b)) = readableBytes(b)
<1>1. readableBytes(b) \in Nat
  BY ReadableType
<1>2. ASSUME NEW i \in 1 .. readableBytes(b)
      PROVE  b.buf_[b.readerIndex_ + i - 1] \in Octets
  <2>1. b.readerIndex_ + i - 1 \in 0 .. Size - 1
    BY SizeType DEF GoodBuffer, BufferType, BufferOK, readableBytes
  <2> QED BY <2>1 DEF GoodBuffer, BufferType
<1>3. Contents(b) \in [1 .. readableBytes(b) -> Octets]
  BY <1>2 DEF Contents
<1> QED BY <1>1, <1>3, FunctionIsSeq

LEMMA NewBufferGood == GoodBuffer(NewBuffer) /\ readableBytes(NewBuffer) = 0
BY SizeType DEF NewBuffer, GoodBuffer, BufferType, BufferOK, readableBytes,
                writableBytes, Size, Octets

LEMMA EmptyContents ==
    ASSUME NEW b, GoodBuffer(b), readableBytes(b) = 0
    PROVE  Contents(b) = <<>>
BY ContentsType, EmptySeq

\* append() adds the data behind what the buffer holds.
LEMMA AppendEffect ==
    ASSUME NEW b, GoodBuffer(b), NEW data \in Seq(Octets), Fits(b, data)
    PROVE  /\ GoodBuffer(append(b, data))
           /\ readableBytes(append(b, data)) = readableBytes(b) + Len(data)
           /\ Contents(append(b, data)) = Contents(b) \o data
<1> DEFINE w == b.writerIndex_
           c == [i \in 0 .. Size - 1 |->
                    IF i >= w /\ i < w + Len(data)
                    THEN data[i - w + 1] ELSE b.buf_[i]]
           a == append(b, data)
<1>1. /\ b \in BufferType /\ Len(data) \in Nat /\ w \in Nat
      /\ b.readerIndex_ \in Nat /\ b.readerIndex_ <= w
      /\ kCheapPrepend <= b.readerIndex_ /\ w + Len(data) <= Size
      /\ \A i \in 1 .. Len(data) : data[i] \in Octets
      /\ \A i \in 0 .. Size - 1 : b.buf_[i] \in Octets
      /\ readableBytes(b) = 0 => writableBytes(b) = kInitialSize
  BY SizeType, ElementOfSeq
     DEF GoodBuffer, BufferType, BufferOK, Fits, writableBytes
<1>2. c \in [0 .. Size - 1 -> Octets]
  BY <1>1, SizeType
<1>3. a = [b EXCEPT !.buf_ = c, !.writerIndex_ = w + Len(data)]
  BY DEF append
<1> HIDE DEF c, a
<1>4. /\ a \in BufferType /\ a.buf_ = c /\ a.readerIndex_ = b.readerIndex_
      /\ a.writerIndex_ = w + Len(data)
  <2> DEFINE v == w + Len(data)
  <2>1. v \in Nat
    BY <1>1
  <2>2. a = [b EXCEPT !.buf_ = c, !.writerIndex_ = v]
    BY <1>3
  <2> HIDE DEF v
  <2>3. /\ a \in BufferType /\ a.buf_ = c
        /\ a.readerIndex_ = b.readerIndex_ /\ a.writerIndex_ = v
    BY <1>1, <1>2, <2>1, <2>2 DEF BufferType
  <2> QED BY <2>3 DEF v
<1>5. readableBytes(a) = readableBytes(b) + Len(data)
  BY <1>1, <1>4 DEF readableBytes
<1>6. GoodBuffer(a)
  <2>1. readableBytes(a) = 0 => Len(data) = 0 /\ readableBytes(b) = 0
    BY <1>1, <1>5 DEF readableBytes
  <2> QED BY <1>1, <1>4, <2>1, SizeType DEF GoodBuffer, BufferOK, writableBytes
<1> DEFINE l == Contents(b) \o data
<1>7. /\ l \in Seq(Octets) /\ Len(l) = readableBytes(b) + Len(data)
      /\ \A i \in 1 .. readableBytes(b) + Len(data) :
            l[i] = IF i <= readableBytes(b) THEN Contents(b)[i]
                   ELSE data[i - readableBytes(b)]
  <2> DEFINE u == Contents(b)
             m == readableBytes(b)
             n == Len(data)
  <2>1. u \in Seq(Octets) /\ Len(u) = m /\ m \in Nat
    BY ContentsType, ReadableType
  <2>2. n \in Nat /\ n = Len(data)
    BY LenProperties
  <2> HIDE DEF u, m, n
  <2>3. /\ u \o data \in Seq(Octets) /\ Len(u \o data) = m + n
        /\ \A i \in 1 .. m + n :
              (u \o data)[i] = IF i <= m THEN u[i] ELSE data[i - m]
    BY <2>1, <2>2, ConcatProperties
  <2> QED BY <2>3 DEF u, m, n
<1>8. Contents(a) \in Seq(Octets) /\ Len(Contents(a)) = readableBytes(b) + Len(data)
  BY <1>5, <1>6, ContentsType
<1> HIDE DEF l
<1>9. ASSUME NEW i \in 1 .. readableBytes(b) + Len(data)
      PROVE  Contents(a)[i] = l[i]
  <2>1. readableBytes(b) = w - b.readerIndex_ /\ i \in Nat /\ i >= 1
    BY <1>1 DEF readableBytes
  <2> DEFINE j == b.readerIndex_ + i - 1
  <2>2. Contents(a)[i] = c[j]
    BY <1>4, <1>5 DEF Contents
  <2>3. j \in 0 .. Size - 1
    BY <1>1, <2>1, SizeType
  <2>4. CASE i <= readableBytes(b)
    <3>1. ~(j >= w)
      BY <1>1, <2>1, <2>4
    <3>2. l[i] = b.buf_[j]
      BY <1>1, <1>7, <2>1, <2>4 DEF Contents
    <3> QED BY <2>2, <2>3, <3>1, <3>2 DEF c
  <2>5. CASE i > readableBytes(b)
    <3>1. j >= w /\ j < w + Len(data) /\ j - w + 1 = i - readableBytes(b)
      BY <1>1, <2>1, <2>5
    <3>2. l[i] = data[i - readableBytes(b)]
      BY <1>1, <1>7, <2>1, <2>5
    <3> QED BY <2>2, <2>3, <3>1, <3>2 DEF c
  <2> QED BY <1>1, <2>1, <2>4, <2>5
<1>10. Contents(a) = l
  BY <1>7, <1>8, <1>9, SeqEqual
<1> QED BY <1>5, <1>6, <1>10 DEF a, l

\* retrieve() takes the first bytes away; the rest stays, in order.
LEMMA RetrieveEffect ==
    ASSUME NEW b, GoodBuffer(b), NEW len \in 1 .. readableBytes(b)
    PROVE  /\ GoodBuffer(retrieve(b, len))
           /\ SubSeq(Contents(b), 1, len) \in Seq(Octets)
           /\ SubSeq(Contents(b), 1, len) \o Contents(retrieve(b, len))
                 = Contents(b)
<1> DEFINE s == Contents(b)
           a == retrieve(b, len)
           t == SubSeq(s, len + 1, Len(s))
<1>1. /\ b \in BufferType /\ b.readerIndex_ \in Nat /\ b.writerIndex_ \in Nat
      /\ kCheapPrepend <= b.readerIndex_ /\ b.readerIndex_ <= b.writerIndex_
      /\ b.writerIndex_ <= Size /\ readableBytes(b) \in Nat
      /\ readableBytes(b) = b.writerIndex_ - b.readerIndex_
  BY ReadableType DEF GoodBuffer, BufferType, BufferOK, readableBytes
<1>2. s \in Seq(Octets) /\ Len(s) = readableBytes(b)
  BY ContentsType
<1>3. /\ SubSeq(s, 1, len) \in Seq(Octets) /\ t \in Seq(Octets)
      /\ Len(t) = Len(s) - len /\ SubSeq(s, 1, len) \o t = s
  <2>1. len \in 0 .. Len(s)
    BY <1>1, <1>2
  <2> HIDE DEF s
  <2> QED BY <1>2, <2>1, CutSeq
<1>4. GoodBuffer(a) /\ Contents(a) = t
  <2>1. CASE len < readableBytes(b)
    <3>1. a = [b EXCEPT !.readerIndex_ = b.readerIndex_ + len]
      BY <2>1 DEF retrieve
    <3>2. /\ a \in BufferType /\ a.buf_ = b.buf_
          /\ a.readerIndex_ = b.readerIndex_ + len
          /\ a.writerIndex_ = b.writerIndex_
      <4> DEFINE r == b.readerIndex_ + len
      <4>1. r \in Nat /\ a = [b EXCEPT !.readerIndex_ = r]
        BY <1>1, <3>1
      <4> HIDE DEF r, a
      <4>2. /\ a \in BufferType /\ a.buf_ = b.buf_ /\ a.readerIndex_ = r
            /\ a.writerIndex_ = b.writerIndex_
        BY <1>1, <4>1 DEF BufferType
      <4> QED BY <4>2 DEF r
    <3> HIDE DEF a
    <3>3. readableBytes(a) = readableBytes(b) - len
      BY <1>1, <3>2 DEF readableBytes
    <3>4. GoodBuffer(a)
      BY <1>1, <2>1, <3>2, <3>3, SizeType DEF GoodBuffer, BufferOK
    <3>5. Contents(a) \in Seq(Octets) /\ Len(Contents(a)) = Len(t)
      BY <1>2, <1>3, <3>3, <3>4, ContentsType
    <3>6. ASSUME NEW i \in 1 .. Len(t)
          PROVE  Contents(a)[i] = t[i]
      <4>1. i \in 1 .. readableBytes(b) - len /\ i + len \in 1 .. readableBytes(b)
        BY <1>1, <1>2, <1>3
      <4>2. Contents(a)[i] = b.buf_[b.readerIndex_ + len + i - 1]
        BY <3>2, <3>3, <4>1 DEF Contents
      <4>3. s[i + len] = b.buf_[b.readerIndex_ + (i + len) - 1]
        BY <4>1 DEF Contents
      <4>4. t[i] = s[len + 1 + i - 1]
        <5>1. \A j \in (len + 1) .. Len(s) : s[j] \in Octets
          BY <1>1, <1>2, ElementOfSeq
        <5>2. i \in 1 .. Len(s) - (len + 1) + 1
          BY <1>1, <1>2, <4>1
        <5>3. len + 1 \in Int /\ Len(s) \in Int
          BY <1>1, <1>2
        <5> HIDE DEF s
        <5> QED BY <5>1, <5>2, <5>3, SubSeqProperties
      <4>5. len + 1 + i - 1 = i + len
            /\ b.readerIndex_ + len + i - 1 = b.readerIndex_ + (i + len) - 1
        <5>1. len \in Int /\ i \in Int /\ b.readerIndex_ \in Int
          BY <1>1, <4>1
        <5> QED BY <5>1
      <4> QED BY <4>2, <4>3, <4>4, <4>5
    <3> HIDE DEF t
    <3>7. Contents(a) = t
      BY <1>3, <3>5, <3>6, SeqEqual
    <3> QED BY <3>4, <3>7
  <2>2. CASE ~(len < readableBytes(b))
    <3>1. a = [b EXCEPT !.readerIndex_ = kCheapPrepend,
                        !.writerIndex_ = kCheapPrepend]
      BY <2>2 DEF retrieve, retrieveAll
    <3>2. /\ a \in BufferType
          /\ a.readerIndex_ = kCheapPrepend /\ a.writerIndex_ = kCheapPrepend
      BY <1>1, <3>1, SizeType DEF BufferType
    <3> HIDE DEF a
    <3>3. GoodBuffer(a) /\ readableBytes(a) = 0
      BY <3>2, SizeType
         DEF GoodBuffer, BufferOK, readableBytes, writableBytes, Size
    <3>4. Len(t) = 0
      BY <1>1, <1>2, <1>3, <2>2
    <3> HIDE DEF t
    <3>5. t = <<>>
      BY <1>3, <3>4, EmptySeq
    <3> QED BY <3>3, <3>5, EmptyContents
  <2> QED BY <2>1, <2>2
<1> QED BY <1>3, <1>4

-----------------------------------------------------------------------------
\* The inductive invariant: the types, the two streams, and POLLOUT is waited
\* for exactly while there is output, or always.

StreamTypes ==
    /\ arriving \in Seq(Octets) /\ consumed \in Seq(Octets)
    /\ wire \in Seq(Octets) /\ arrived \in Nat /\ given \in Nat
    /\ strayOut \in BOOLEAN

GoodBuffers == GoodBuffer(inputBuffer_) /\ GoodBuffer(outputBuffer_)

WaitsForOutput ==
    state_ = "Connected" =>
        (writing <=> strayOut \/ readableBytes(outputBuffer_) > 0)

Inv ==
    /\ StreamTypes /\ GoodBuffers /\ InputIntact /\ NothingLost
    /\ WireInOrder /\ WaitsForOutput

\* The input half and the output half of the invariant: an action that leaves
\* the variables of one half alone keeps that half.
InHalf ==
    /\ GoodBuffer(inputBuffer_) /\ InputIntact
    /\ arriving \in Seq(Octets) /\ consumed \in Seq(Octets) /\ arrived \in Nat
OutHalf ==
    /\ GoodBuffer(outputBuffer_) /\ NothingLost /\ WireInOrder
    /\ WaitsForOutput /\ strayOut \in BOOLEAN
    /\ wire \in Seq(Octets) /\ given \in Nat

LEMMA Halves == /\ Inv <=> InHalf /\ OutHalf
                /\ Inv' <=> InHalf' /\ OutHalf'
BY DEF Inv, InHalf, OutHalf, StreamTypes, GoodBuffers

LEMMA InKept == InHalf /\ UNCHANGED <<inVars, fault>> => InHalf'
BY DEF InHalf, inVars, InputIntact

LEMMA OutKept == OutHalf /\ UNCHANGED <<outVars, state_, fault>> => OutHalf'
BY DEF OutHalf, outVars, NothingLost, WireInOrder, WaitsForOutput

\* The program ends, for a reason that is not the input's.
LEMMA InFault ==
    ASSUME InHalf, UNCHANGED inVars, fault = "none"
    PROVE  InHalf'
BY DEF InHalf, inVars, InputIntact

LEMMA OctetsHold == \A s \in Seq(Nat) : s \in Seq(Octets)
BY SeqMonotonic DEF Octets

-----------------------------------------------------------------------------
\* Input.

LEMMA PeerSendsInv == Inv /\ PeerSends => Inv'
<1> SUFFICES ASSUME InHalf, OutHalf, PeerSends PROVE InHalf' /\ OutHalf'
  BY Halves
<1>1. OutHalf'
  BY OutKept DEF PeerSends
<1> DEFINE c == consumed \o Contents(inputBuffer_)
<1>2. /\ arrived' = arrived + 1 /\ arriving' = Append(arriving, arrived + 1)
      /\ UNCHANGED <<consumed, inputBuffer_, fault>> /\ fault = "none"
  BY DEF PeerSends
<1>3. /\ c \in Seq(Octets) /\ arriving \in Seq(Octets) /\ arrived \in Nat
      /\ arrived + 1 \in Octets /\ c \o arriving = Bytes(0, arrived)
  BY <1>2, ContentsType, ConcatProperties DEF InHalf, InputIntact, Octets
<1> HIDE DEF c
<1>4. c \o Append(arriving, arrived + 1) = Bytes(0, arrived + 1)
  <2>1. c \o Append(arriving, arrived + 1) = Append(c \o arriving, arrived + 1)
    BY <1>3
  <2> QED BY <1>3, <2>1, BytesAppend
<1>5. InputIntact'
  BY <1>2, <1>4 DEF InputIntact, c
<1> QED BY <1>1, <1>2, <1>3, <1>5 DEF InHalf

LEMMA HandleReadInv == Inv /\ HandleRead => Inv'
<1> SUFFICES ASSUME InHalf, OutHalf, HandleRead PROVE InHalf' /\ OutHalf'
  BY Halves
<1>1. PICK n \in 1 .. Len(arriving) :
         LET data == SubSeq(arriving, 1, n)
         IN /\ IF ReadFits(inputBuffer_, data)
               THEN /\ inputBuffer_' = readFd(inputBuffer_, data)
                    /\ UNCHANGED fault
               ELSE /\ fault' = "inputOverflow"
                    /\ UNCHANGED inputBuffer_
            /\ arriving' = SubSeq(arriving, n + 1, Len(arriving))
  BY DEF HandleRead
<1>2. /\ fault = "none" /\ UNCHANGED <<outVars, state_, consumed, arrived>>
  BY DEF HandleRead
<1> DEFINE data == SubSeq(arriving, 1, n)
           rest == SubSeq(arriving, n + 1, Len(arriving))
           b == inputBuffer_
<1>3. /\ data \in Seq(Octets) /\ rest \in Seq(Octets) /\ data \o rest = arriving
  <2>1. arriving \in Seq(Octets) /\ n \in 0 .. Len(arriving)
    BY DEF InHalf
  <2> QED BY <2>1, CutSeq
<1>4. /\ \/ Fits(b, data) /\ inputBuffer_' = append(b, data) /\ UNCHANGED fault
         \/ fault' = "inputOverflow" /\ UNCHANGED inputBuffer_
      /\ arriving' = rest
  BY <1>1 DEF ReadFits, Fits, readFd
<1> HIDE DEF data, rest
<1>5. OutHalf'
  <2>1. CASE UNCHANGED fault
    BY <1>2, <2>1, OutKept
  <2>2. CASE fault' = "inputOverflow"
    BY <1>2, <2>2
       DEF OutHalf, outVars, NothingLost, WireInOrder, WaitsForOutput
  <2> QED BY <1>4, <2>1, <2>2
<1>6. CASE Fits(b, data) /\ inputBuffer_' = append(b, data) /\ UNCHANGED fault
  <2>1. /\ GoodBuffer(inputBuffer_')
        /\ Contents(inputBuffer_') = Contents(b) \o data
    BY <1>3, <1>6, AppendEffect DEF InHalf
  <2>2. (consumed \o (Contents(b) \o data)) \o rest
           = (consumed \o Contents(b)) \o arriving
    <3>1. consumed \in Seq(Octets) /\ Contents(b) \in Seq(Octets)
      BY ContentsType DEF InHalf
    <3> DEFINE x == Contents(b)
    <3> HIDE DEF x
    <3>2. x \in Seq(Octets)
      BY <3>1 DEF x
    <3>3. (consumed \o (x \o data)) \o rest = (consumed \o x) \o (data \o rest)
      <4>1. data \in Seq(Octets) /\ rest \in Seq(Octets)
        BY <1>3
      <4>2. consumed \in Seq(Octets)
        BY <3>1
      <4>3. consumed \o x \in Seq(Octets)
        BY <4>2, <3>2, ConcatProperties
      <4>4. (consumed \o x) \o data = consumed \o (x \o data)
        BY <4>1, <4>2, <3>2, OctetsAssoc
      <4>5. ((consumed \o x) \o data) \o rest
               = (consumed \o x) \o (data \o rest)
        <5> DEFINE c == consumed \o x
        <5> HIDE DEF c
        <5>1. c \in Seq(Octets)
          BY <4>3 DEF c
        <5>2. (c \o data) \o rest = c \o (data \o rest)
          BY <4>1, <5>1, OctetsAssoc
        <5> QED BY <5>2 DEF c
      <4> QED BY <4>4, <4>5
    <3> QED BY <1>3, <3>3 DEF x
  <2>3. InputIntact'
    BY <1>2, <1>4, <1>6, <2>1, <2>2 DEF InHalf, InputIntact
  <2> QED BY <1>2, <1>3, <1>4, <1>5, <2>1, <2>3 DEF InHalf
<1>7. CASE fault' = "inputOverflow" /\ UNCHANGED inputBuffer_
  BY <1>2, <1>3, <1>4, <1>5, <1>7 DEF InHalf, InputIntact
<1> QED BY <1>4, <1>6, <1>7

LEMMA UserRetrievesInv == Inv /\ UserRetrieves => Inv'
<1> SUFFICES ASSUME InHalf, OutHalf, UserRetrieves PROVE InHalf' /\ OutHalf'
  BY Halves
<1>1. OutHalf'
  BY OutKept DEF UserRetrieves
<1>2. PICK len \in 1 .. readableBytes(inputBuffer_) :
         /\ consumed' = consumed \o SubSeq(Contents(inputBuffer_), 1, len)
         /\ inputBuffer_' = retrieve(inputBuffer_, len)
  BY DEF UserRetrieves
<1>3. UNCHANGED <<arriving, arrived, fault>> /\ fault = "none"
  BY DEF UserRetrieves
<1> DEFINE x == SubSeq(Contents(inputBuffer_), 1, len)
           y == Contents(inputBuffer_')
<1>4. /\ GoodBuffer(inputBuffer_') /\ x \in Seq(Octets)
      /\ x \o y = Contents(inputBuffer_)
  BY <1>2, RetrieveEffect DEF InHalf
<1>5. y \in Seq(Octets)
  BY <1>4, ContentsType
<1>6. consumed' = consumed \o x
  BY <1>2
<1> HIDE DEF x, y
<1>7. consumed' \in Seq(Octets) /\ consumed' \o y = consumed \o (x \o y)
  <2>1. consumed \in Seq(Octets)
    BY DEF InHalf
  <2>2. consumed \o x \in Seq(Octets)
    BY <1>4, <2>1, ConcatProperties
  <2>3. (consumed \o x) \o y = consumed \o (x \o y)
    <3>1. x \in Seq(Octets)
      BY <1>4
    <3> QED BY <3>1, <1>5, <2>1, OctetsAssoc
  <2> QED BY <1>6, <2>2, <2>3
<1>8. InputIntact'
  BY <1>3, <1>4, <1>7 DEF InHalf, InputIntact, y
<1> QED BY <1>1, <1>3, <1>4, <1>7, <1>8 DEF InHalf

LEMMA HandleCloseInv == Inv /\ HandleClose => Inv'
<1> SUFFICES ASSUME InHalf, OutHalf, HandleClose PROVE InHalf' /\ OutHalf'
  BY Halves
<1>1. InHalf'
  BY InKept DEF HandleClose
<1>2. OutHalf'
  BY DEF HandleClose, OutHalf, NothingLost, WireInOrder, WaitsForOutput
<1> QED BY <1>1, <1>2

-----------------------------------------------------------------------------
\* Output.

LEMMA BufferedEffect ==
    ASSUME GoodBuffer(outputBuffer_), fault = "none",
           NEW data \in Seq(Octets), Len(data) > 0, Buffered(data)
    PROVE  \/ fault' # "none" /\ UNCHANGED <<outputBuffer_, writing>>
           \/ /\ UNCHANGED fault /\ writing' = TRUE
              /\ GoodBuffer(outputBuffer_')
              /\ readableBytes(outputBuffer_') > 0
              /\ Contents(outputBuffer_') = Contents(outputBuffer_) \o data
<1>1. CASE fault' \in {"noCallback", "outputOverflow"}
           /\ UNCHANGED <<outputBuffer_, writing>>
  BY <1>1
<1>2. CASE /\ Fits(outputBuffer_, data) /\ UNCHANGED fault /\ writing' = TRUE
           /\ outputBuffer_' = append(outputBuffer_, data)
  <2>1. /\ GoodBuffer(outputBuffer_')
        /\ readableBytes(outputBuffer_') = readableBytes(outputBuffer_) + Len(data)
        /\ Contents(outputBuffer_') = Contents(outputBuffer_) \o data
    BY <1>2, AppendEffect
  <2>2. readableBytes(outputBuffer_) \in Nat /\ Len(data) \in Nat
    BY ReadableType, LenProperties
  <2> QED BY <1>2, <2>1, <2>2
<1> QED BY <1>1, <1>2 DEF Buffered

\* The output half after a send(): there is output in the buffer exactly
\* while writing is set, and what is new is in order.
LEMMA SentHalf ==
    ASSUME OutHalf, state_ = "Connected", UNCHANGED <<state_, strayOut>>,
           GoodBuffer(outputBuffer_'), wire' \in Seq(Octets), given' \in Nat,
           \/ UNCHANGED <<outputBuffer_, writing>>
           \/ writing' = TRUE /\ readableBytes(outputBuffer_') > 0,
           NothingLost', WireInOrder'
    PROVE  OutHalf'
BY DEF OutHalf, WaitsForOutput

\* The wire stays in order when nothing, or the start of what is given next,
\* is added to it.
LEMMA WireSame ==
    ASSUME WireInOrder, given \in Nat, given' \in Nat, given' >= given,
           UNCHANGED wire
    PROVE  WireInOrder'
<1>1. 1 .. given \subseteq 1 .. given'
  OBVIOUS
<1> QED BY <1>1 DEF WireInOrder

LEMMA WireGrows ==
    ASSUME WireInOrder, given \in Nat, wire \in Seq(Octets),
           NEW n \in Nat, NEW k \in 1 .. n, given' = given + n,
           wire' = wire \o SubSeq(Bytes(given, n), 1, k)
    PROVE  WireInOrder'
<1> DEFINE w == Len(wire)
           x == SubSeq(Bytes(given, n), 1, k)
<1>1. x \in Seq(Octets) /\ Len(x) = k /\ \A i \in 1 .. k : x[i] = given + i
  <2> DEFINE d == Bytes(given, n)
  <2>1. d \in Seq(Octets) /\ Len(d) = n /\ k \in 0 .. n
    BY BytesType, OctetsHold
  <2>2. \A i \in 1 .. n : d[i] = given + i
    BY DEF Bytes
  <2> HIDE DEF d
  <2>3. SubSeq(d, 1, k) \in Seq(Octets) /\ Len(SubSeq(d, 1, k)) = k
    BY <2>1, CutSeq
  <2>4. ASSUME NEW i \in 1 .. k PROVE SubSeq(d, 1, k)[i] = given + i
    <3>1. SubSeq(d, 1, k)[i] = d[i]
      BY <2>1
    <3>2. i \in 1 .. n
      OBVIOUS
    <3> QED BY <2>2, <3>1, <3>2
  <2> QED BY <2>3, <2>4 DEF d
<1>2. w \in Nat /\ DOMAIN wire = 1 .. w
  BY LenProperties
<1> HIDE DEF x
<1>3. /\ DOMAIN wire' = 1 .. w + k
      /\ \A i \in 1 .. w + k : wire'[i] = IF i <= w THEN wire[i] ELSE x[i - w]
  <2>1. wire' = wire \o x
    BY DEF x
  <2>2. /\ Len(wire \o x) = w + k /\ wire \o x \in Seq(Octets)
        /\ \A i \in 1 .. w + k :
              (wire \o x)[i] = IF i <= w THEN wire[i] ELSE x[i - w]
    BY <1>1, <1>2, ConcatProperties
  <2> QED BY <2>1, <2>2, LenProperties
<1>4. \A i \in 1 .. w : wire'[i] = wire[i] /\ wire[i] \in 1 .. given
  BY <1>2, <1>3 DEF WireInOrder
<1>5. \A i \in w + 1 .. w + k : wire'[i] = given + (i - w)
  <2> SUFFICES ASSUME NEW i \in w + 1 .. w + k
               PROVE  wire'[i] = given + (i - w)
    OBVIOUS
  <2>1. i \in 1 .. w + k /\ ~(i <= w) /\ i - w \in 1 .. k
    BY <1>2
  <2> QED BY <1>1, <1>3, <2>1
<1>6. ASSUME NEW i \in 1 .. w + k
      PROVE  /\ wire'[i] \in 1 .. given'
             /\ \A j \in 1 .. i - 1 : wire'[j] < wire'[i]
  <2>1. CASE i <= w
    <3>1. i \in 1 .. w /\ \A j \in 1 .. i - 1 : j \in 1 .. w
      BY <1>2, <2>1
    <3>2. \A j \in 1 .. i - 1 : wire[j] < wire[i]
      BY <1>2, <3>1 DEF WireInOrder
    <3>3. wire'[i] = wire[i] /\ wire[i] \in 1 .. given
      BY <1>4, <3>1
    <3>4. \A j \in 1 .. i - 1 : wire'[j] = wire[j]
      BY <1>4, <3>1
    <3> QED BY <3>2, <3>3, <3>4
  <2>2. CASE i > w
    <3>1. i \in w + 1 .. w + k /\ wire'[i] = given + (i - w)
      BY <1>2, <1>5, <2>2
    <3>2. ASSUME NEW j \in 1 .. i - 1 PROVE wire'[j] < wire'[i]
      <4>1. CASE j <= w
        <5>1. wire'[j] \in 1 .. given
          BY <1>2, <1>4, <4>1
        <5> QED BY <1>2, <2>2, <3>1, <5>1
      <4>2. CASE j > w
        <5>1. wire'[j] = given + (j - w)
          BY <1>2, <1>5, <3>1, <4>2
        <5> QED BY <1>2, <3>1, <5>1
      <4> QED BY <1>2, <4>1, <4>2
    <3> QED BY <1>2, <3>1, <3>2
  <2> QED BY <1>2, <2>1, <2>2
<1> QED BY <1>3, <1>6 DEF WireInOrder

LEMMA WriteSomeOut ==
    ASSUME OutHalf, fault = "none", state_ = "Connected",
           UNCHANGED <<state_, strayOut>>,
           NEW n \in Nat \ {0}, given' = given + n,
           WriteSome(Bytes(given, n))
    PROVE  OutHalf'
<1> DEFINE data == Bytes(given, n)
<1>1. /\ GoodBuffer(outputBuffer_) /\ given \in Nat /\ wire \in Seq(Octets)
      /\ NothingLost
  BY DEF OutHalf
<1>2. data \in Seq(Octets) /\ Len(data) = n
  BY <1>1, BytesType, OctetsHold
<1>3. Bytes(0, given) \o data = Bytes(0, given + n)
  BY <1>1, BytesConcat
<1> HIDE DEF data
<1>4. readableBytes(outputBuffer_) = 0 /\ UNCHANGED intact
  BY DEF WriteSome
<1>5. Contents(outputBuffer_) = <<>>
  BY <1>1, <1>4, EmptyContents
<1>6. intact => wire = Bytes(0, given)
  <2>1. wire \o <<>> = wire
    BY <1>1, ConcatEmptySeq
  <2> QED BY <1>1, <1>5, <2>1 DEF NothingLost
<1>7. PICK k \in 1 .. Len(data) :
         /\ wire' = wire \o SubSeq(data, 1, k)
         /\ IF k = Len(data) THEN UNCHANGED <<outputBuffer_, writing, fault>>
                             ELSE Buffered(Rest(data, k))
  BY DEF WriteSome, data
<1>15. WireInOrder'
  <2>1. k \in 1 .. n /\ n \in Nat
    BY <1>2
  <2>2. WireInOrder /\ wire' = wire \o SubSeq(Bytes(given, n), 1, k)
    BY <1>7 DEF data, OutHalf
  <2> QED BY <1>1, <2>1, <2>2, WireGrows
<1> DEFINE x == SubSeq(data, 1, k)
           y == SubSeq(data, k + 1, Len(data))
<1>8. /\ x \in Seq(Octets) /\ y \in Seq(Octets) /\ Len(y) = n - k
      /\ x \o y = data
  <2>1. k \in 0 .. Len(data)
    BY <1>2
  <2> QED BY <1>2, <2>1, CutSeq
<1>9. wire' = wire \o x /\ (k # Len(data) => Buffered(y))
  BY <1>7 DEF Rest
<1> HIDE DEF x, y
<1>10. wire' \in Seq(Octets)
  BY <1>1, <1>8, <1>9, ConcatProperties
<1>11. wire' \o y = wire \o data
  <2>1. wire \in Seq(Octets) /\ x \in Seq(Octets) /\ y \in Seq(Octets)
    BY <1>1, <1>8
  <2>2. (wire \o x) \o y = wire \o (x \o y)
    BY <2>1, OctetsAssoc
  <2> QED BY <1>8, <1>9, <2>2
<1>12. given' \in Nat
  BY <1>1
<1>13. CASE k = Len(data)
  <2>1. UNCHANGED <<outputBuffer_, writing, fault>>
    BY <1>7, <1>13
  <2>2. y = <<>>
    BY <1>2, <1>8, <1>13, EmptySeq
  <2>3. NothingLost'
    BY <1>3, <1>4, <1>5, <1>6, <1>11, <2>1, <2>2 DEF NothingLost
  <2> QED BY <1>1, <1>10, <1>12, <1>15, <2>1, <2>3, SentHalf
<1>14. CASE k # Len(data)
  <2>1. Len(y) > 0
    BY <1>2, <1>8, <1>14
  <2>2. \/ fault' # "none" /\ UNCHANGED <<outputBuffer_, writing>>
        \/ /\ UNCHANGED fault /\ writing' = TRUE
           /\ GoodBuffer(outputBuffer_')
           /\ readableBytes(outputBuffer_') > 0
           /\ Contents(outputBuffer_') = Contents(outputBuffer_) \o y
    BY <1>1, <1>8, <1>9, <1>14, <2>1, BufferedEffect
  <2>3. <<>> \o y = y
    BY <1>8, ConcatEmptySeq
  <2>4. NothingLost'
    BY <1>3, <1>4, <1>5, <1>6, <1>11, <2>2, <2>3 DEF NothingLost
  <2> QED BY <1>1, <1>10, <1>12, <1>15, <2>2, <2>4, SentHalf
<1> QED BY <1>13, <1>14

LEMMA WriteFailsOut ==
    ASSUME OutHalf, fault = "none", state_ = "Connected",
           UNCHANGED <<state_, strayOut>>,
           NEW n \in Nat \ {0}, given' = given + n,
           WriteFails(Bytes(given, n))
    PROVE  OutHalf'
<1> DEFINE data == Bytes(given, n)
           x == SubSeq(data, 1, n - 1)
           r == <<Junk>> \o x
<1>1. GoodBuffer(outputBuffer_) /\ given \in Nat /\ wire \in Seq(Octets)
  BY DEF OutHalf
<1>2. data \in Seq(Octets) /\ Len(data) = n
  BY <1>1, BytesType, OctetsHold
<1> HIDE DEF data
<1>3. x \in Seq(Octets) /\ Len(x) = n - 1
  <2>1. n - 1 \in 0 .. Len(data)
    BY <1>2
  <2> QED BY <1>2, <2>1, CutSeq
<1>4. Buffered(r) /\ intact' = FALSE /\ wire' = wire
  BY <1>2 DEF WriteFails, RestAfterFailure, data
<1> HIDE DEF x
<1>5. r \in Seq(Octets) /\ Len(r) > 0
  <2>1. <<Junk>> \in Seq(Octets) /\ Len(<<Junk>>) = 1
    BY DEF Octets
  <2>2. r \in Seq(Octets) /\ Len(r) = 1 + Len(x)
    BY <1>3, <2>1, ConcatProperties
  <2> QED BY <1>3, <2>2
<1> HIDE DEF r
<1>6. \/ fault' # "none" /\ UNCHANGED <<outputBuffer_, writing>>
      \/ /\ writing' = TRUE /\ GoodBuffer(outputBuffer_')
         /\ readableBytes(outputBuffer_') > 0
  BY <1>1, <1>4, <1>5, BufferedEffect
<1>7. NothingLost' /\ given' \in Nat
  BY <1>1, <1>4 DEF NothingLost
<1>8. WireInOrder'
  BY <1>1, <1>4, <1>7, WireSame DEF OutHalf
<1> QED BY <1>1, <1>4, <1>6, <1>7, <1>8, SentHalf

LEMMA QueueOut ==
    ASSUME OutHalf, fault = "none", state_ = "Connected",
           UNCHANGED <<state_, strayOut>>,
           NEW n \in Nat \ {0}, given' = given + n,
           Queue(Bytes(given, n))
    PROVE  OutHalf' /\ readableBytes(outputBuffer_') > 0
<1> DEFINE data == Bytes(given, n)
           c == Contents(outputBuffer_)
<1>1. /\ GoodBuffer(outputBuffer_) /\ given \in Nat /\ wire \in Seq(Octets)
      /\ NothingLost
  BY DEF OutHalf
<1>2. data \in Seq(Octets) /\ Len(data) = n /\ c \in Seq(Octets)
  BY <1>1, BytesType, OctetsHold, ContentsType
<1>3. Bytes(0, given) \o data = Bytes(0, given + n)
  BY <1>1, BytesConcat
<1>4. Buffered(data) /\ UNCHANGED <<wire, intact>>
  BY DEF Queue
<1> HIDE DEF data
<1>5. \/ fault' # "none" /\ UNCHANGED <<outputBuffer_, writing>>
      \/ /\ UNCHANGED fault /\ writing' = TRUE
         /\ GoodBuffer(outputBuffer_')
         /\ readableBytes(outputBuffer_') > 0
         /\ Contents(outputBuffer_') = c \o data
  <2>1. Len(data) > 0
    BY <1>2
  <2> QED BY <1>1, <1>2, <1>4, <2>1, BufferedEffect
<1>6. intact => wire \o c = Bytes(0, given)
  BY <1>1 DEF NothingLost
<1> HIDE DEF c
<1>7. (wire \o c) \o data = wire \o (c \o data)
  BY <1>1, <1>2, OctetsAssoc
<1>8. NothingLost' /\ given' \in Nat
  <2>1. intact => wire \o (c \o data) = Bytes(0, given + n)
    BY <1>3, <1>6, <1>7
  <2>2. intact' /\ fault' = "none" =>
           wire' \o Contents(outputBuffer_') = Bytes(0, given')
    BY <1>4, <1>5, <2>1
  <2> QED BY <1>1, <2>2 DEF NothingLost
<1>9. WireInOrder'
  BY <1>1, <1>4, <1>8, WireSame DEF OutHalf
<1>10. OutHalf'
  BY <1>1, <1>4, <1>5, <1>8, <1>9, SentHalf
<1>11. readableBytes(outputBuffer_) > 0
  BY DEF Queue
<1> QED BY <1>5, <1>10, <1>11

\* With output in the buffer, a step writes nothing and leaves some there.
Stuck ==
    readableBytes(outputBuffer_) > 0 =>
        wire' = wire /\ readableBytes(outputBuffer_') > 0

LEMMA SendInLoopInv == Inv /\ SendInLoop => Inv' /\ Stuck
<1> SUFFICES ASSUME InHalf, OutHalf, SendInLoop
             PROVE  InHalf' /\ OutHalf' /\ Stuck
  BY Halves
<1>1. PICK n \in 1 .. MaxMessage :
         /\ given' = given + n
         /\ LET data == Bytes(given, n)
            IN WriteSome(data) \/ WriteFails(data) \/ WriteKills \/ Queue(data)
  BY DEF SendInLoop
<1>2. /\ fault = "none" /\ state_ = "Connected"
      /\ UNCHANGED <<state_, strayOut, inVars>> /\ n \in Nat \ {0}
  BY BoundAssumption DEF SendInLoop
<1>3. InHalf'
  BY <1>2, InFault
<1>4. CASE WriteSome(Bytes(given, n))
  <2>1. Stuck
    BY <1>4 DEF WriteSome, Stuck
  <2> QED BY <1>1, <1>2, <1>3, <1>4, <2>1, WriteSomeOut
<1>5. CASE WriteFails(Bytes(given, n))
  <2>1. Stuck
    BY <1>5 DEF WriteFails, Stuck
  <2> QED BY <1>1, <1>2, <1>3, <1>5, <2>1, WriteFailsOut
<1>6. CASE WriteKills
  <2>1. given' \in Nat /\ given' >= given /\ given \in Nat
    BY <1>1, <1>2 DEF OutHalf
  <2>2. WireInOrder'
    BY <1>6, <2>1, WireSame DEF WriteKills, OutHalf
  <2> QED BY <1>2, <1>3, <1>6, <2>1, <2>2
          DEF WriteKills, OutHalf, WaitsForOutput, NothingLost, Stuck
<1>7. CASE Queue(Bytes(given, n))
  <2>1. OutHalf' /\ readableBytes(outputBuffer_') > 0
    BY <1>1, <1>2, <1>7, QueueOut
  <2>2. Stuck
    BY <1>7, <2>1 DEF Queue, Stuck
  <2> QED BY <1>3, <2>1, <2>2
<1> QED BY <1>1, <1>4, <1>5, <1>6, <1>7

LEMMA SendElsewhereInv == Inv /\ SendElsewhere => Inv'
<1> SUFFICES ASSUME InHalf, OutHalf, SendElsewhere PROVE InHalf' /\ OutHalf'
  BY Halves
<1>1. InHalf'
  BY InKept DEF SendElsewhere
<1>2. given' \in Nat /\ given' >= given /\ given \in Nat
  BY DEF SendElsewhere, OutHalf
<1>3. WireInOrder'
  BY <1>2, WireSame DEF SendElsewhere, OutHalf
<1>4. OutHalf'
  BY <1>2, <1>3 DEF SendElsewhere, OutHalf, NothingLost, WaitsForOutput
<1> QED BY <1>1, <1>4

\* A step that touches neither stream.
LEMMA QuietInv ==
    ASSUME Inv, UNCHANGED <<outVars, state_, fault>>,
           UNCHANGED <<inputBuffer_, arriving, arrived, consumed>>
    PROVE  Inv'
<1>1. InHalf /\ OutHalf
  BY Halves
<1>2. InHalf'
  BY <1>1 DEF InHalf, InputIntact
<1> QED BY <1>1, <1>2, OutKept, Halves

-----------------------------------------------------------------------------

LEMMA InitInv == Init => Inv
<1> SUFFICES ASSUME Init PROVE Inv
  OBVIOUS
<1>1. /\ GoodBuffer(inputBuffer_) /\ GoodBuffer(outputBuffer_)
      /\ readableBytes(outputBuffer_) = 0
      /\ Contents(inputBuffer_) = <<>> /\ Contents(outputBuffer_) = <<>>
  BY NewBufferGood, EmptyContents DEF Init
<1>2. Bytes(0, 0) = <<>>
  BY BytesType, EmptySeq
<1>3. <<>> \o <<>> = <<>> /\ <<>> \in Seq(Octets)
  BY ConcatEmptySeq
<1>4. InputIntact /\ NothingLost /\ WireInOrder
  BY <1>1, <1>2, <1>3 DEF Init, InputIntact, NothingLost, WireInOrder
<1> QED BY <1>1, <1>3, <1>4
        DEF Init, Inv, StreamTypes, GoodBuffers, WaitsForOutput

LEMMA NextInv == Inv /\ [Next]_vars => Inv' /\ Stuck
<1> SUFFICES ASSUME Inv, [Next]_vars PROVE Inv' /\ Stuck
  OBVIOUS
<1> USE DEF vars, inVars, outVars
<1>11. ASSUME UNCHANGED <<wire, outputBuffer_>> PROVE Stuck
  BY <1>11 DEF Stuck
<1>1. CASE PeerSends
  BY <1>1, <1>11, PeerSendsInv DEF PeerSends
<1>2. CASE PeerCloses
  BY <1>2, <1>11, QuietInv DEF PeerCloses
<1>3. CASE HandleRead
  BY <1>3, <1>11, HandleReadInv DEF HandleRead
<1>4. CASE UserRetrieves
  BY <1>4, <1>11, UserRetrievesInv DEF UserRetrieves
<1>5. CASE UserReturns
  BY <1>5, <1>11, QuietInv DEF UserReturns
<1>6. CASE HandleClose
  BY <1>6, <1>11, HandleCloseInv DEF HandleClose
<1>7. CASE SendInLoop
  BY <1>7, SendInLoopInv
<1>8. CASE SendElsewhere
  BY <1>8, <1>11, SendElsewhereInv DEF SendElsewhere
<1>9. CASE Shutdown
  BY <1>9, <1>11, QuietInv DEF Shutdown
<1>10. CASE HandleWrite \/ UNCHANGED vars
  BY <1>10, <1>11, QuietInv DEF HandleWrite
<1> QED BY <1>1, <1>2, <1>3, <1>4, <1>5, <1>6, <1>7, <1>8, <1>9, <1>10
        DEF Next

(* The inductive invariant of a connection's data path holds in every      *)
(* reachable state, for buffers, messages and streams of any size.         *)
THEOREM Invariance == Spec => []Inv
BY InitInv, NextInv, PTL DEF Spec

(* The indexes of both buffers stay in order, and a buffer that becomes    *)
(* empty has all its space back.                                           *)
THEOREM BuffersCorrect == Spec => []BuffersOK
<1>1. Inv => BuffersOK
  BY DEF Inv, GoodBuffers, GoodBuffer, BuffersOK
<1> QED BY <1>1, Invariance, PTL

(* Until append() overflows the input buffer, the user reads the bytes the *)
(* peer sent, in order, none lost and none twice, however they are cut     *)
(* into reads and retrieve()s.                                             *)
THEOREM InputCorrect == Spec => []InputIntact
<1>1. Inv => InputIntact
  BY DEF Inv
<1> QED BY <1>1, Invariance, PTL

(* As long as no write() fails and no other thread sends, what was given   *)
(* to send() is on the wire or in the output buffer, in order and once,    *)
(* across partial writes; and whatever fails, the wire only gets bytes     *)
(* that were given, in order.                                              *)
THEOREM OutputCorrect == Spec => []OutputIntact
<1>1. Inv => OutputIntact
  BY DEF Inv, OutputIntact
<1> QED BY <1>1, Invariance, PTL

(* A connected connection waits for POLLOUT exactly while output is        *)
(* buffered, or always if its events_ began with it; and with output       *)
(* buffered nothing more ever reaches the wire.                            *)
THEOREM StallCorrect == Spec => WritingStalls
<1>1. Inv /\ [Next]_vars =>
         [/\ state_ = "Connected" =>
                (writing <=> strayOut \/ readableBytes(outputBuffer_) > 0)
          /\ readableBytes(outputBuffer_) > 0 =>
                wire' = wire /\ readableBytes(outputBuffer_') > 0]_vars
  BY NextInv DEF Inv, WaitsForOutput, Stuck
<1> QED BY <1>1, Invariance, PTL DEF Spec, WritingStalls
=============================================================================
