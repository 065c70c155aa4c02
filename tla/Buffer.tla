------------------------------- MODULE Buffer -------------------------------
(***************************************************************************)
(* Buffer (src/CEventLoop/Buffer.h, Buffer.cc): an array of fixed size     *)
(* with a reader and a writer index.  A buffer is a record of the array    *)
(* and the indexes; the operators are its member functions, as functions   *)
(* from buffers to buffers.  Appending never makes room: the space before  *)
(* readerIndex_ is won back only when the buffer becomes empty.            *)
(***************************************************************************)
EXTENDS Naturals, Sequences

CONSTANTS
    kCheapPrepend, kInitialSize,
    ExtraSize,       \* sizeof(extraBuf) in readFd()
    Junk             \* what memory holds that nobody wrote

ASSUME SizeAssumption ==
    kCheapPrepend \in Nat /\ kInitialSize \in Nat \ {0} /\ ExtraSize \in Nat

Size == kCheapPrepend + kInitialSize       \* buf_.size()

NewBuffer == [buf_ |-> [i \in 0 .. Size - 1 |-> Junk],
              readerIndex_ |-> kCheapPrepend, writerIndex_ |-> kCheapPrepend]

readableBytes(b) == b.writerIndex_ - b.readerIndex_
writableBytes(b) == Size - b.writerIndex_

\* The readable bytes, from peek() to beginWrite().
Contents(b) ==
    [i \in 1 .. readableBytes(b) |-> b.buf_[b.readerIndex_ + i - 1]]

\* std::copy() to the writer index, and writerIndex_ += len.  The assertion
\* in hasWritten() is that data fits.
Fits(b, data) == Len(data) <= writableBytes(b)
append(b, data) ==
    [b EXCEPT
        !.buf_ = [i \in 0 .. Size - 1 |->
            IF i >= b.writerIndex_ /\ i < b.writerIndex_ + Len(data)
            THEN data[i - b.writerIndex_ + 1] ELSE b.buf_[i]],
        !.writerIndex_ = @ + Len(data)]

retrieveAll(b) ==
    [b EXCEPT !.readerIndex_ = kCheapPrepend, !.writerIndex_ = kCheapPrepend]

\* retrieve() of at most readableBytes(), which it asserts.
retrieve_neverResets(b, len) == [b EXCEPT !.readerIndex_ = @ + len]
retrieve_resetsAlways(b, len) == retrieveAll(b)
retrieve(b, len) ==
    IF len < readableBytes(b) THEN [b EXCEPT !.readerIndex_ = @ + len]
                              ELSE retrieveAll(b)

\* readFd(): readv() fills the writable part, then extraBuf, of which the
\* rest is appended - to a buffer that is full by then.
MaxRead(b) == writableBytes(b) + ExtraSize
ReadFits(b, data) == Len(data) <= writableBytes(b)
readFd(b, data) == append(b, data)

\* The indexes are in order and within buf_, and an empty buffer has all its
\* space back.
BufferOK(b) ==
    /\ kCheapPrepend <= b.readerIndex_ /\ b.readerIndex_ <= b.writerIndex_
    /\ b.writerIndex_ <= Size
    /\ readableBytes(b) = 0 => writableBytes(b) = kInitialSize
=============================================================================
