------------------------------ MODULE TcpStream ------------------------------
(***************************************************************************)
(* The data path of a TcpConnection (src/CEventLoop/TcpConnection.cc): its *)
(* two Buffers between the socket and the user's code in the io loop's     *)
(* thread.  Bytes are numbered in the order in which the peer sends them,  *)
(* and in the order in which the user gives them to send().                *)
(*                                                                         *)
(* The model stops when the program does (fault): when an assertion of     *)
(* Buffer fails, when an empty std::function is called, or at a write to a *)
(* socket that was shut down, since nobody ignores SIGPIPE.                *)
(***************************************************************************)
EXTENDS Buffer

CONSTANTS
    highWaterMark_,
    MaxIn, MaxOut,     \* bounds: bytes sent by the peer, given to send()
    MaxMessage         \* bound: length of one message

ASSUME BoundAssumption ==
    /\ MaxIn \in Nat /\ MaxOut \in Nat /\ MaxMessage \in Nat
    /\ highWaterMark_ > kInitialSize

VARIABLES
    state_, inputBuffer_, outputBuffer_,
    reading, writing,         \* the events_ of channel_
    highWaterMarkCallback_,   \* it is set
    inMessage,                \* the io loop is inside messageCallback_
    arriving, eof,            \* the socket: bytes to be read, and the FIN
    wrShut,                   \* the socket: shutdown(SHUT_WR)
    fault,                    \* how the program ended, or "none"
    arrived, consumed,        \* history: bytes the peer sent; the user read
    given, wire,              \* history: bytes given to send(); on the wire
    intact,                   \* history: no write() has failed, no send()
                              \* was called in another thread
    strayOut                  \* history: events_ held POLLOUT at first

inVars  == <<inputBuffer_, inMessage, arriving, arrived, consumed>>
outVars == <<outputBuffer_, writing, given, wire, intact, strayOut>>
vars == <<state_, reading, highWaterMarkCallback_, inVars, outVars, eof,
          wrShut, fault>>

\* The connection after connectEstablished().  events_ of a new Channel is not
\* initialised, and enableReading() only adds to it: it may ask for POLLOUT.
Init ==
    /\ state_ = "Connected"
    /\ inputBuffer_ = NewBuffer /\ outputBuffer_ = NewBuffer
    /\ reading = TRUE /\ writing \in BOOLEAN /\ strayOut = writing
    /\ highWaterMarkCallback_ \in BOOLEAN
    /\ inMessage = FALSE
    /\ arriving = <<>> /\ eof = FALSE /\ wrShut = FALSE
    /\ fault = "none"
    /\ arrived = 0 /\ consumed = <<>> /\ given = 0 /\ wire = <<>>
    /\ intact = TRUE

\* The bytes m+1 .. m+n.
Bytes(m, n) == [i \in 1 .. n |-> m + i]

-----------------------------------------------------------------------------
(* Input.                                                                  *)

PeerSends ==
    /\ fault = "none" /\ ~eof
    /\ arrived < MaxIn
    /\ arrived' = arrived + 1
    /\ arriving' = Append(arriving, arrived + 1)
    /\ UNCHANGED <<state_, reading, highWaterMarkCallback_, inputBuffer_,
                   inMessage, consumed, outVars, eof, wrShut, fault>>

PeerCloses ==
    /\ fault = "none" /\ ~eof
    /\ eof' = TRUE
    /\ UNCHANGED <<state_, reading, highWaterMarkCallback_, inVars, outVars,
                   wrShut, fault>>

\* handleRead() with n > 0 bytes.
HandleRead ==
    /\ fault = "none" /\ reading /\ ~inMessage
    /\ \E n \in 1 .. Len(arriving) :
          LET data == SubSeq(arriving, 1, n)
          IN /\ n <= MaxRead(inputBuffer_)
             /\ IF ReadFits(inputBuffer_, data)
                THEN /\ inputBuffer_' = readFd(inputBuffer_, data)
                     /\ inMessage' = TRUE
                     /\ UNCHANGED fault
                ELSE /\ fault' = "inputOverflow"
                     /\ UNCHANGED <<inputBuffer_, inMessage>>
             /\ arriving' = SubSeq(arriving, n + 1, Len(arriving))
    /\ UNCHANGED <<state_, reading, highWaterMarkCallback_, arrived,
                   consumed, outVars, eof, wrShut>>

\* messageCallback_ calls retrieve(), retrieveAsString(), retrieveAll() ...
UserRetrieves ==
    /\ fault = "none" /\ inMessage
    /\ \E len \in 1 .. readableBytes(inputBuffer_) :
          /\ consumed' = consumed \o SubSeq(Contents(inputBuffer_), 1, len)
          /\ inputBuffer_' = retrieve(inputBuffer_, len)
    /\ UNCHANGED <<state_, reading, highWaterMarkCallback_, inMessage,
                   arriving, arrived, outVars, eof, wrShut, fault>>

\* ... and returns, with or without having read everything.
UserReturns ==
    /\ fault = "none" /\ inMessage
    /\ inMessage' = FALSE
    /\ UNCHANGED <<state_, reading, highWaterMarkCallback_, inputBuffer_,
                   arriving, arrived, consumed, outVars, eof, wrShut, fault>>

\* handleRead() with n = 0: handleClose().
HandleClose ==
    /\ fault = "none" /\ reading /\ ~inMessage
    /\ arriving = <<>> /\ eof
    /\ state_' = "Disconnected"
    /\ reading' = FALSE /\ writing' = FALSE
    /\ UNCHANGED <<highWaterMarkCallback_, inVars, outputBuffer_, given,
                   wire, intact, strayOut, eof, wrShut, fault>>

-----------------------------------------------------------------------------
(* Output: user code in the io loop's thread calls sendInLoop(), or one of *)
(* the two send()s, with the next n bytes.                                 *)

\* append() to the output buffer, after highWaterMarkCallback_ if the mark is
\* passed, and enableWriting().
Buffered_silently(data) ==
    /\ outputBuffer_' = append(outputBuffer_, data)
    /\ UNCHANGED <<writing, fault>>
Buffered(data) ==
    LET oldLen == readableBytes(outputBuffer_)
        newLen == oldLen + Len(data)
    IN  IF newLen >= highWaterMark_ /\ oldLen < highWaterMark_
           /\ ~highWaterMarkCallback_
        THEN fault' = "noCallback" /\ UNCHANGED <<outputBuffer_, writing>>
        ELSE IF ~Fits(outputBuffer_, data)
        THEN fault' = "outputOverflow" /\ UNCHANGED <<outputBuffer_, writing>>
        ELSE /\ outputBuffer_' = append(outputBuffer_, data)
             /\ writing' = TRUE
             /\ UNCHANGED fault

\* What is appended after write() took n bytes, from data + n on; and after
\* it returned -1: as many bytes as were given, from data - 1 on.
Rest_fromStart(data, n) == SubSeq(data, 1, Len(data) - n)
Rest(data, n) == SubSeq(data, n + 1, Len(data))
RestAfterFailure(data) == <<Junk>> \o SubSeq(data, 1, Len(data) - 1)

\* sendInLoop() with an empty output buffer: write() takes some bytes ...
WriteSome(data) ==
    /\ readableBytes(outputBuffer_) = 0 /\ ~wrShut
    /\ \E n \in 1 .. Len(data) :
          /\ wire' = wire \o SubSeq(data, 1, n)
          /\ IF n = Len(data) THEN UNCHANGED <<outputBuffer_, writing, fault>>
                              ELSE Buffered(Rest(data, n))
    /\ UNCHANGED intact

\* ... or none (EAGAIN, ECONNRESET) ...
WriteFails(data) ==
    /\ readableBytes(outputBuffer_) = 0 /\ ~wrShut
    /\ Buffered(RestAfterFailure(data))
    /\ intact' = FALSE
    /\ UNCHANGED wire

\* ... or raises SIGPIPE, after shutdown().
WriteKills ==
    /\ readableBytes(outputBuffer_) = 0 /\ wrShut
    /\ fault' = "SIGPIPE"
    /\ UNCHANGED <<outputBuffer_, writing, wire, intact>>

\* sendInLoop() behind earlier output.
Queue(data) ==
    /\ readableBytes(outputBuffer_) > 0
    /\ Buffered(data)
    /\ UNCHANGED <<wire, intact>>

\* Disconnected: sendInLoop() gives up, and nothing counts as given.
SendInLoop ==
    /\ fault = "none" /\ state_ = "Connected"
    /\ \E n \in 1 .. MaxMessage :
          /\ given + n <= MaxOut
          /\ given' = given + n
          /\ LET data == Bytes(given, n)
             IN WriteSome(data) \/ WriteFails(data) \/ WriteKills \/ Queue(data)
    /\ UNCHANGED <<state_, reading, highWaterMarkCallback_, inVars, strayOut,
                   eof, wrShut>>

\* send(Buffer* ) in another thread: nothing is sent, and nobody is told.
SendElsewhere ==
    /\ fault = "none" /\ state_ = "Connected"
    /\ given < MaxOut
    /\ given' = given + 1
    /\ intact' = FALSE
    /\ UNCHANGED <<state_, reading, highWaterMarkCallback_, inVars,
                   outputBuffer_, writing, wire, strayOut, eof, wrShut, fault>>

\* shutdown(): at once, whatever the output buffer holds.
Shutdown ==
    /\ fault = "none"
    /\ wrShut' = TRUE
    /\ UNCHANGED <<state_, reading, highWaterMarkCallback_, inVars, outVars,
                   eof, fault>>

\* handleWrite() is empty: POLLOUT is reported again and again.
HandleWrite ==
    /\ fault = "none" /\ writing /\ ~inMessage
    /\ UNCHANGED vars

-----------------------------------------------------------------------------

Next ==
    \/ PeerSends \/ PeerCloses
    \/ HandleRead \/ UserRetrieves \/ UserReturns \/ HandleClose
    \/ SendInLoop \/ SendElsewhere \/ Shutdown \/ HandleWrite

Spec == Init /\ [][Next]_vars

-----------------------------------------------------------------------------

(* Both buffers keep their indexes in order, and get all their space back  *)
(* when they become empty: retrieve() resets them exactly then.            *)
BuffersOK == BufferOK(inputBuffer_) /\ BufferOK(outputBuffer_)

(* The user reads what the peer sent: the bytes read, in the buffer and    *)
(* still in the socket are the bytes sent, in order, whatever the sizes of *)
(* reads and of retrieve()s.                                               *)
InputIntact ==
    fault # "inputOverflow" =>
        consumed \o Contents(inputBuffer_) \o arriving = Bytes(0, arrived)

\* Nothing given to send() is lost or doubled on its way.
NothingLost ==
    intact /\ fault = "none" =>
        wire \o Contents(outputBuffer_) = Bytes(0, given)

\* Each byte on the wire was given to send(), after those before it.
WireInOrder ==
    \A i \in DOMAIN wire :
        wire[i] \in 1 .. given /\ \A j \in 1 .. i - 1 : wire[j] < wire[i]

(* What was given to send() is on the wire or in the output buffer, in     *)
(* order and once, across partial writes, as long as no write() fails and  *)
(* no other thread sends.  Even after these the wire only gets bytes that  *)
(* were given, in order: what a failed write() makes sendInLoop() append   *)
(* from data - 1 on stays in the output buffer.                            *)
OutputIntact == NothingLost /\ WireInOrder

(* A connected connection waits for POLLOUT exactly while it has output    *)
(* buffered, or always if its events_ held POLLOUT from the start.  Since  *)
(* handleWrite() is empty and sendInLoop() never writes past buffered      *)
(* output, it is stuck then: nothing more is written, and the output stays *)
(* in the buffer for good.                                                 *)
WritingStalls ==
    [][/\ state_ = "Connected" =>
             (writing <=> strayOut \/ readableBytes(outputBuffer_) > 0)
       /\ readableBytes(outputBuffer_) > 0 =>
             wire' = wire /\ readableBytes(outputBuffer_') > 0]_vars

(* Buffer::append() never gets more data than fits: the assertion in       *)
(* hasWritten().                                                           *)
AppendFits == fault \notin {"inputOverflow", "outputOverflow"}
=============================================================================
