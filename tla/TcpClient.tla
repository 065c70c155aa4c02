------------------------------ MODULE TcpClient ------------------------------
(***************************************************************************)
(* Connector and TcpClient (src/CEventLoop): a client opens a connection   *)
(* with a non-blocking connect().  While it is under way the connector     *)
(* owns a channel that waits for POLLOUT; when the event comes the channel *)
(* is taken out of the poller in its own handler and is destroyed later,   *)
(* by a functor that resets channel_ - whatever channel_ then holds.  The  *)
(* socket is handed to a TcpConnection, which the client keeps in          *)
(* connection_.                                                            *)
(*                                                                         *)
(* start() may be called from any thread and from the client's callbacks,  *)
(* again too.  The n-th call of connect() makes socket n and channel n.    *)
(* Once a channel has been destroyed that a poller still points to, the    *)
(* program's behaviour is undefined and the model stops.                   *)
(***************************************************************************)
EXTENDS Naturals, Sequences

CONSTANT MaxStarts     \* bound: calls of start()

ASSUME StartsAssumption == MaxStarts \in Nat \ {0}

Attempts == 1 .. MaxStarts
None == 0              \* a null channel_ or connection_

VARIABLES
    connect_, state_,  \* Connector
    channel_,          \* the attempt whose channel it owns, or None
    connection_,       \* TcpClient: the attempt whose connection it owns
    pending, batch,    \* the loop's pendingFunctors_, and what is left to
                       \* run of the functors swapped out
    quit_,             \* of the loop
    starts,            \* calls of start() so far
    attempts,          \* calls of connect() so far
    chan,              \* the connector's channels, see NoChannel
    sock,              \* the sockets, by what a handler would find
    conn,              \* the connections, see NoConn
    overlapped         \* history: connect() ran while the client still had
                       \* the channel or the connection of an earlier call

connectorVars == <<connect_, state_, channel_>>
loopVars == <<pending, batch, quit_>>
vars == <<connectorVars, connection_, loopVars, starts, attempts, chan,
          sock, conn, overlapped>>

NoChannel == [exists |-> FALSE, registered |-> FALSE]
NoConn == [exists |-> FALSE, registered |-> FALSE, state_ |-> "Disconnected"]

Init ==
    /\ connect_ = FALSE /\ state_ = "Disconnected"
    /\ channel_ = None /\ connection_ = None
    /\ pending = <<>> /\ batch = <<>> /\ quit_ = FALSE
    /\ starts = 0 /\ attempts = 0
    /\ chan = [a \in Attempts |-> NoChannel]
    /\ sock = [a \in Attempts |-> "none"]
    /\ conn = [a \in Attempts |-> NoConn]
    /\ overlapped = FALSE

\* A poller holds a pointer to a channel that was destroyed.
Dangling ==
    \/ \E a \in Attempts : chan[a].registered /\ ~chan[a].exists
    \/ \E a \in Attempts : conn[a].registered /\ ~conn[a].exists

\* The loop thread is between handlers and functors.
AtRest == batch = <<>> /\ ~quit_ /\ ~Dangling

-----------------------------------------------------------------------------
(* Connector::connect(), in the loop thread, on the fields as the caller   *)
(* left them: k is a record of the fields, the poller and the sockets.     *)

\* unique_ptr::reset(): the old channel, if any, is destroyed.
Reset_dangles(k) ==
    IF k.channel_ = None THEN k
    ELSE [k EXCEPT !.chan[k.channel_].exists = FALSE]
Reset(k) ==
    IF k.channel_ = None THEN k
    ELSE [k EXCEPT !.chan[k.channel_].exists = FALSE, !.channel_ = None]

\* connecting(): a new channel for socket a, waiting for POLLOUT.
Connecting(k, a) ==
    [Reset(k) EXCEPT !.channel_ = a, !.state_ = "Connecting",
                     !.chan[a] = [exists |-> TRUE, registered |-> TRUE],
                     !.sock[a] = "connecting"]

\* retry(): close the socket; nothing is retried.
Retry_leaks(k, a) == [k EXCEPT !.state_ = "Disconnected"]
Retry(k, a) == [k EXCEPT !.sock[a] = "closed", !.state_ = "Disconnected"]

\* What ::connect() may return, and the branch of the switch for it.
Connects(k, a) ==
    {Connecting(k, a),                         \* 0, EINPROGRESS, ...
     Retry(k, a),                              \* ECONNREFUSED, ...
     [k EXCEPT !.sock[a] = "closed"]}          \* EACCES, ..., default

\* startInLoop().
StartsInLoop(k, a) == IF k.connect_ THEN Connects(k, a) ELSE {k}

Fields == [connect_ |-> connect_, channel_ |-> channel_, state_ |-> state_,
           chan |-> chan, sock |-> sock, pending |-> pending]
Assign(k) ==
    /\ connect_' = k.connect_ /\ channel_' = k.channel_
    /\ state_' = k.state_
    /\ chan' = k.chan /\ sock' = k.sock /\ pending' = k.pending

\* startInLoop() runs with the fields k, and connection_ as given.
RunStart(k, owner) ==
    /\ attempts' = attempts + 1
    /\ \E r \in StartsInLoop(k, attempts + 1) : Assign(r)
    /\ overlapped' = (overlapped \/ k.channel_ # None \/ owner # None)

-----------------------------------------------------------------------------
(* start() and stop(), which any thread may call.                          *)

\* start() from another thread, or from the loop thread between handlers
\* (before loop(), as in the examples): runInLoop() queues startInLoop() or
\* runs it.
StartElsewhere ==
    /\ ~quit_ /\ ~Dangling
    /\ starts < MaxStarts
    /\ starts' = starts + 1
    /\ connect_' = TRUE
    /\ pending' = Append(pending, "startInLoop")
    /\ UNCHANGED <<state_, channel_, connection_, batch, quit_, attempts,
                   chan, sock, conn, overlapped>>

StartHere ==
    /\ AtRest
    /\ starts < MaxStarts
    /\ starts' = starts + 1
    /\ RunStart([Fields EXCEPT !.connect_ = TRUE], connection_)
    /\ UNCHANGED <<connection_, batch, quit_, conn>>

\* TcpClient::stop().  A second call while one is queued adds nothing.
Stop ==
    /\ ~quit_ /\ ~Dangling
    /\ "quit" \notin {pending[i] : i \in DOMAIN pending}
    /\ pending' = Append(pending, "quit")
    /\ UNCHANGED <<connectorVars, connection_, batch, quit_, starts,
                   attempts, chan, sock, conn, overlapped>>

-----------------------------------------------------------------------------
(* Handlers.                                                               *)

\* removeAndResetChannel(): out of the poller; the reset is queued.
RemoveAndResetChannel_now(k) ==
    Reset([k EXCEPT !.chan[k.channel_].registered = FALSE])
RemoveAndResetChannel_unregistered(k) ==
    [k EXCEPT !.pending = Append(@, "resetChannel")]
RemoveAndResetChannel_keepsChannel(k) ==
    [k EXCEPT !.chan[k.channel_].registered = FALSE]
RemoveAndResetChannel(k) ==
    [k EXCEPT !.chan[k.channel_].registered = FALSE,
              !.pending = Append(@, "resetChannel")]

\* connection_ = connPtr drops the last reference to an earlier connection;
\* then connectEstablished().
Replaced(a) ==
    [c \in Attempts |->
        IF c = a
        THEN [exists |-> TRUE, registered |-> TRUE, state_ |-> "Connected"]
        ELSE IF c = connection_ THEN [conn[c] EXCEPT !.exists = FALSE]
        ELSE conn[c]]

\* getSocketError() and IsSelfConnect(), when the attempt has ended.
Failed(a) == sock[a] \in {"error", "self"}

\* handleWrite() of the channel of attempt a: the outcome is an error, a
\* connection of the socket to itself, or a connection, of which the
\* client's callback learns - and may call start() again.  connect_ is never
\* reset, since stop() is empty: the branch for it is never taken.
HandleWrite(a) ==
    LET k == RemoveAndResetChannel(Fields)
    IN  /\ AtRest
        /\ chan[a].registered /\ (Failed(a) \/ sock[a] = "connected")
        /\ state_ = "Connecting"
        /\ \/ /\ Failed(a)
              /\ Assign(Retry(k, a))
              /\ UNCHANGED <<connection_, starts, attempts, conn, overlapped>>
           \/ /\ sock[a] = "connected" /\ connect_
              /\ connection_' = a
              /\ conn' = Replaced(a)
              /\ \/ /\ Assign([k EXCEPT !.state_ = "Connected"])
                    /\ UNCHANGED <<starts, attempts, overlapped>>
                 \/ /\ starts < MaxStarts
                    /\ starts' = starts + 1
                    /\ RunStart([k EXCEPT !.state_ = "Connected",
                                          !.connect_ = TRUE], a)
        /\ UNCHANGED <<batch, quit_>>

\* handleWrite() when another attempt has changed state_: nothing, and the
\* channel stays registered.
HandleWriteIgnored(a) ==
    /\ AtRest
    /\ chan[a].registered /\ (Failed(a) \/ sock[a] = "connected")
    /\ state_ # "Connecting"
    /\ UNCHANGED vars

\* handleClose() of the connection: it stays registered, with no events, and
\* closeCallback_ may stop the loop.  TcpClient never destroys it.
HandleClose(a) ==
    /\ AtRest
    /\ conn[a].registered /\ sock[a] = "peerClosed"
    /\ conn' = [conn EXCEPT ![a].state_ = "Disconnected"]
    /\ \/ UNCHANGED pending
       \/ /\ "quit" \notin {pending[i] : i \in DOMAIN pending}
          /\ pending' = Append(pending, "quit")
    /\ UNCHANGED <<connectorVars, connection_, batch, quit_, starts,
                   attempts, chan, sock, overlapped>>

-----------------------------------------------------------------------------
(* The kernel.                                                             *)

\* The connection attempt of socket a ends.
Resolve(a) ==
    /\ ~Dangling
    /\ sock[a] = "connecting"
    /\ \E r \in {"error", "self", "connected"} :
          sock' = [sock EXCEPT ![a] = r]
    /\ UNCHANGED <<connectorVars, connection_, loopVars, starts, attempts,
                   chan, conn, overlapped>>

PeerCloses(a) ==
    /\ ~Dangling
    /\ conn[a].exists /\ sock[a] = "connected"
    /\ sock' = [sock EXCEPT ![a] = "peerClosed"]
    /\ UNCHANGED <<connectorVars, connection_, loopVars, starts, attempts,
                   chan, conn, overlapped>>

-----------------------------------------------------------------------------
(* Functors.                                                               *)

SwapFunctors ==
    /\ AtRest
    /\ pending # <<>>
    /\ batch' = pending /\ pending' = <<>>
    /\ UNCHANGED <<connectorVars, connection_, quit_, starts, attempts,
                   chan, sock, conn, overlapped>>

RunFunctor ==
    /\ batch # <<>> /\ ~Dangling
    /\ batch' = Tail(batch)
    /\ \/ /\ Head(batch) = "startInLoop"
          /\ RunStart(Fields, connection_)
          /\ UNCHANGED quit_
       \/ /\ Head(batch) = "resetChannel"
          /\ Assign(Reset(Fields))
          /\ UNCHANGED <<quit_, attempts, overlapped>>
       \/ /\ Head(batch) = "quit"
          /\ quit_' = TRUE
          /\ UNCHANGED <<connectorVars, pending, attempts, chan, sock,
                         overlapped>>
    /\ UNCHANGED <<connection_, starts, conn>>

-----------------------------------------------------------------------------

LoopStep ==
    \/ SwapFunctors \/ RunFunctor
    \/ \E a \in Attempts : HandleWrite(a) \/ HandleClose(a)

Next ==
    \/ StartElsewhere \/ StartHere \/ Stop
    \/ \E a \in Attempts :
          Resolve(a) \/ PeerCloses(a) \/ HandleWriteIgnored(a)
    \/ LoopStep

Spec == Init /\ [][Next]_vars

(* The loop keeps handling events and functors (EventLoop), POLLOUT of a   *)
(* connecting channel in particular, and connection attempts end.          *)
Fairness ==
    /\ WF_vars(SwapFunctors \/ RunFunctor)
    /\ \A a \in Attempts : WF_vars(Resolve(a)) /\ SF_vars(HandleWrite(a))

FairSpec == Spec /\ Fairness

-----------------------------------------------------------------------------
(* Safety.                                                                 *)

\* Types; and the owning pointers point to what exists.
StateOK ==
    /\ connect_ \in BOOLEAN /\ quit_ \in BOOLEAN /\ overlapped \in BOOLEAN
    /\ state_ \in {"Disconnected", "Connecting", "Connected"}
    /\ channel_ \in Attempts \cup {None}
    /\ connection_ \in Attempts \cup {None}
    /\ pending \in Seq({"startInLoop", "resetChannel", "quit"})
    /\ batch \in Seq({"startInLoop", "resetChannel", "quit"})
    /\ starts \in 0 .. MaxStarts /\ attempts \in 0 .. starts
    /\ chan \in [Attempts -> [exists : BOOLEAN, registered : BOOLEAN]]
    /\ sock \in [Attempts -> {"none", "connecting", "error", "self",
                              "connected", "peerClosed", "closed"}]
    /\ conn \in [Attempts -> [exists : BOOLEAN, registered : BOOLEAN,
                              state_ : {"Disconnected", "Connected"}]]
    /\ channel_ # None => chan[channel_].exists
    /\ connection_ # None => conn[connection_].exists

(* A channel or a connection is destroyed while a poller points to it only *)
(* if start() was carried out while the client still had the channel or    *)
(* the connection of an earlier start().  In particular the queued         *)
(* channel_.reset() of removeAndResetChannel() never hits a newer channel  *)
(* when start() waits for the failure of the earlier one to be handled.    *)
DanglingOnlyByOverlap == Dangling => overlapped

(* Likewise, no socket is lost: every socket made by connect() is closed,  *)
(* or its channel or its connection is registered with the poller; and no  *)
(* channel is polled whose socket was closed.  An attempt that is under    *)
(* way is known to the connector, by channel_ and state_.                  *)
SocketsAccounted ==
    overlapped \/ \A a \in Attempts :
        /\ sock[a] \notin {"none", "closed"} =>
              chan[a].registered # conn[a].registered
        /\ sock[a] \in {"none", "closed"} =>
              ~chan[a].registered /\ ~conn[a].registered
        /\ chan[a].registered => channel_ = a /\ state_ = "Connecting"

(* Channel::handleEvent() goes on using its channel after the callback: no *)
(* channel is destroyed inside its own handleWrite(), unless the callback  *)
(* of the new connection calls start().                                    *)
AliveInHandler ==
    [][\A a \in Attempts : HandleWrite(a) => chan'[a].exists \/ overlapped']_vars

-----------------------------------------------------------------------------
(* Liveness.                                                               *)

(* Under FairSpec: an attempt that is under way ends, by a connection or a *)
(* closed socket, its channel out of the poller and destroyed, unless the  *)
(* loop is stopped or start() overlaps it.                                 *)
AttemptEnds ==
    \A a \in Attempts :
        chan[a].registered ~> (~chan[a].exists \/ quit_ \/ overlapped)
=============================================================================
