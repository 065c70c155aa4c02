------------------------------ MODULE TcpServer ------------------------------
(***************************************************************************)
(* TcpServer and TcpConnection (src/CEventLoop): the life of connections   *)
(* that the acceptor's loop creates and removes while a pool of io loops   *)
(* serves them.  Every hand-over between the threads is a functor queued   *)
(* on the other loop; a connection lives as long as somebody holds a       *)
(* TcpConnectionPtr to it: connections_, a queued functor, or the batch of *)
(* functors that a loop is running, which is cleared as a whole.           *)
(*                                                                         *)
(* A loop is taken here for what EventLoop.tla shows it to be: it handles  *)
(* events of its own channels, one at a time, and from time to time swaps  *)
(* its queue out and runs all of it.  The user's messageCallback_ may call *)
(* shutdown() on its connection; it keeps no TcpConnectionPtr.             *)
(***************************************************************************)
EXTENDS Naturals, Sequences, FiniteSets

CONSTANTS
    MaxPool,      \* bound: numThreads_ of the pool
    None,         \* no connection, no loop
    MaxConns,     \* bound: accepted connections
    MaxDowns      \* bound: handleClose() calls per connection

ASSUME PoolAssumption == MaxPool \in Nat
ASSUME NoneAssumption == None \notin Nat
ASSUME BoundAssumption == MaxConns \in Nat /\ MaxDowns \in Nat \ {0}

Base  == 0                     \* loop_, the acceptor loop
Loops == Base .. MaxPool
Conns == 1 .. MaxConns         \* connections by their id

VARIABLES
    started_,
    numThreads_,       \* the size of the pool, set before start()
    nextConnId_, next_,
    connections_,      \* the connections in the map
    inserting,         \* newConnection()'s local conn, before the insertion
    pending, batch,    \* each loop's pendingFunctors_ and functors
    index,             \* how many functors of the batch have been run
    quit_,             \* of the acceptor loop
    ioLoop,            \* ioLoop_ of each connection
    conn,              \* the other fields of each connection, see NewConn
    peer, unread,      \* the socket: the peer's end, data to be read
    wrShut,            \* the socket: shutdown(SHUT_WR) was called
    destroyedBy        \* the loop whose thread ran ~TcpConnection()

acceptVars == <<started_, numThreads_, nextConnId_, next_, ioLoop>>
mapVars    == <<connections_, inserting>>
loopVars   == <<pending, batch, index, quit_>>
sockVars   == <<peer, unread, wrShut>>
vars == <<acceptVars, mapVars, loopVars, conn, sockVars, destroyedBy>>

\* A connection after its constructor: not connected, channel unregistered.
\* told is what connectionCallback_ has reported, downs how often it
\* reported the end.
NewConn == [state_ |-> "Disconnected", registered |-> FALSE,
            reading |-> FALSE, fdOpen |-> TRUE, told |-> "nothing",
            downs |-> 0]

Init ==
    /\ started_ = FALSE /\ nextConnId_ = 1 /\ next_ = 0
    /\ numThreads_ \in 0 .. MaxPool
    /\ connections_ = {} /\ inserting = None
    /\ pending = [l \in Loops |-> <<>>] /\ batch = [l \in Loops |-> <<>>]
    /\ index = [l \in Loops |-> 0] /\ quit_ = FALSE
    /\ ioLoop = [c \in Conns |-> None]
    /\ conn = [c \in Conns |-> NewConn]
    /\ peer = [c \in Conns |-> "none"]
    /\ unread = [c \in Conns |-> FALSE] /\ wrShut = [c \in Conns |-> FALSE]
    /\ destroyedBy = [c \in Conns |-> None]

Pool == 1 .. numThreads_       \* loops_

Functor(op, c) == [op |-> op, conn |-> c]

\* Loop l's thread is between functors and handlers: it may handle an event
\* or swap its queue.
AtRest(l) ==
    /\ batch[l] = <<>>
    /\ l = Base => inserting = None /\ ~quit_

-----------------------------------------------------------------------------
(* What the member functions of TcpConnection do to it.                    *)

\* connectEstablished(): enableReading(), Connected, connectionCallback_.
Established(k) ==
    [k EXCEPT !.registered = TRUE, !.reading = TRUE, !.state_ = "Connected",
              !.told = "up"]

\* handleClose(): Disconnected, disableAll(), connectionCallback_.  The
\* channel stays registered, with no events.
Closed_keepsState(k) ==
    [k EXCEPT !.reading = FALSE, !.told = "down", !.downs = @ + 1]
Closed(k) ==
    [k EXCEPT !.state_ = "Disconnected", !.reading = FALSE, !.told = "down",
              !.downs = @ + 1]

\* connectDestroyed(): the same and Close() if Connected; channel_->remove().
Destroyed_keepsChannel(k) == k
Destroyed(k) ==
    IF k.state_ = "Connected"
    THEN [Closed(k) EXCEPT !.fdOpen = FALSE, !.registered = FALSE]
    ELSE [k EXCEPT !.registered = FALSE]

-----------------------------------------------------------------------------
(* The acceptor loop.                                                      *)

\* start(), in the acceptor loop's thread: once, start the pool and listen.
Start ==
    /\ AtRest(Base)
    /\ ~started_
    /\ started_' = TRUE
    /\ UNCHANGED <<numThreads_, nextConnId_, next_, ioLoop, mapVars,
                   loopVars, conn, sockVars, destroyedBy>>

\* stop(), from any thread: queue quit() on the acceptor loop.  A second
\* call while the first is queued adds nothing and is left out.
Stop ==
    /\ ~quit_
    /\ \A i \in DOMAIN pending[Base] : pending[Base][i].op # "quit"
    /\ pending' = [pending EXCEPT ![Base] = Append(@, Functor("quit", None))]
    /\ UNCHANGED <<acceptVars, mapVars, batch, index, quit_, conn, sockVars,
                   destroyedBy>>

\* getNextLoop(): the acceptor loop itself, or the pool's loops in turn.
NextLoop == IF numThreads_ = 0 THEN Base ELSE next_ + 1
NextIndex_wrapsLate ==
    IF numThreads_ = 0 \/ next_ + 1 > numThreads_ THEN 0 ELSE next_ + 1
NextIndex ==
    IF numThreads_ = 0 \/ next_ + 1 >= numThreads_ THEN 0 ELSE next_ + 1

\* newConnection(), up to the insertion: make the connection and have its
\* loop run connectEstablished(), at once if that is the acceptor loop.
NewConnection_enablesReading ==
    LET c == nextConnId_
    IN  /\ AtRest(Base)
        /\ started_ /\ nextConnId_ <= MaxConns
        /\ nextConnId_' = nextConnId_ + 1
        /\ next_' = NextIndex
        /\ ioLoop' = [ioLoop EXCEPT ![c] = NextLoop]
        /\ peer' = [peer EXCEPT ![c] = "open"]
        /\ inserting' = c
        /\ pending' = [pending EXCEPT
                         ![NextLoop] = Append(@, Functor("establish", c))]
        /\ conn' = [conn EXCEPT ![c].registered = TRUE, ![c].reading = TRUE]
        /\ UNCHANGED <<started_, numThreads_, connections_, batch, index,
                       quit_, unread, wrShut, destroyedBy>>
NewConnection ==
    LET c == nextConnId_
    IN  /\ AtRest(Base)
        /\ started_ /\ nextConnId_ <= MaxConns
        /\ nextConnId_' = nextConnId_ + 1
        /\ next_' = NextIndex
        /\ ioLoop' = [ioLoop EXCEPT ![c] = NextLoop]
        /\ peer' = [peer EXCEPT ![c] = "open"]
        /\ inserting' = c
        /\ IF NextLoop = Base
           THEN /\ conn' = [conn EXCEPT ![c] = Established(@)]
                /\ UNCHANGED pending
           ELSE /\ pending' = [pending EXCEPT
                      ![NextLoop] = Append(@, Functor("establish", c))]
                /\ UNCHANGED conn
        /\ UNCHANGED <<started_, numThreads_, connections_, batch, index,
                       quit_, unread, wrShut, destroyedBy>>

\* connections_[name] = conn, the end of newConnection().
InsertConnection ==
    /\ inserting # None
    /\ connections_' = connections_ \cup {inserting}
    /\ inserting' = None
    /\ UNCHANGED <<acceptVars, loopVars, conn, sockVars, destroyedBy>>

-----------------------------------------------------------------------------
(* The sockets.                                                            *)

\* Once the connection is destroyed nobody looks at its socket again, and
\* the model leaves it alone.
PeerSends(c) ==
    /\ peer[c] = "open" /\ destroyedBy[c] = None
    /\ unread' = [unread EXCEPT ![c] = TRUE]
    /\ UNCHANGED <<acceptVars, mapVars, loopVars, conn, peer, wrShut,
                   destroyedBy>>

PeerCloses(c) ==
    /\ destroyedBy[c] = None
    /\ \/ peer[c] = "open" /\ peer' = [peer EXCEPT ![c] = "fin"]
       \/ peer[c] \in {"open", "fin"} /\ peer' = [peer EXCEPT ![c] = "rst"]
    /\ UNCHANGED <<acceptVars, mapVars, loopVars, conn, unread, wrShut,
                   destroyedBy>>

\* What poll() reports for a registered channel.  POLLHUP is reported even
\* for a channel with no events.  "reset" is a reset whose error was read.
PollIn(c)  == conn[c].reading /\ (unread[c] \/ peer[c] # "open")
PollHup(c) == peer[c] \in {"rst", "reset"} \/ (peer[c] = "fin" /\ wrShut[c])

-----------------------------------------------------------------------------
(* The io loop of a connection: Channel::handleEvent().                    *)

\* closeCallback_: removeConnectionInLoop() queues removeConnection() on the
\* acceptor loop.
HandleClose_removesDirectly(c) ==
    /\ conn[c].downs < MaxDowns
    /\ conn' = [conn EXCEPT ![c] = Closed(@)]
    /\ connections_' = connections_ \ {c}
    /\ pending' = [pending EXCEPT
                     ![ioLoop[c]] = Append(@, Functor("destroy", c))]
HandleClose(c) ==
    /\ conn[c].downs < MaxDowns
    /\ conn' = [conn EXCEPT ![c] = Closed(@)]
    /\ pending' = [pending EXCEPT
                     ![Base] = Append(@, Functor("remove", c))]
    /\ UNCHANGED connections_

\* The loop of connection c is in a state to handle an event of its channel.
Polled(c) == conn[c].registered /\ AtRest(ioLoop[c])

\* handleRead() with data: messageCallback_, which may call shutdown().
HandleMessage(c) ==
    /\ Polled(c) /\ PollIn(c)
    /\ unread[c]
    /\ unread' = [unread EXCEPT ![c] = FALSE]
    /\ \E shut \in BOOLEAN : wrShut' = [wrShut EXCEPT ![c] = @ \/ shut]
    /\ UNCHANGED <<acceptVars, mapVars, loopVars, conn, peer, destroyedBy>>

\* handleRead() with an error, which it ignores: the socket was reset.
HandleReadError(c) ==
    /\ Polled(c) /\ PollIn(c)
    /\ ~unread[c] /\ peer[c] = "rst"
    /\ peer' = [peer EXCEPT ![c] = "reset"]
    /\ UNCHANGED <<acceptVars, mapVars, loopVars, conn, unread, wrShut,
                   destroyedBy>>

\* handleRead() at the end of the stream: handleClose().
HandleEndOfStream(c) ==
    /\ Polled(c) /\ PollIn(c)
    /\ ~unread[c] /\ peer[c] \in {"fin", "reset"}
    /\ HandleClose(c)
    /\ UNCHANGED <<acceptVars, inserting, batch, index, quit_, sockVars,
                   destroyedBy>>

\* POLLHUP without POLLIN: handleClose(), perhaps again.
HandleHup(c) ==
    /\ Polled(c) /\ PollHup(c) /\ ~PollIn(c)
    /\ HandleClose(c)
    /\ UNCHANGED <<acceptVars, inserting, batch, index, quit_, sockVars,
                   destroyedBy>>

-----------------------------------------------------------------------------
(* Functors.                                                               *)

SwapFunctors(l) ==
    /\ AtRest(l)
    /\ pending[l] # <<>>
    /\ batch' = [batch EXCEPT ![l] = pending[l]]
    /\ pending' = [pending EXCEPT ![l] = <<>>]
    /\ UNCHANGED <<acceptVars, mapVars, index, quit_, conn, sockVars,
                   destroyedBy>>

\* removeConnection(): queue connectDestroyed() on the connection's loop,
\* and erase the connection.
RemoveConnection_keepsEntry(c) ==
    /\ pending' = [pending EXCEPT
                     ![ioLoop[c]] = Append(@, Functor("destroy", c))]
    /\ UNCHANGED <<connections_, conn, quit_>>
RemoveConnection(c) ==
    /\ pending' = [pending EXCEPT
                     ![ioLoop[c]] = Append(@, Functor("destroy", c))]
    /\ connections_' = connections_ \ {c}
    /\ UNCHANGED <<conn, quit_>>

RunFunctor(l) ==
    /\ index[l] < Len(batch[l])
    /\ index' = [index EXCEPT ![l] = @ + 1]
    /\ LET f == batch[l][index[l] + 1]
       IN \/ /\ f.op = "establish"
             /\ conn' = [conn EXCEPT ![f.conn] = Established(@)]
             /\ UNCHANGED <<pending, connections_, quit_>>
          \/ /\ f.op = "remove"
             /\ RemoveConnection(f.conn)
          \/ /\ f.op = "destroy"
             /\ conn' = [conn EXCEPT ![f.conn] = Destroyed(@)]
             /\ UNCHANGED <<pending, connections_, quit_>>
          \/ /\ f.op = "quit"
             /\ quit_' = TRUE
             /\ UNCHANGED <<pending, connections_, conn>>
    /\ UNCHANGED <<acceptVars, inserting, batch, sockVars, destroyedBy>>

\* The connections that somebody holds, not counting the batch of loop l.
Mentioned(s) == {s[i].conn : i \in DOMAIN s} \cap Conns
HeldOutside(l) ==
    connections_ \cup {inserting}
    \cup (UNION {Mentioned(pending[m]) : m \in Loops})
    \cup (UNION {Mentioned(batch[m]) : m \in Loops \ {l}})

\* The batch is cleared, and with it the last references to some connections.
EndFunctors(l) ==
    /\ batch[l] # <<>> /\ index[l] = Len(batch[l])
    /\ batch' = [batch EXCEPT ![l] = <<>>]
    /\ index' = [index EXCEPT ![l] = 0]
    /\ destroyedBy' = [c \in Conns |->
          IF c \in Mentioned(batch[l]) \ HeldOutside(l)
          THEN l ELSE destroyedBy[c]]
    /\ UNCHANGED <<acceptVars, mapVars, pending, quit_, conn, sockVars>>

-----------------------------------------------------------------------------

HandleEvent(c) ==
    \/ HandleMessage(c) \/ HandleReadError(c)
    \/ HandleEndOfStream(c) \/ HandleHup(c)

Next ==
    \/ Start \/ Stop \/ NewConnection \/ InsertConnection
    \/ \E c \in Conns : PeerSends(c) \/ PeerCloses(c) \/ HandleEvent(c)
    \/ \E l \in Loops : SwapFunctors(l) \/ RunFunctor(l) \/ EndFunctors(l)

Spec == Init /\ [][Next]_vars

(* Every loop thread keeps going: newConnection() returns, what poll()     *)
(* reports is handled, queues are swapped out (EventLoop shows that a      *)
(* queued functor wakes the loop up) and batches are run to the end.       *)
Fairness ==
    /\ WF_vars(InsertConnection)
    /\ \A c \in Conns : WF_vars(HandleEvent(c))
    /\ \A l \in Loops :
          WF_vars(SwapFunctors(l) \/ RunFunctor(l) \/ EndFunctors(l))

FairSpec == Spec /\ Fairness

-----------------------------------------------------------------------------
(* Safety.                                                                 *)

\* Functors that are still to be run, of all loops.
Waiting(op, c) ==
    \E l \in Loops :
        \/ \E i \in DOMAIN pending[l] : pending[l][i] = Functor(op, c)
        \/ \E i \in DOMAIN batch[l] :
              i > index[l] /\ batch[l][i] = Functor(op, c)

(* A connection is never destroyed while its channel is registered with    *)
(* the poller of its loop, which would be left with a dangling Channel*,   *)
(* nor while it is Connected, when ~TcpConnection() calls shutdown() and   *)
(* aborts in a thread other than its loop's.                               *)
NoDanglingChannel ==
    \A c \in Conns : destroyedBy[c] # None =>
        ~conn[c].registered /\ conn[c].state_ = "Disconnected"

(* A connection that was reported down is leaving the map: it is out, or   *)
(* removeConnection() is queued for it.  In particular the insertion after *)
(* runInLoop() in newConnection() cannot put a dead connection into the    *)
(* map for good.                                                           *)
ClosedLeavesMap ==
    \A c \in Conns : conn[c].told = "down" =>
        c \notin connections_ \/ Waiting("remove", c)

(* connectDestroyed() never finds its connection Connected, so that its    *)
(* first branch is dead code: nobody ever closes the descriptor of a       *)
(* connection.                                                             *)
NeverDestroyedConnected ==
    \A c \in Conns :
        /\ Waiting("destroy", c) => conn[c].state_ = "Disconnected"
        /\ conn[c].fdOpen

\* How many connections loop l was given.
Share(l) == Cardinality({c \in Conns : ioLoop[c] = l})

(* The pool's loops get their connections in turn: getNextLoop() will take *)
(* a loop of the pool, the base loop only if there is none, and no loop of *)
(* the pool was given fewer connections.                                   *)
PoolBalanced ==
    /\ NextLoop \in (IF numThreads_ = 0 THEN {Base} ELSE Pool)
    /\ \A l \in Pool : Share(NextLoop) <= Share(l)

(* Callbacks of a connection come in order: messages only after it was     *)
(* reported up and before it is reported down, never up after down.        *)
CallbackOrder ==
    [][\A c \in Conns :
          /\ unread[c] /\ ~unread'[c] => conn[c].told = "up"
          /\ conn[c].told = "down" => conn'[c].told = "down"
          /\ conn'[c].downs > conn[c].downs => conn[c].told # "nothing"]_vars

(* What the comments on the destructor say: a connection is destroyed by   *)
(* the thread of the acceptor loop.                                        *)
DestructedByAcceptor ==
    \A c \in Conns : destroyedBy[c] \in {None, Base}

-----------------------------------------------------------------------------
(* Liveness.                                                               *)

(* Under FairSpec: when the peer has closed or reset a connection, it is   *)
(* destroyed in the end, unless the server is stopped.                     *)
ClosedIsDestroyed ==
    \A c \in Conns :
        peer[c] \notin {"none", "open"} ~> (destroyedBy[c] # None \/ quit_)
=============================================================================
