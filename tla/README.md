# Verification of CEventLoop

CEventLoop (`src/CEventLoop`) is a C++17 network library of the reactor kind:
one `EventLoop` per thread around `::poll`, `Channel`s that dispatch the events
of a descriptor, and on top of them TCP servers and clients and a small HTTP
server with llhttp. This directory holds TLA+ modules of it, the TLC runs that
check them on small instances, and TLAPS proofs about every component for every
instance.

`PROJECT.json` lists the components, the runs, the hazards with the properties
that watch them, and for each definition the source lines it models. Source
names are kept (`pendingFunctors_`, `queueInLoop` as `QueueInLoop`, ...).
A definition `X_something` next to a definition `X` is `X` with a plausible
bug: it is never used by a specification, and `PROJECT.json` ("mutants") names
the property that fails when it takes the place of `X`.

## 1. Inventory

| component | state | operations | hard because |
|---|---|---|---|
| EventLoop | `quit_`, `looping_`, `mutex_`, `pendingFunctors_`, `callingPendingFunctors_`, the eventfd | `loop`, `queueInLoop`, `runInLoop`, `quit`, `wakeup`, `handleRead`, `doPendingFunctors` | other threads push and quit while the loop is on its way into `poll` |
| Poller, Channel | `pollfds_`, `channels_`; `fd_`, `events_`, `index_` | `updateChannel`, `removeChannel`, `poll`, `fillActiveChannels`, `handleEvent` | removal moves another channel's entry; handlers remove channels and reuse descriptors during dispatch |
| TcpServer | `connections_`, `nextConnId_`, `started_` | `start`, `stop`, `newConnection`, `removeConnectionInLoop`, `removeConnection` | a connection is shared by two loops; its removal crosses threads twice |
| TcpConnection | `state_`, its channel, two buffers | `connectEstablished`, `connectDestroyed`, `handleRead`, `handleClose`, `shutdown`, `send` | reference counted, destroyed by whichever thread is last; POLLHUP repeats; partial writes |
| EventLoopThread(Pool) | `loop_`, `cond_`; `loops_`, `next_` | `startLoop`, `threadFunc`; `start`, `quit`, `getNextLoop` | handshake by condition variable, an uninitialised `loop_`, join in the destructor |
| Acceptor | `acceptChannel_`, `idleFd_` | `listen`, `handleRead` | running out of descriptors while other threads open and close theirs |
| Connector, TcpClient | `connect_`, `state_`, `channel_`; `connection_` | `start`, `connect`, `handleWrite`, `retry`, `newConnection`, `stop` | destroys its channel through a queued functor; `start()` from any thread |
| Buffer | `buf_`, `readerIndex_`, `writerIndex_` | `append`, `retrieve`, `readFd` | a full buffer, the second `iovec` |
| HttpServer, HttpContext | `state_`, `request_` per connection | `onMessage`, `parseRequest`, `processRequestLine` | requests cut into reads anywhere |
| llhttp | `llhttp__internal_s` | `llhttp_execute`, `finish`, `pause`, `resume` | a generated machine of some hundred states, cut and paused anywhere, with flags and a length that outlive a message |
| TimerQueue, Timestamp | ordered set of timers, a timerfd | `addTimer`, `handleRead` | nothing uses it |
| Socket, SocketsOps, InetAddress | none | one system call each | - |
| Logging, Exception | none that matters | - | - |

How they interact: the only channel between threads is `queueInLoop`. The
acceptor loop calls `newConnection`, which queues `connectEstablished` on an io
loop; the io loop's `handleClose` queues `removeConnection` back, which queues
`connectDestroyed` on the io loop. Everything else (Poller, Channel,
TcpConnection) belongs to one loop thread and asserts so. Shared state between
threads is `pendingFunctors_` under `mutex_`, the eventfd, `quit_`, the
handshake of EventLoopThread, the process's descriptors, and the reference
counts of connections.

What makes each part correct:

* EventLoop: no functor and no quit is slept through; functors run once and in
  order.
* Poller: array, map and `index_` agree; an operation on a channel changes
  nothing for another; no destroyed channel is dispatched to.
* TcpServer and TcpConnection: a connection is destroyed only after its channel
  left the poller; a closed connection leaves the map and is destroyed in the
  end; its callbacks come in order; its bytes arrive once and in order.
* Connector: no channel is destroyed that a poller points to, no socket is lost,
  every attempt ends.
* Threads: `start()` hands out each thread's own loop, and the join ends.
* Acceptor: it closes only its own descriptors and keeps the queue moving.
* HTTP: what is answered, or told to the user, is what the peer sent.

## 2. Modules

| module | what it is |
|---|---|
| `EventLoop` | the loop thread and the threads that call it |
| `FunctorQueue` | abstract: a FIFO executor, open from `loop()` to `quit()` |
| `Poller` | Poller and the registration part of Channel, with the dispatch loop |
| `InterestSet` | abstract: a map from channels to the events they are polled for |
| `TcpServer` | acceptor loop, io loops, connections and their sockets |
| `TcpClient` | Connector and TcpClient in one loop, with `start()` from anywhere |
| `LoopThreads` | EventLoopThread and the pool: start, quit, join |
| `Acceptor` | `handleRead()` and the reserve descriptor |
| `Buffer` | the buffer as a data type: its member functions as operators |
| `TcpStream` | the data path of a connection through two Buffers |
| `HttpServer` | HttpServer and HttpContext on one connection |
| `Llhttp` | llhttp: the machine's control, callbacks and API calls |
| `LlhttpMethods`, `LlhttpChars` | llhttp's tries of words, and its states that look at one character |
| `HttpEvents` | abstract: the order of callbacks that llhttp's user may rely on |
| `EventLoopProofs`, `PollerProofs`, `TcpServerProofs`, `TcpClientProofs`, `LoopThreadsProofs`, `TcpStreamProofs`, `HttpServerProofs`, `LlhttpProofs` | theorems about the module each is named after, `Buffer` with `TcpStream` and `Acceptor` with the `TcpServer` that owns it |
| `MC...` | the instances for TLC |

The modules compose by what each shows: `TcpServer`, `TcpClient` and
`LoopThreads` take a loop for the FIFO executor of `FunctorQueue` that wakes up
when its eventfd is written, which `EventLoop` implements; `HttpServer` takes
its input buffer for a sequence, which is `TcpStream`'s `InputIntact`;
`TcpStream` extends `Buffer`.

### EventLoop

`pc` is where the loop thread is; the steps are the ones another thread can
tell apart: testing `quit_`, the return of `::poll`, each handler, the swap of
the queue under `mutex_`, each functor. `queueInLoop()` and `quit()` are two
steps each, split before `wakeup()`: `QueueInLoop`/`QueueWakeup` (the first
takes `mutex_`, the second releases it) and `Quit`/`QuitWakeup`. User code in
handlers and functors may make both calls, so that
`callingPendingFunctors_` matters. `runInLoop()` is `queueInLoop()` from
another thread and a plain call in the loop thread. The eventfd's counter is
abstracted to "not zero", which is all `poll` and one `read` of a non-semaphore
eventfd tell. `quit_` is a plain `bool` written by other threads; it is
re-read after every call of `::poll`, which the compiler cannot look through,
so the model reads it in memory order.

### Poller

`pollfds_`, `channels_` and the three fields of each channel, as in the code;
`index_` is 0-based. Since `events_` is not initialised by the constructor,
a new channel's value is any set of events. `removeChannel()` is one action
with its early return. The guards on `life` are what the code that uses channels
keeps to: a channel is taken out of the poller before it is destroyed and not
updated after that, and a descriptor is used for a new channel only after the
user of the old one gave it away. They say nothing of the moment: a handler, or
a functor, may remove or destroy its own channel, one that `poll` reported and
that still waits in `activeChannels_`, or any other. `freed` remembers the
channels that were destroyed with their turn in the dispatch not over, and
`undefined` that the loop used one of them (a new object at the same address
does not help: its `activeEvents_` are not set); the model stops there.
`TcpClient`'s `DanglingOnlyByOverlap` says when Connector unregisters what it
destroys, its `AliveInHandler` when it does not do so inside the channel's own
handler, and `TcpServer`'s `NoDanglingChannel` that TcpConnection unregisters
first; its destruction is a functor's. `poll` may report any subset of the
entries, in any order.

### TcpServer

Loop 0 is the acceptor loop, loops 1..numThreads_ the pool; `numThreads_` is
chosen in `Init`. Each loop has its `pending` queue and its `batch`, of which
`index` functors have been run; the batch keeps its references until it is
cleared as a whole, as the vector in `doPendingFunctors()` does.
`newConnection()` is two steps, because the io loop can run between `runInLoop`
and the insertion into the map. `conn[c]` holds the connection's fields,
`peer`, `unread` and `wrShut` what the kernel knows of its socket. A reset
socket delivers unread data, then an error, then end of file; POLLHUP is
reported even for a channel with no events, so that `handleClose()` can run
again until `connectDestroyed()` has removed the channel. `~TcpConnection()`
runs in the step that drops the last reference, and `destroyedBy` records whose
it was. The length of messages and the buffers are in `TcpStream`; references
that user code keeps are not modelled.

### TcpClient

The n-th call of `connect()` makes socket n and channel n. `channel_` and
`connection_` own, the poller's `registered` only points: a channel or
connection that is replaced or reset is destroyed, registered or not. The
functor queued by `removeAndResetChannel()` resets whatever `channel_` holds
when it runs. `Dangling` is undefined behaviour and the model stops there.
`start()` is called from other threads (a functor), in the loop thread and from
the callbacks. `overlapped` remembers that a `start()` was carried out while the
client still had the channel or connection of an earlier one.

### LoopThreads

`loop_` starts as `Null` or `Wild`. `startLoop()` takes the mutex, tests, waits
(a wait may end without a notification), and returns `loop_`; `threadFunc()`
constructs its loop, publishes it under the mutex, notifies, loops, and clears
`loop_` before the loop is destroyed. A loop's own code may call `quit()`.
The pool's `quit()` may be called any number of times (`again`), as nothing in
it keeps track. `touched` records operations on a loop that does not exist: a
second `quit()` finds loops that have ended, and since `quit()` of a loop and the
`wakeup()` in it are two steps, the loop may end between them.

### Acceptor

The four system calls of the exchange (`close(idleFd_)`, `accept`, `close`,
`open`) are steps, with the other threads opening and closing descriptors in
between; `owner` is the process's descriptor table. `accept()` may fail for want
of a descriptor or for any other reason, and `errno` is tested after log lines
that may have changed it, so that a failed `accept()` either starts the exchange
or leaves the connection in the queue (`HandleReadFails`, `Return`). The
constructor does not look whether it got its reserve, so `idleFd_` may be -1
from the start. `open()` in the exchange fails only for want of a descriptor.
`lost` remembers that the reserve was never there, or that another thread took a
descriptor in the middle of the exchange.

### Buffer, TcpStream

Bytes are numbers in the order in which they are sent, so that a lost, doubled
or moved byte shows. Reads and writes are of any size the kernel may choose,
and `readFd()` with its second array included. `send()` in the loop thread and
`send(Buffer*)` off it are both there: the latter drops the data. `events_` is
not initialised, so that POLLOUT may be among the connection's events from the
start (`strayOut`), and `isWriting()` is then true of it. The model
stops at a failed assertion, an empty callback or SIGPIPE (`fault`).

### HttpServer

Text is a sequence of tokens, CR and LF apart, so that a read may end anywhere.
`parseRequest()` is one action per iteration of its loop, which shows where the
loop does not end. What a text says, for the properties, is defined by positions
(`Starts`, `FullLines`, `HeadEnds`) and not by splitting it, independently of the
code and in a form that can be reasoned about. `MCHttpServer` has five texts: a request with one header
twice and a body, two pipelined requests, a head that ends in a line without a
colon, and two request lines that cannot be read.

### Llhttp

The parser asks for a character, a word or a digit, and the peer chooses; what
it chose is kept in `sent` for the properties. A piece may end before every
character and inside every word: all that the machine keeps across pieces is in
`parser`, and a word cut in two is matched again from `parser.index`, which must
agree with where the peer is (`half`).
Callbacks return 0, an error or a pause, and 1 or 2 where that is documented.
`LlhttpMethods` and `LlhttpChars` are tables with one entry per state of the
source, under the source's names; characters are the 20 classes that some state
tells apart. This is the machine as built here: `llhttp.c` tests
`LLHTTP_STRICT_MODE` before any header could define it, so that the non-strict
half is compiled; `HttpContext` sets no lenient flag and starts with
`HTTP_BOTH`. Arithmetic on `content_length` keeps its overflow checks with
`LengthMax` for 2^64 - 1; it has the same remainder modulo 16, which is what the
checks for hexadecimal numbers depend on.

## 3. Runs

| run | instance | shows |
|---|---|---|
| `loop` | 2 callers, 2 channels, 4 functors | `StateOK`, `NoLostWakeup`, `NoMissedQuit`, `RefinesQueue` (implements `FunctorQueue`), `DeliveredByWakeup`, `QuitEndsLoop`, `ServedWithTimeout` |
| `poller` | 3 channels, 3 descriptors | `RegistrationAgrees`, `DispatchSafe`, `RefinesInterestSet` |
| `server` | pool of 0 to 2, 2 connections, 2 closes each | `NoDanglingChannel`, `ClosedLeavesMap`, `NeverDestroyedConnected`, `PoolBalanced`, `CallbackOrder` |
| `server_live` | pool of 0 or 1, 1 connection, 4 closes | `ClosedIsDestroyed` |
| `server_destructor` | pool of 0 or 1, 1 connection | **violated**: `DestructedByAcceptor` |
| `client` | 3 calls of `start()` | `StateOK`, `DanglingOnlyByOverlap`, `SocketsAccounted`, `AliveInHandler`, `AttemptEnds` |
| `threads` | up to 2 threads | `LoopsReady`, `QuitReaches`, `StartReturns`, `JoinEnds` |
| `stream` | buffers of 3 bytes after 1, second array of 2, 5 bytes each way | `BuffersOK`, `InputIntact`, `OutputIntact`, `WritingStalls` |
| `stream_overflow` | the same, input only | **violated**: `AppendFits` |
| `acceptor` | 3 descriptors, 3 arrivals | `ClosesOwn`, `ReserveKept`, `ConnectionsTaken` |
| `http` | 5 texts, cut anywhere | `RequestMatchesText`, `AnsweredOnce`, `HangsOnlyIfCut`, `WholeHeadAnswered` |
| `llhttp` | 2 messages, up to 2 fields each, lengths up to 15 | `StartLineMatches`, `BodyAsDeclared`, `LengthUnambiguous`, `RefinesEvents` |

Bounds.

* `MaxFunctors` caps `queueInLoop()` calls: one functor in the batch, one
  pushed by it, one pushed by another thread after the swap and one before
  `loop()` are four.
* Three channels are the least for which removing one moves another past a
  third; with three descriptors one is reused while two are in use.
* `MaxDowns` caps `handleClose()` calls per connection: two are a repeated
  POLLHUP, hence two removals of one connection in the queues at the same time;
  four, in the liveness run, let it go on repeating after the first was served.
  Two connections on two loops are the least that share the acceptor loop's
  queue from different threads; after the second `next_` has wrapped, which
  `PoolBalanced` looks at through the loop that would come next.
* Three `start()`s: one under way, one that replaces its channel, and one after
  a queued reset.
* Two threads: one that is being started while the other runs, or is joined
  while the other still has to be.
* The buffers are filled to the last byte, passed by one, and passed by more than
  the second array; a backlog starts behind a partial write. `stream_overflow`
  sends nothing (`MaxOut` and `MaxMessage` are 0), so that what it shows is the
  input side.
* Three descriptors are the reserve, one that a connection takes and one that
  another thread can take or give back in the middle of the exchange.
* llhttp: the digits of a version are 0, 1 and 9 (`VersionDigits`); the two that
  are in use and one that is not. The digits 1 and 6 make lengths at, below and past `LengthMax`; two
  fields are the least in which `Content-Length` and `Transfer-Encoding`, or two
  lengths, meet. All methods and all status codes of the digits 0, 1, 2 are read
  in the start line, and the ones with consequences of their own (`CONNECT`,
  101) go on to the header: `FollowedRequests`, `FollowedResponses`. The second
  message shows what the first left behind.

Only `loop` checks for deadlock: elsewhere the system may stop, when the server
is stopped, the bounds are used up, or the program has died.

Fairness. `EventLoop!Fairness`: a thread inside `queueInLoop()` or `quit()`
finishes, the loop thread goes on, handlers and functors return, and `poll`
returns once the eventfd is readable (level-triggered). Nobody is obliged to
call anything and no other descriptor has to become ready. `ServedWithTimeout`
has as a premise that `poll` times out when nothing happens, as its 5 s argument
says; only functors queued before `loop()` by the loop thread itself need it.
`TcpServer!Fairness`: loops keep polling, handling and draining their queues,
which is what `EventLoop` establishes; no peer has to do anything. `TcpClient`:
functors run, the kernel decides every `connect()` in the end, and a ready
socket's handler runs again and again (strong fairness: functors in between may
disable it). `LoopThreads`: each thread goes on, strongly where it competes for
the mutex; a notified waiter wakes up; a loop returns once `quit_` is set and
its eventfd readable. `Acceptor` and `HttpServer`: the handler goes on. `ConnectionsTaken` has as a
premise that `accept()` does not go on failing for reasons other than EMFILE, nor
`errno` go on being overwritten (`<>[]~AcceptErrs`); no thread has to close a
descriptor. `JoinEnds` speaks of a pool whose `quit()` was called.
`TcpStream` and `Llhttp` are checked for safety only.

What the runs found.

* The comments on `~TcpConnection()` say it runs in the acceptor loop's thread;
  with a pool it usually runs in the io loop's, when that loop clears the batch
  with `connectDestroyed()` (`server_destructor`). `server` shows that either
  thread finds the channel removed.
* `Buffer::hasWritten()` asserts that appended data fits, but neither `append()`
  nor `readFd()` makes room: a read longer than the free space always trips it.
  In `stream_overflow` it is the first read of a connection.
* `NeverDestroyedConnected`: the branch of `connectDestroyed()` that closes the
  descriptor is never taken, since `handleClose()` makes every connection
  Disconnected before it is removed, so that no connection's descriptor is ever
  closed.
* `WritingStalls`: once output is buffered it is never written, because
  `handleWrite()` is empty, and POLLOUT is waited for from then on; a connection
  whose uninitialised `events_` held POLLOUT waits for it always, and still
  writes until something is buffered.
* `DispatchSafe`: the loop runs into a destroyed channel exactly when a handler
  destroys a reported channel whose turn is not over, its own included.
  Unregistering a channel in a handler, and destroying one in a functor, is safe
  at any time. Connector destroys its channel in a functor for this reason, but
  `connecting()` does not (`AliveInHandler`).
* `QuitReaches`: the pool's `quit()` sets and wakes every loop, but uses loops
  that are gone when it is called again, when a loop quit itself, or in `wakeup()`
  when the loop saw `quit_` on another event first.
* `ConnectionsTaken`, `ReserveKept`: without its reserve (`open()` failed in the
  constructor, or another thread was quicker) the acceptor cannot empty the queue
  when descriptors run out, and nothing gets the reserve back before the next
  such exchange.
* `DanglingOnlyByOverlap`, `AliveInHandler`: a second `start()` that overlaps the
  first can destroy a channel that the poller still has; without overlap nothing
  does.
* `LoopsReady` and `StartReturns` hold only outside the cases they name: a
  `loop_` that happened not to be null is handed out as it is, and a loop that
  quits itself at once can leave `startLoop()` waiting.
* `HangsOnlyIfCut`: a head that is cut after its request line, or followed by
  more data in a later read, keeps the io loop's thread in `parseRequest()` for
  ever; nothing else does.
* `BodyAsDeclared`: llhttp's `content_length` is not reset between messages, so
  a length left by a trailer or a skipped body is the exception it names.

## 4. Proofs

TLAPS proves, for every choice of the constants that satisfies the named
assumptions of the modules:

* `EventLoopProofs`: `StateCorrect`, `WakeupCorrect`, `QuitCorrect`,
  `FifoCorrect` and `QueueRefinement`. The invariant `NoLostWakeup` speaks only
  of a loop thread in `poll`. What makes it inductive is `Announced`, which says
  at every place of the loop thread what stands between a pending functor and
  sleep: the swap is still to come, or the eventfd is readable and has not been
  consumed, or the pusher still holds `mutex_`. `BatchOK` and `EarlyPushed`
  place the batch and the functors pushed before `loop()`. The refinement maps
  `tasks` to `functors \o pendingFunctors_`: the swap is a stutter because it
  happens only with an empty batch. `FifoCorrect` is the order and the
  exactly-once of functors as an invariant; in the run it is part of
  `RefinesQueue`.
* `PollerProofs`: `RegistrationCorrect`, `DispatchCorrect` and
  `InterestRefinement`. `RegistrationAgrees`, the conjunction of `IndexesAgree`
  and `MapAgrees`, is inductive only together with `FdsDistinct` (two channels
  that hold a descriptor hold different ones, by the protocol) and `FreshIndex`
  (an unregistered channel has no `index_`); the main case is `removeChannel()`
  of an entry that is not the last. For `DispatchSafe`, `DispatchOK` ties the
  list of reported channels to the phase of the loop, and says that a pending
  one that is not in `freed` exists and that one in `freed` is still pending, or
  was used.

* `TcpServerProofs`: `NoDanglingCorrect`, `ClosedLeavesCorrect`,
  `NeverConnectedCorrect`, `CallbackOrderCorrect` and `PoolCorrect`. A
  connection's life crosses the queues of two loops, so the invariant says what
  waits in them: `Ordered` (which functor can wait at which stage, and that
  `connectEstablished()` waits at most once), `RemovesAtBase`, `Kept` (who holds
  a connection whose channel is registered: the map, then a queued
  `removeConnection()`, then a queued `connectDestroyed()`), `Stages`, `Born` and
  `Gone` (nobody holds a destroyed connection). `Kept` is the argument for
  `NoDanglingChannel`: as long as the channel is registered there is a reference.
  The proof takes the queues of all loops for one value and has four lemmas on
  what queueing, swapping, running and clearing do to the functors that wait
  (`PushEffect`, `SwapEffect`, `RunEffect`, `EndEffect`). `PoolBalanced` needs
  `Turns`: every loop has as many connections as the next, or one more when its
  turn in this round is over.
* `TcpClientProofs`: `StateCorrect`, `DanglingCorrect`, `SocketsCorrect` and
  `AliveCorrect`. Outside overlaps `Orderly` holds: at most one
  `channel_.reset()` is queued, for a channel that is out of the poller already,
  and of all channels and connections at most one is polled, the one that
  `channel_` or `connection_` owns. `StartsCounted` (every `start()` has become
  an attempt or waits in the queue) and `Untouched` make the next attempt's
  socket a new one.
* `LoopThreadsProofs`: `LoopsReadyCorrect`, `QuitCorrect` and `JoinCorrect`.
  The invariant says who holds which mutex (`MutexOK`), what `loop_` can be at
  each place of the thread (`PointerOK`), that what `cond_.wait()` waited for is
  still true when it is used (`TakesLoop`, by the mutex), and where the
  destructor is in its vector (`BaseOK`, `JoinOK`). For `QuitReaches`,
  `QuitTold` says which loops the `quit()` under way has reached so far (all of
  them, from the second call on), and `TouchedOK` that each use of a loop that
  was gone has one of the reasons of `Explained`, which stay true. `JoinCorrect` says that no
  thread of the pool runs when the destructor is through; it is stated in the
  proof module, as the safety half of `JoinEnds`.
* On the `Acceptor`, in `TcpServerProofs`: `ClosesOwnCorrect` and
  `ReserveCorrect`. `OwnsIdle` says at each of the system calls whether the
  number in `idleFd_` is still the acceptor's, `SlotKept` that there is a
  descriptor for the reserve to come back to unless it was lost.
* `TcpStreamProofs`: `BuffersCorrect`, `InputCorrect`, `OutputCorrect` and
  `StallCorrect`, on lemmas about what `append`, `retrieve`, `readFd` and the
  others do to the readable bytes of a buffer. The two streams are inductive
  with the types and with `WaitsForOutput`, the first half of `WritingStalls`:
  POLLOUT is waited for exactly while there is output, or always if it was there
  from the start. That the wire gets its bytes in order even after a failed write
  (`WireInOrder`) holds because `sendInLoop()` writes only new data and only when
  nothing is buffered, so that what such a write put into the buffer stays there.
* `HttpServerProofs`: `RequestCorrect`, `AnsweredCorrect` and `HangsCorrect`.
  `BufferOK` says that the buffer is the rest of the received text from the
  beginning of a line, `ParsedOK` that `HttpContext` knows exactly what the
  lines before it say, `Answers` and `ReadsOK` that the answer agrees with the
  parser's state. The lemmas are about texts: a read that appends to a text
  leaves its whole lines what they were (`GrownLines`, `GrownHead`), and taking a
  line off the buffer takes one line of the text (`LineTaken`).
* `LlhttpProofs`: `StartLine`, `DeclaredBody`, `LengthOnce` and the refinement
  `EventsRefined`, from one invariant, `Inv`. The properties speak of the moment
  of a callback; between callbacks the machine knows where it is only by
  `current`, so the invariant says for each group of states what has been read:
  `Phases` (the last callback, the open span, trailer or not, and what
  `llhttp_finish()` would answer), `FieldRecognised` (`header_state` stands for
  the field name that was sent, and a name that was found to be another one
  never gets back), `LengthKnown` and `LengthFlagged` (a length or an encoding
  that was sent is a flag or is being read), `HeadCounted`, `ChunkCounted` and
  `BodyCounted` (`content_length` and the bytes delivered make up the length
  declared), `LineSpelled` and `LineNumbers` (the letters on the way to a node of
  the trie are the word so far), and `IndexKept` (`_index` is where the peer is).
  The tables come first: `CharSteps`, `MethodTables`, `AllEdges` and the lemmas
  around them show once, entry by entry, that a state goes on in its own group
  or in the next, and after them a step of the machine is one of some thirty
  moves between groups (`CharStep`, `QuietStep`, `TestStep`). Each action has one
  lemma, `...Good`. TLC checked `Inv` on the instance of the run `llhttp`.

Assumptions: the threads, channels and null values with special roles differ
from the others; bounds (`MaxFunctors`, `MaxConns`, `MaxArrivals`, ...) are
natural numbers, positive where nothing would happen at 0 (`MaxDowns`,
`MaxStarts`, `MaxThreads`, `kInitialSize`); "IN" and "OUT" are events;
descriptors are finite in number; requests are sequences of tokens; and
`highWaterMark_` is larger than a buffer, as with the constants of the source.
No size is fixed by any of them. `LengthMax + 1` is a multiple of 16, as 2^64 is.
TLAPS takes a string for a value without letters. What the proofs of llhttp need
of the spelling of words (that the pieces on a path of a trie make up the name of
the method at its end, and which pieces are single letters) is stated in
`SpellingAssumption` and `LetterAssumption`: closed facts about the tables, with
no constant in them, which TLC evaluates in the run `llhttp`.

Only model-checked: everything under fairness (`DeliveredByWakeup`,
`QuitEndsLoop`, `ServedWithTimeout`, `ClosedIsDestroyed`, `AttemptEnds`,
`StartReturns`, `JoinEnds`, `ConnectionsTaken`, `WholeHeadAnswered`), which this
prover does not handle. Every other property of the passing runs is a theorem.

## 5. Not modelled

* llhttp: the half of `llhttp.c` for `LLHTTP_STRICT_MODE`, which is not
  compiled, the branches of the lenient flags, which nobody sets, and the SSE4.2
  shortcuts, which compute what the tables do.
* TimerQueue, Timer, Timestamp: EventLoop owns a TimerQueue as a private member
  and never calls `addTimer()`, so that its timerfd is never armed; `addTimer()`
  would use `loop_`, which the constructor does not set. No behaviour of the
  program goes through this code.
* Logging and Exception are output; the conversion of addresses is formatting.
* The tests and the echo example are users of the library.
* In the modelled parts: what `~TcpServer()` does to connections that are still
  open, the second-loop check in EventLoop's constructor, functions that are
  empty in the source (`handleError`, `Connector::restart`, ...), and the state
  after `quit()`, of which the code promises nothing.

## 6. Plan

The order in which the parts were taken: the loop and its queue, the poller, the
server and the client on top of them, the threads, the acceptor, the data path,
the HTTP server and llhttp; first modelled and checked, then proved. What is left
is the liveness, which stays with TLC, and `llhttp` as it would be built in
strict mode.

## 7. Hazards not covered

They are the entries of "hazards" in `PROJECT.json` with a note and no property:
functors queued when the loop ends are never run (`EventLoop.cc:52`), and
`closeCallback_` is called without a test (`TcpConnection.cc:149`). Two more are
covered in part, as their notes say: the join of a pool that nobody quits
(`EventLoopThread.cc:10`) and the `content_length` that a message leaves to the
next (`http.c:95`).
