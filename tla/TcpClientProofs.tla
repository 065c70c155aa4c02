--------------------------- MODULE TcpClientProofs ---------------------------
(***************************************************************************)
(* Proofs about TcpClient, for any number of calls of start().             *)
(***************************************************************************)
EXTENDS TcpClient, SequenceTheorems, FiniteSetTheorems, TLAPS

FunctorNames == {"startInLoop", "resetChannel", "quit"}

\* The functors that are still to be run, in the order in which they will.
Queue == batch \o pending

\* How many calls of startInLoop() are in a queue.
StartsAt(q) == {i \in 1 .. Len(q) : q[i] = "startInLoop"}
Count(q) == Cardinality(StartsAt(q))

\* The places of channel_.reset() in a queue.
ResetsAt(q) == {i \in 1 .. Len(q) : q[i] = "resetChannel"}
OneReset(q) == \A i, j \in ResetsAt(q) : i = j

-----------------------------------------------------------------------------
\* What queueing at the end and running from the front do to them.

LEMMA CountType ==
    ASSUME NEW q \in Seq(FunctorNames)
    PROVE  IsFiniteSet(StartsAt(q)) /\ Count(q) \in Nat
<1>1. IsFiniteSet(1 .. Len(q)) /\ StartsAt(q) \in SUBSET (1 .. Len(q))
  BY FS_Interval DEF StartsAt
<1>2. IsFiniteSet(StartsAt(q))
  BY <1>1, FS_Subset
<1> QED BY <1>2, FS_CardinalityType DEF Count

LEMMA AppendQueue ==
    ASSUME NEW q \in Seq(FunctorNames), NEW f \in FunctorNames
    PROVE  /\ Append(q, f) \in Seq(FunctorNames)
           /\ Count(Append(q, f)) =
                 IF f = "startInLoop" THEN Count(q) + 1 ELSE Count(q)
           /\ ResetsAt(Append(q, f)) =
                 IF f = "resetChannel" THEN ResetsAt(q) \cup {Len(q) + 1}
                                       ELSE ResetsAt(q)
<1> DEFINE r == Append(q, f)
<1>1. /\ r \in Seq(FunctorNames) /\ Len(r) = Len(q) + 1
      /\ r[Len(q) + 1] = f /\ \A i \in 1 .. Len(q) : r[i] = q[i]
  BY AppendProperties
<1>2. Len(q) \in Nat
  OBVIOUS
<1> HIDE DEF r
<1>3. StartsAt(r) = IF f = "startInLoop" THEN StartsAt(q) \cup {Len(q) + 1}
                                         ELSE StartsAt(q)
  BY <1>1, <1>2 DEF StartsAt
<1>4. ResetsAt(r) = IF f = "resetChannel" THEN ResetsAt(q) \cup {Len(q) + 1}
                                          ELSE ResetsAt(q)
  BY <1>1, <1>2 DEF ResetsAt
<1>5. Len(q) + 1 \notin StartsAt(q)
  BY <1>2 DEF StartsAt
<1>6. Cardinality(StartsAt(q) \cup {Len(q) + 1}) = Count(q) + 1
  BY <1>5, CountType, FS_AddElement DEF Count
<1>7. Count(r) = IF f = "startInLoop" THEN Count(q) + 1 ELSE Count(q)
  BY <1>3, <1>6 DEF Count
<1> QED BY <1>1, <1>4, <1>7 DEF r

LEMMA TailQueue ==
    ASSUME NEW q \in Seq(FunctorNames), q # <<>>
    PROVE  /\ Tail(q) \in Seq(FunctorNames) /\ Head(q) \in FunctorNames
           /\ Count(q) = IF Head(q) = "startInLoop" THEN Count(Tail(q)) + 1
                                                    ELSE Count(Tail(q))
           /\ OneReset(q) => OneReset(Tail(q))
           /\ ResetsAt(Tail(q)) # {} => ResetsAt(q) # {}
           /\ OneReset(q) /\ Head(q) = "resetChannel" =>
                 ResetsAt(Tail(q)) = {}
           /\ Head(q) = "resetChannel" => ResetsAt(q) # {}
<1> DEFINE t == Tail(q)
           S == StartsAt(q) \ {1}
<1>1. /\ t \in Seq(FunctorNames) /\ Len(t) = Len(q) - 1
      /\ \A i \in 1 .. Len(t) : t[i] = q[i + 1]
      /\ Head(q) \in FunctorNames
  BY HeadTailProperties
<1>2. Head(q) = q[1] /\ Len(q) \in Nat \ {0} /\ Len(t) \in Nat
  OBVIOUS
<1> HIDE DEF t
<1>3. Cardinality(StartsAt(t)) = Cardinality(S) /\ IsFiniteSet(StartsAt(t))
  <2> DEFINE g == [i \in StartsAt(t) |-> i + 1]
  <2>1. \A i \in StartsAt(t) : i \in Nat /\ i + 1 \in S
    BY <1>1, <1>2 DEF StartsAt
  <2>2. \A j \in S : j - 1 \in StartsAt(t) /\ j = (j - 1) + 1
    BY <1>1, <1>2 DEF StartsAt
  <2> HIDE DEF S
  <2>3. g \in [StartsAt(t) -> S]
    BY <2>1
  <2>4. \A i, j \in StartsAt(t) : g[i] = g[j] => i = j
    BY <2>1
  <2>5. \A j \in S : \E i \in StartsAt(t) : g[i] = j
    BY <2>2
  <2>6. g \in Bijection(StartsAt(t), S)
    BY <2>3, <2>4, <2>5 DEF Bijection, Injection, Surjection, IsInjective
  <2>7. ExistsBijection(StartsAt(t), S)
    BY <2>6 DEF ExistsBijection
  <2> QED BY <2>7, <1>1, CountType, FS_Bijection
<1>4. Cardinality(S) = IF Head(q) = "startInLoop" THEN Count(q) - 1
                                                  ELSE Count(q)
  <2>1. 1 \in StartsAt(q) <=> Head(q) = "startInLoop"
    BY <1>2 DEF StartsAt
  <2> QED BY <2>1, CountType, FS_RemoveElement DEF Count
<1>5. Count(q) = IF Head(q) = "startInLoop" THEN Count(t) + 1 ELSE Count(t)
  BY <1>3, <1>4, CountType DEF Count
<1>6. \A i \in ResetsAt(t) : i \in Nat \ {0} /\ i + 1 \in ResetsAt(q)
  BY <1>1, <1>2 DEF ResetsAt
<1>7. Head(q) = "resetChannel" => 1 \in ResetsAt(q)
  BY <1>2 DEF ResetsAt
<1>8. OneReset(q) => OneReset(t)
  BY <1>6 DEF OneReset
<1>9. OneReset(q) /\ Head(q) = "resetChannel" => ResetsAt(t) = {}
  BY <1>6, <1>7 DEF OneReset
<1> QED BY <1>1, <1>5, <1>6, <1>7, <1>8, <1>9 DEF t

-----------------------------------------------------------------------------
\* The fields that Connector's functions work on.

ChannelType == [exists : BOOLEAN, registered : BOOLEAN]
ConnType == [exists : BOOLEAN, registered : BOOLEAN,
             state_ : {"Disconnected", "Connected"}]
SockStates == {"none", "connecting", "error", "self", "connected",
               "peerClosed", "closed"}
States == {"Disconnected", "Connecting", "Connected"}
FieldsType ==
    [connect_ : BOOLEAN, channel_ : Attempts \cup {None}, state_ : States,
     chan : [Attempts -> ChannelType], sock : [Attempts -> SockStates],
     pending : Seq(FunctorNames)]

\* channel_.reset() destroys the channel it owns and touches no other.
LEMMA ResetEffect ==
    ASSUME NEW k \in FieldsType
    PROVE  /\ Reset(k) \in FieldsType
           /\ Reset(k).channel_ = None
           /\ Reset(k).connect_ = k.connect_ /\ Reset(k).state_ = k.state_
           /\ Reset(k).sock = k.sock /\ Reset(k).pending = k.pending
           /\ \A b \in Attempts :
                 /\ Reset(k).chan[b].registered = k.chan[b].registered
                 /\ b # k.channel_ => Reset(k).chan[b] = k.chan[b]
<1> USE DEF FieldsType, ChannelType, None, Attempts
<1>1. CASE k.channel_ = None
  BY <1>1 DEF Reset
<1>2. CASE k.channel_ # None
  <2>1. k.channel_ \in Attempts
    BY <1>2
  <2> DEFINE c == [k.chan EXCEPT ![k.channel_].exists = FALSE]
  <2>2. Reset(k) = [k EXCEPT !.chan = c, !.channel_ = None]
    BY <1>2 DEF Reset
  <2>3. /\ c \in [Attempts -> ChannelType]
        /\ \A b \in Attempts : /\ c[b].registered = k.chan[b].registered
                               /\ b # k.channel_ => c[b] = k.chan[b]
    BY <2>1
  <2> HIDE DEF c
  <2> QED BY <2>2, <2>3
<1> QED BY <1>1, <1>2

\* A step of connect() or startInLoop() for attempt a: nothing, a new
\* channel, or a closed socket.
Unstarted(k, r) == r = k
Started(k, r, a) ==
    /\ r.channel_ = a /\ r.state_ = "Connecting"
    /\ r.chan[a] = [exists |-> TRUE, registered |-> TRUE]
    /\ r.sock = [k.sock EXCEPT ![a] = "connecting"]
    /\ r.pending = k.pending
    /\ \A b \in Attempts : b # a =>
          /\ r.chan[b].registered = k.chan[b].registered
          /\ b # k.channel_ => r.chan[b] = k.chan[b]
Refused(k, r, a) ==
    /\ r.channel_ = k.channel_ /\ r.state_ \in {k.state_, "Disconnected"}
    /\ r.chan = k.chan
    /\ r.sock = [k.sock EXCEPT ![a] = "closed"]
    /\ r.pending = k.pending

LEMMA StartEffect ==
    ASSUME NEW k \in FieldsType, NEW a \in Attempts,
           NEW r \in StartsInLoop(k, a)
    PROVE  /\ r \in FieldsType
           /\ Unstarted(k, r) \/ Started(k, r, a) \/ Refused(k, r, a)
<1>1. CASE r = k
  BY <1>1 DEF Unstarted
<1>2. CASE r = Connecting(k, a)
  <2> DEFINE m == Reset(k)
             c == [m.chan EXCEPT ![a] = [exists |-> TRUE, registered |-> TRUE]]
             s == [m.sock EXCEPT ![a] = "connecting"]
  <2>1. /\ m \in FieldsType /\ m.sock = k.sock /\ m.pending = k.pending
        /\ \A b \in Attempts :
              /\ m.chan[b].registered = k.chan[b].registered
              /\ b # k.channel_ => m.chan[b] = k.chan[b]
    BY ResetEffect
  <2>2. r = [m EXCEPT !.channel_ = a, !.state_ = "Connecting", !.chan = c,
                      !.sock = s]
    BY <1>2 DEF Connecting
  <2> HIDE DEF m
  <2>3. c \in [Attempts -> ChannelType] /\ s \in [Attempts -> SockStates]
    BY <2>1 DEF FieldsType, ChannelType, SockStates
  <2>4. r \in FieldsType
    BY <2>1, <2>2, <2>3 DEF FieldsType, States
  <2>5. /\ r.channel_ = a /\ r.state_ = "Connecting" /\ r.chan = c
        /\ r.sock = s /\ r.pending = k.pending
    BY <2>1, <2>2 DEF FieldsType
  <2>6. c[a] = [exists |-> TRUE, registered |-> TRUE]
        /\ \A b \in Attempts : b # a => c[b] = m.chan[b]
    BY <2>1 DEF FieldsType
  <2>7. Started(k, r, a)
    BY <2>1, <2>5, <2>6 DEF Started
  <2> QED BY <2>4, <2>7
<1>3. CASE r = Retry(k, a) \/ r = [k EXCEPT !.sock[a] = "closed"]
  <2> DEFINE s == [k.sock EXCEPT ![a] = "closed"]
  <2>1. s \in [Attempts -> SockStates]
    BY DEF FieldsType, SockStates
  <2>2. r = [k EXCEPT !.sock = s, !.state_ = "Disconnected"]
        \/ r = [k EXCEPT !.sock = s]
    BY <1>3 DEF Retry
  <2> HIDE DEF s
  <2>3. /\ r \in FieldsType /\ r.channel_ = k.channel_ /\ r.chan = k.chan
        /\ r.sock = s /\ r.pending = k.pending
        /\ r.state_ \in {k.state_, "Disconnected"}
    BY <2>1, <2>2 DEF FieldsType, States
  <2> QED BY <2>3 DEF Refused, s
<1> QED BY <1>1, <1>2, <1>3 DEF StartsInLoop, Connects

\* removeAndResetChannel() of the channel of attempt a.
LEMMA RemoveEffect ==
    ASSUME NEW k \in FieldsType
    PROVE  LET r == RemoveAndResetChannel(k)
           IN /\ r \in FieldsType
              /\ r.channel_ = k.channel_ /\ r.state_ = k.state_
              /\ r.sock = k.sock /\ r.connect_ = k.connect_
              /\ r.pending = Append(k.pending, "resetChannel")
              /\ \A b \in Attempts :
                    /\ r.chan[b].exists = k.chan[b].exists
                    /\ b # k.channel_ => r.chan[b] = k.chan[b]
                    /\ b = k.channel_ => ~r.chan[b].registered
<1> DEFINE c == [k.chan EXCEPT ![k.channel_].registered = FALSE]
           q == Append(k.pending, "resetChannel")
           r == RemoveAndResetChannel(k)
<1>1. /\ c \in [Attempts -> ChannelType]
      /\ \A b \in Attempts : /\ c[b].exists = k.chan[b].exists
                             /\ b # k.channel_ => c[b] = k.chan[b]
                             /\ b = k.channel_ => ~c[b].registered
  BY DEF FieldsType, ChannelType
<1>2. q \in Seq(FunctorNames)
  BY AppendQueue DEF FieldsType, FunctorNames
<1>3. r = [k EXCEPT !.chan = c, !.pending = q]
  BY DEF RemoveAndResetChannel
<1> HIDE DEF c, q, r
<1>4. /\ r \in FieldsType /\ r.chan = c /\ r.pending = q
      /\ r.channel_ = k.channel_ /\ r.state_ = k.state_
      /\ r.sock = k.sock /\ r.connect_ = k.connect_
  BY <1>1, <1>2, <1>3 DEF FieldsType
<1> QED BY <1>1, <1>4 DEF r, q

-----------------------------------------------------------------------------
\* The inductive invariant.

\* Every start() has been carried out or is queued.
StartsCounted == starts = attempts + Count(Queue)

\* An attempt that has not begun has left no traces.
Untouched ==
    \A a \in Attempts : a > attempts =>
        /\ ~chan[a].registered /\ ~conn[a].registered
        /\ sock[a] = "none"

\* Socket a is closed or not made yet, or the connector's channel or the
\* connection has it in the poller.
Closed(a) == sock[a] \in {"none", "closed"}
Kept(a) ==
    \/ Closed(a) /\ ~chan[a].registered /\ ~conn[a].registered
    \/ ~Closed(a) /\ chan[a].registered /\ ~conn[a].registered
    \/ ~Closed(a) /\ ~chan[a].registered /\ conn[a].registered

\* Without overlap: there is at most one reset in the queue, for the channel
\* that channel_ still holds and that is out of the poller by now; a channel
\* in the poller is the one of channel_, and a connection in the poller the
\* one of connection_, and never both.
Orderly ==
    /\ OneReset(Queue)
    /\ ResetsAt(Queue) # {} =>
          channel_ # None /\ ~chan[channel_].registered
    /\ \A a \in Attempts : chan[a].registered =>
          channel_ = a /\ state_ = "Connecting" /\ connection_ = None
    /\ \A a \in Attempts : conn[a].registered => connection_ = a
    /\ \A a \in Attempts : Kept(a)

Inv == StateOK /\ StartsCounted /\ Untouched /\ (overlapped \/ Orderly)

\* StateOK in parts: the connector's fields, the rest, and the owners.
ConnectorTypes ==
    /\ connect_ \in BOOLEAN /\ state_ \in States
    /\ channel_ \in Attempts \cup {None}
    /\ pending \in Seq(FunctorNames)
    /\ chan \in [Attempts -> ChannelType]
    /\ sock \in [Attempts -> SockStates]
ClientTypes ==
    /\ quit_ \in BOOLEAN /\ overlapped \in BOOLEAN
    /\ connection_ \in Attempts \cup {None}
    /\ batch \in Seq(FunctorNames)
    /\ conn \in [Attempts -> ConnType]
CountTypes == starts \in 0 .. MaxStarts /\ attempts \in 0 .. starts
OwnersExist ==
    /\ channel_ # None => chan[channel_].exists
    /\ connection_ # None => conn[connection_].exists

LEMMA StateParts ==
    /\ StateOK <=> ConnectorTypes /\ ClientTypes /\ CountTypes /\ OwnersExist
    /\ StateOK' <=>
          ConnectorTypes' /\ ClientTypes' /\ CountTypes' /\ OwnersExist'
BY DEF StateOK, ConnectorTypes, ClientTypes, CountTypes, OwnersExist, States,
       FunctorNames, ChannelType, SockStates, ConnType

LEMMA FieldsTyped ==
    ConnectorTypes =>
        /\ Fields \in FieldsType
        /\ \A b \in BOOLEAN : /\ [Fields EXCEPT !.connect_ = b] \in FieldsType
                              /\ [Fields EXCEPT !.connect_ = b] =
                                    [connect_ |-> b, channel_ |-> channel_,
                                     state_ |-> state_, chan |-> chan,
                                     sock |-> sock, pending |-> pending]
BY DEF ConnectorTypes, Fields, FieldsType

LEMMA AssignTyped ==
    ASSUME NEW r \in FieldsType, Assign(r)
    PROVE  ConnectorTypes'
BY DEF Assign, FieldsType, ConnectorTypes

\* The queue as a whole: what is pushed goes to its end, what is run comes
\* from its front, and the swap leaves it as it is.
LEMMA QueueTyped ==
    /\ ConnectorTypes /\ ClientTypes => Queue \in Seq(FunctorNames)
    /\ ConnectorTypes' /\ ClientTypes' => Queue' \in Seq(FunctorNames)
BY ConcatProperties DEF ConnectorTypes, ClientTypes, Queue

\* The parts from which a step concludes the invariant: counting the functors
\* also bounds attempts.
LEMMA InvNext ==
    ASSUME ConnectorTypes', ClientTypes', starts' \in 0 .. MaxStarts,
           attempts' \in Nat, OwnersExist', StartsCounted', Untouched',
           overlapped' \/ Orderly'
    PROVE  Inv'
<1>1. Count(Queue') \in Nat
  BY CountType, QueueTyped
<1>2. starts' = attempts' + Count(Queue')
  BY DEF StartsCounted
<1>3. attempts' \in 0 .. starts'
  BY <1>1, <1>2, StartsAssumption
<1> QED BY <1>3, StateParts DEF Inv, CountTypes

LEMMA PushQueue ==
    ASSUME ConnectorTypes, ClientTypes, NEW f \in FunctorNames,
           pending' = Append(pending, f), batch' = batch
    PROVE  Queue' = Append(Queue, f)
BY DEF ConnectorTypes, ClientTypes, Queue

LEMMA PopQueue ==
    ASSUME ConnectorTypes, ClientTypes, batch # <<>>, batch' = Tail(batch),
           pending' = pending
    PROVE  Queue # <<>> /\ Head(Queue) = Head(batch) /\ Queue' = Tail(Queue)
<1>1. batch \in Seq(FunctorNames) /\ pending \in Seq(FunctorNames)
  BY DEF ConnectorTypes, ClientTypes
<1>2. Queue # <<>>
  BY <1>1, ConcatEqualIffEmpty DEF Queue
<1>3. Head(Queue) = Head(batch)
  BY <1>1 DEF Queue
<1>4. Tail(batch) \o pending = Tail(Queue)
  BY <1>1 DEF Queue
<1> QED BY <1>2, <1>3, <1>4 DEF Queue

-----------------------------------------------------------------------------
\* start() that is carried out on fields k, which have lost at most a
\* registration since the last step.

LEMMA RunStartTypes ==
    ASSUME Inv, NEW k \in FieldsType, NEW owner, RunStart(k, owner),
           attempts + 1 \in Attempts,
           k.channel_ # None => k.chan[k.channel_].exists
    PROVE  /\ ConnectorTypes' /\ overlapped' \in BOOLEAN
           /\ attempts' = attempts + 1 /\ pending' = k.pending
           /\ channel_' # None => chan'[channel_'].exists
           /\ \A a \in Attempts : a > attempts + 1 =>
                 /\ chan'[a].registered = k.chan[a].registered
                 /\ sock'[a] = k.sock[a]
<1>1. PICK r \in StartsInLoop(k, attempts + 1) : Assign(r)
  BY DEF RunStart
<1>2. /\ r \in FieldsType
      /\ \/ Unstarted(k, r) \/ Started(k, r, attempts + 1)
         \/ Refused(k, r, attempts + 1)
  BY StartEffect
<1>3. ConnectorTypes'
  BY <1>1, <1>2, AssignTyped
<1>4. attempts' = attempts + 1 /\ overlapped' \in BOOLEAN
  BY DEF RunStart
<1>5. attempts \in Nat
  BY StateParts DEF Inv, CountTypes
<1> USE DEF Assign, FieldsType
<1>6. pending' = k.pending
  BY <1>1, <1>2 DEF Unstarted, Started, Refused
<1>7. channel_' # None => chan'[channel_'].exists
  BY <1>1, <1>2 DEF Unstarted, Started, Refused
<1>8. ASSUME NEW a \in Attempts, a > attempts + 1
      PROVE  /\ chan'[a].registered = k.chan[a].registered
             /\ sock'[a] = k.sock[a]
  <2>1. a # attempts + 1
    BY <1>5, <1>8 DEF Attempts
  <2> QED BY <1>1, <1>2, <2>1 DEF Unstarted, Started, Refused
<1> QED BY <1>3, <1>4, <1>6, <1>7, <1>8

\* A start() that does not overlap an earlier one.
LEMMA RunStartOrderly ==
    ASSUME Inv, NEW k \in FieldsType, RunStart(k, connection_),
           attempts + 1 \in Attempts, ~overlapped',
           k.channel_ = channel_, k.chan = chan, k.sock = sock,
           k.state_ = state_, UNCHANGED <<connection_, conn>>,
           OneReset(Queue'), ResetsAt(Queue') # {} => ResetsAt(Queue) # {}
    PROVE  Orderly'
<1> DEFINE n == attempts + 1
<1>1. PICK r \in StartsInLoop(k, n) : Assign(r)
  BY DEF RunStart
<1>2. Unstarted(k, r) \/ Started(k, r, n) \/ Refused(k, r, n)
  BY StartEffect
<1>3. ~overlapped /\ channel_ = None /\ connection_ = None
  BY DEF RunStart
<1>4. Orderly
  BY <1>3 DEF Inv
<1>5. \A a \in Attempts : ~chan[a].registered /\ ~conn[a].registered
  BY <1>3, <1>4 DEF Orderly, Attempts, None
<1>6. /\ \A a \in Attempts : Closed(a)
      /\ ResetsAt(Queue') = {} /\ n # None /\ n \in Attempts
  BY <1>4, <1>5, <1>3 DEF Orderly, Kept, Attempts, None
<1>7. /\ channel_' = r.channel_ /\ state_' = r.state_ /\ chan' = r.chan
      /\ sock' = r.sock
  BY <1>1 DEF Assign
<1>8. sock \in [Attempts -> SockStates]
  BY StateParts DEF Inv, ConnectorTypes
<1> HIDE DEF n
<1>9. CASE Unstarted(k, r)
  BY <1>3, <1>4, <1>5, <1>6, <1>7, <1>9 DEF Unstarted, Orderly, Kept, Closed
<1>10. CASE Started(k, r, n)
  <2>1. /\ chan'[n].registered /\ channel_' = n /\ state_' = "Connecting"
        /\ sock'[n] = "connecting"
    BY <1>6, <1>7, <1>8, <1>10 DEF Started
  <2>2. \A a \in Attempts : a # n =>
              ~chan'[a].registered /\ sock'[a] = sock[a]
    BY <1>5, <1>6, <1>7, <1>8, <1>10 DEF Started
  <2>3. \A a \in Attempts : Kept(a)'
    BY <2>1, <2>2, <1>5, <1>6 DEF Kept, Closed
  <2> QED BY <2>1, <2>2, <2>3, <1>3, <1>5, <1>6 DEF Orderly
<1>11. CASE Refused(k, r, n)
  <2>1. /\ chan' = chan /\ channel_' = None /\ sock'[n] = "closed"
        /\ \A a \in Attempts : a # n => sock'[a] = sock[a]
    BY <1>3, <1>6, <1>7, <1>8, <1>11 DEF Refused
  <2>2. \A a \in Attempts : Kept(a)'
    BY <2>1, <1>5, <1>6 DEF Kept, Closed
  <2> QED BY <2>1, <2>2, <1>3, <1>5, <1>6 DEF Orderly
<1> QED BY <1>2, <1>9, <1>10, <1>11

-----------------------------------------------------------------------------
\* The steps: one lemma for each action.

InvParts ==
    /\ ConnectorTypes /\ ClientTypes /\ CountTypes /\ OwnersExist
    /\ StartsCounted /\ Untouched /\ (overlapped \/ Orderly)
    /\ Queue \in Seq(FunctorNames) /\ attempts \in Nat /\ starts \in Nat

LEMMA Parts == Inv => InvParts
BY StateParts, QueueTyped, StartsAssumption DEF Inv, InvParts, CountTypes

LEMMA StartElsewhereInv == Inv /\ StartElsewhere => Inv'
<1> SUFFICES ASSUME Inv, StartElsewhere PROVE Inv'
  OBVIOUS
<1>1. InvParts
  BY Parts
<1>2. /\ UNCHANGED <<state_, channel_, connection_, batch, quit_, attempts,
                     chan, sock, conn, overlapped>>
      /\ pending' = Append(pending, "startInLoop") /\ starts' = starts + 1
      /\ connect_' = TRUE /\ starts < MaxStarts
  BY DEF StartElsewhere
<1>3. "startInLoop" \in FunctorNames
  BY DEF FunctorNames
<1>4. Queue' = Append(Queue, "startInLoop")
  BY <1>1, <1>2, <1>3, PushQueue DEF InvParts
<1>5. Count(Queue') = Count(Queue) + 1 /\ ResetsAt(Queue') = ResetsAt(Queue)
      /\ Count(Queue) \in Nat
  BY <1>1, <1>3, <1>4, AppendQueue, CountType DEF InvParts
<1>6. pending' \in Seq(FunctorNames)
  BY <1>1, <1>2, <1>3 DEF InvParts, ConnectorTypes
<1>7. ConnectorTypes' /\ ClientTypes' /\ OwnersExist' /\ Untouched'
  BY <1>1, <1>2, <1>6
     DEF InvParts, ConnectorTypes, ClientTypes, OwnersExist, Untouched
<1>8. StartsCounted' /\ starts' \in 0 .. MaxStarts /\ attempts' \in Nat
  BY <1>1, <1>2, <1>5, StartsAssumption
     DEF InvParts, StartsCounted, CountTypes
<1>9. overlapped' \/ Orderly'
  BY <1>1, <1>2, <1>5 DEF InvParts, Orderly, OneReset, Kept, Closed
<1> QED BY <1>7, <1>8, <1>9, InvNext

\* "quit" is queued, and at most a connection's state_ changes.
LEMMA QuitQueued ==
    ASSUME Inv, pending' = Append(pending, "quit"),
           UNCHANGED <<connectorVars, connection_, batch, quit_, starts,
                       attempts, chan, sock, overlapped>>,
           conn' \in [Attempts -> ConnType],
           \A a \in Attempts : /\ conn'[a].registered = conn[a].registered
                               /\ conn'[a].exists = conn[a].exists
    PROVE  Inv'
<1>1. InvParts
  BY Parts
<1> USE DEF connectorVars
<1>3. "quit" \in FunctorNames
  BY DEF FunctorNames
<1>4. Queue' = Append(Queue, "quit")
  BY <1>1, <1>3, PushQueue DEF InvParts
<1>5. Count(Queue') = Count(Queue) /\ ResetsAt(Queue') = ResetsAt(Queue)
  BY <1>1, <1>3, <1>4, AppendQueue DEF InvParts
<1>6. pending' \in Seq(FunctorNames)
  BY <1>1, <1>3 DEF InvParts, ConnectorTypes
<1>7. ConnectorTypes' /\ ClientTypes'
  BY <1>1, <1>6 DEF InvParts, ConnectorTypes, ClientTypes
<1>8. OwnersExist' /\ Untouched'
  BY <1>1 DEF InvParts, OwnersExist, Untouched, ClientTypes
<1>9. StartsCounted' /\ starts' \in 0 .. MaxStarts /\ attempts' \in Nat
  BY <1>1, <1>5 DEF InvParts, StartsCounted, CountTypes
<1>10. overlapped' \/ Orderly'
  BY <1>1, <1>5 DEF InvParts, Orderly, OneReset, Kept, Closed
<1> QED BY <1>7, <1>8, <1>9, <1>10, InvNext

\* Nothing changes but a connection's state_.
LEMMA OnlyState ==
    ASSUME Inv,
           UNCHANGED <<connectorVars, connection_, loopVars, starts,
                       attempts, chan, sock, overlapped>>,
           conn' \in [Attempts -> ConnType],
           \A a \in Attempts : /\ conn'[a].registered = conn[a].registered
                               /\ conn'[a].exists = conn[a].exists
    PROVE  Inv'
<1>1. InvParts
  BY Parts
<1> USE DEF connectorVars, loopVars
<1>5. Queue' = Queue
  BY DEF Queue
<1>7. ConnectorTypes' /\ ClientTypes'
  BY <1>1 DEF InvParts, ConnectorTypes, ClientTypes
<1>8. OwnersExist' /\ Untouched'
  BY <1>1 DEF InvParts, OwnersExist, Untouched, ClientTypes
<1>9. StartsCounted' /\ starts' \in 0 .. MaxStarts /\ attempts' \in Nat
  BY <1>1, <1>5 DEF InvParts, StartsCounted, CountTypes
<1>10. overlapped' \/ Orderly'
  BY <1>1, <1>5 DEF InvParts, Orderly, OneReset, Kept, Closed
<1> QED BY <1>7, <1>8, <1>9, <1>10, InvNext

LEMMA StopInv == Inv /\ Stop => Inv'
<1> SUFFICES ASSUME Inv, Stop PROVE Inv'
  OBVIOUS
<1>1. conn \in [Attempts -> ConnType]
  BY Parts DEF InvParts, ClientTypes
<1> QED BY <1>1, QuitQueued DEF Stop

LEMMA HandleCloseInv ==
    ASSUME Inv, NEW a \in Attempts, HandleClose(a)
    PROVE  Inv'
<1>1. conn \in [Attempts -> ConnType]
  BY Parts DEF InvParts, ClientTypes
<1>2. conn' = [conn EXCEPT ![a].state_ = "Disconnected"]
  BY DEF HandleClose
<1>3. /\ conn' \in [Attempts -> ConnType]
      /\ \A c \in Attempts : /\ conn'[c].registered = conn[c].registered
                             /\ conn'[c].exists = conn[c].exists
  BY <1>1, <1>2 DEF ConnType
<1>4. CASE UNCHANGED pending
  BY <1>3, <1>4, OnlyState DEF HandleClose, loopVars
<1>5. CASE pending' = Append(pending, "quit")
  BY <1>3, <1>5, QuitQueued DEF HandleClose
<1> QED BY <1>4, <1>5 DEF HandleClose

\* A socket changes state without being closed.
LEMMA SockChanges ==
    ASSUME Inv, NEW a \in Attempts, ~Closed(a), NEW s \in SockStates,
           s \notin {"none", "closed"}, sock' = [sock EXCEPT ![a] = s],
           UNCHANGED <<connectorVars, connection_, loopVars, starts,
                       attempts, chan, conn, overlapped>>
    PROVE  Inv'
<1>1. InvParts
  BY Parts
<1> USE DEF connectorVars, loopVars
<1>2. sock \in [Attempts -> SockStates]
  BY <1>1 DEF InvParts, ConnectorTypes
<1>3. /\ sock' \in [Attempts -> SockStates] /\ ~Closed(a)'
      /\ \A b \in Attempts : b # a => sock'[b] = sock[b]
  BY <1>2 DEF Closed
<1>4. Queue' = Queue
  BY DEF Queue
<1>5. ConnectorTypes' /\ ClientTypes'
  BY <1>1, <1>3 DEF InvParts, ConnectorTypes, ClientTypes
<1>6. OwnersExist' /\ Untouched'
  <2>1. ~(a > attempts)
    BY <1>1 DEF InvParts, Untouched, Closed
  <2> QED BY <1>1, <1>3, <2>1 DEF InvParts, OwnersExist, Untouched
<1>7. StartsCounted' /\ starts' \in 0 .. MaxStarts /\ attempts' \in Nat
  BY <1>1, <1>4 DEF InvParts, StartsCounted, CountTypes
<1>8. ASSUME Orderly PROVE Orderly'
  <2>1. \A b \in Attempts : Kept(b)'
    BY <1>3, <1>8 DEF Orderly, Kept, Closed
  <2> QED BY <1>4, <1>8, <2>1 DEF Orderly, OneReset
<1> QED BY <1>1, <1>5, <1>6, <1>7, <1>8, InvNext DEF InvParts

LEMMA ResolveInv ==
    ASSUME Inv, NEW a \in Attempts, Resolve(a)
    PROVE  Inv'
<1>1. PICK r \in {"error", "self", "connected"} :
          sock' = [sock EXCEPT ![a] = r]
  BY DEF Resolve
<1> QED BY <1>1, SockChanges DEF Resolve, Closed, SockStates

LEMMA PeerClosesInv ==
    ASSUME Inv, NEW a \in Attempts, PeerCloses(a)
    PROVE  Inv'
BY SockChanges DEF PeerCloses, Closed, SockStates

LEMMA SwapFunctorsInv == Inv /\ SwapFunctors => Inv'
<1> SUFFICES ASSUME Inv, SwapFunctors PROVE Inv'
  OBVIOUS
<1>1. InvParts
  BY Parts
<1>2. /\ UNCHANGED <<connectorVars, connection_, quit_, starts, attempts,
                     chan, sock, conn, overlapped>>
      /\ batch = <<>> /\ batch' = pending /\ pending' = <<>>
  BY DEF SwapFunctors, AtRest
<1> USE DEF connectorVars
<1>3. pending \in Seq(FunctorNames)
  BY <1>1 DEF InvParts, ConnectorTypes
<1>4. Queue' = Queue
  BY <1>2, <1>3, ConcatEmptySeq DEF Queue
<1>5. ConnectorTypes' /\ ClientTypes'
  BY <1>1, <1>2, <1>3 DEF InvParts, ConnectorTypes, ClientTypes
<1>6. OwnersExist' /\ Untouched'
  BY <1>1, <1>2 DEF InvParts, OwnersExist, Untouched
<1>7. StartsCounted' /\ starts' \in 0 .. MaxStarts /\ attempts' \in Nat
  BY <1>1, <1>2, <1>4 DEF InvParts, StartsCounted, CountTypes
<1>8. overlapped' \/ Orderly'
  BY <1>1, <1>2, <1>4 DEF InvParts, Orderly, OneReset, Kept, Closed
<1> QED BY <1>5, <1>6, <1>7, <1>8, InvNext

\* startInLoop() is run between handlers, or as a functor.
LEMMA StartRunInv ==
    ASSUME Inv, NEW k \in FieldsType, RunStart(k, connection_),
           k.channel_ = channel_, k.chan = chan, k.sock = sock,
           k.state_ = state_, UNCHANGED <<connection_, conn, quit_>>,
           attempts + 1 \in Attempts, starts' \in 0 .. MaxStarts,
           batch' \in Seq(FunctorNames), StartsCounted',
           OneReset(Queue) => OneReset(Queue'),
           ResetsAt(Queue') # {} => ResetsAt(Queue) # {}
    PROVE  Inv'
<1>1. InvParts
  BY Parts
<1>2. k.channel_ # None => k.chan[k.channel_].exists
  BY <1>1 DEF InvParts, OwnersExist
<1>3. /\ ConnectorTypes' /\ overlapped' \in BOOLEAN
      /\ attempts' = attempts + 1 /\ pending' = k.pending
      /\ channel_' # None => chan'[channel_'].exists
      /\ \A a \in Attempts : a > attempts + 1 =>
            /\ chan'[a].registered = chan[a].registered
            /\ sock'[a] = sock[a]
  BY <1>2, RunStartTypes
<1>4. ClientTypes' /\ OwnersExist'
  BY <1>1, <1>3 DEF InvParts, ClientTypes, OwnersExist
<1>5. Untouched'
  <2>1. \A a \in Attempts : a > attempts + 1 => a > attempts
    BY <1>1 DEF InvParts, Attempts
  <2> QED BY <1>1, <1>3, <2>1 DEF InvParts, Untouched
<1>6. attempts' \in Nat
  BY <1>1, <1>3 DEF InvParts
<1>7. ASSUME ~overlapped' PROVE Orderly'
  <2>1. ~overlapped
    BY <1>7 DEF RunStart
  <2>2. OneReset(Queue')
    BY <1>1, <2>1 DEF InvParts, Orderly
  <2> QED BY <1>7, <2>2, RunStartOrderly
<1> QED BY <1>3, <1>4, <1>5, <1>6, <1>7, InvNext

LEMMA StartHereInv == Inv /\ StartHere => Inv'
<1> SUFFICES ASSUME Inv, StartHere PROVE Inv'
  OBVIOUS
<1>1. InvParts
  BY Parts
<1> DEFINE k == [Fields EXCEPT !.connect_ = TRUE]
<1>2. /\ RunStart(k, connection_) /\ UNCHANGED <<connection_, batch, quit_, conn>>
      /\ starts < MaxStarts /\ starts' = starts + 1
  BY DEF StartHere
<1>3. /\ k \in FieldsType /\ k.channel_ = channel_ /\ k.chan = chan
      /\ k.sock = sock /\ k.state_ = state_ /\ k.pending = pending
  <2>1. k \in FieldsType
        /\ k = [connect_ |-> TRUE, channel_ |-> channel_, state_ |-> state_,
                chan |-> chan, sock |-> sock, pending |-> pending]
    BY <1>1, FieldsTyped DEF InvParts
  <2> HIDE DEF k
  <2> QED BY <2>1
<1> HIDE DEF k
<1>4. attempts + 1 \in Attempts /\ starts' \in 0 .. MaxStarts
  BY <1>1, <1>2, StartsAssumption DEF InvParts, CountTypes, Attempts
<1>5. k.channel_ # None => k.chan[k.channel_].exists
  BY <1>1, <1>3 DEF InvParts, OwnersExist
<1>6. attempts' = attempts + 1 /\ pending' = pending
  BY <1>2, <1>3, <1>4, <1>5, RunStartTypes
<1>7. Queue' = Queue
  BY <1>2, <1>6 DEF Queue
<1>8. StartsCounted'
  <2>1. Count(Queue) \in Nat
    BY <1>1, CountType DEF InvParts
  <2> QED BY <1>1, <1>2, <1>6, <1>7, <2>1 DEF InvParts, StartsCounted
<1>9. batch' \in Seq(FunctorNames)
  BY <1>1, <1>2 DEF InvParts, ClientTypes
<1> QED BY <1>2, <1>3, <1>4, <1>7, <1>8, <1>9, StartRunInv

LEMMA RunFunctorInv == Inv /\ RunFunctor => Inv'
<1> SUFFICES ASSUME Inv, RunFunctor PROVE Inv'
  OBVIOUS
<1>1. InvParts
  BY Parts
<1> USE DEF connectorVars
<1>2. /\ batch # <<>> /\ batch' = Tail(batch)
      /\ UNCHANGED <<connection_, starts, conn>>
  BY DEF RunFunctor
<1>3. batch' \in Seq(FunctorNames)
  BY <1>1, <1>2 DEF InvParts, ClientTypes
<1>4. ASSUME pending' = pending
      PROVE  /\ Count(Queue) = IF Head(batch) = "startInLoop"
                               THEN Count(Queue') + 1 ELSE Count(Queue')
             /\ Count(Queue') \in Nat
             /\ OneReset(Queue) => OneReset(Queue')
             /\ ResetsAt(Queue') # {} => ResetsAt(Queue) # {}
             /\ OneReset(Queue) /\ Head(batch) = "resetChannel" =>
                   ResetsAt(Queue') = {}
             /\ Head(batch) = "resetChannel" => ResetsAt(Queue) # {}
  <2>1. Queue # <<>> /\ Head(Queue) = Head(batch) /\ Queue' = Tail(Queue)
    BY <1>1, <1>2, <1>4, PopQueue DEF InvParts
  <2>2. Queue \in Seq(FunctorNames) /\ Queue' \in Seq(FunctorNames)
    BY <1>1, <2>1, TailQueue DEF InvParts
  <2>3. Count(Queue') \in Nat
    BY <2>2, CountType
  <2> QED BY <2>1, <2>2, <2>3, TailQueue
<1>5. /\ Fields \in FieldsType /\ Fields.channel_ = channel_
      /\ Fields.chan = chan /\ Fields.sock = sock /\ Fields.state_ = state_
      /\ Fields.pending = pending /\ Fields.connect_ = connect_
  BY <1>1, FieldsTyped DEF InvParts, Fields
<1>6. CASE Head(batch) = "startInLoop" /\ RunStart(Fields, connection_)
           /\ UNCHANGED quit_
  <2>1. attempts + 1 \in Attempts /\ starts' \in 0 .. MaxStarts
    <3>1. Count(Queue) \in Nat \ {0}
      <4>1. Queue # <<>> /\ Head(Queue) = "startInLoop"
            /\ Queue \in Seq(FunctorNames)
        <5>1. batch \in Seq(FunctorNames) /\ pending \in Seq(FunctorNames)
          BY <1>1 DEF InvParts, ClientTypes, ConnectorTypes
        <5>2. Queue # <<>>
          BY <5>1, <1>2, ConcatEqualIffEmpty DEF Queue
        <5>3. Head(Queue) = Head(batch)
          BY <5>1, <1>2 DEF Queue
        <5> QED BY <5>2, <5>3, <1>6, <1>1 DEF InvParts
      <4>2. Count(Tail(Queue)) \in Nat
        BY <4>1, TailQueue, CountType
      <4> QED BY <4>1, <4>2, TailQueue
    <3> QED BY <1>1, <1>2, <3>1, StartsAssumption
            DEF InvParts, StartsCounted, CountTypes, Attempts
  <2>2. Fields.channel_ # None => Fields.chan[Fields.channel_].exists
    BY <1>1, <1>5 DEF InvParts, OwnersExist
  <2> HIDE DEF Fields
  <2>3. attempts' = attempts + 1 /\ pending' = pending
    BY <1>5, <1>6, <2>1, <2>2, RunStartTypes
  <2>4. StartsCounted'
    BY <1>1, <1>2, <1>4, <1>6, <2>3 DEF InvParts, StartsCounted
  <2> QED BY <1>2, <1>3, <1>4, <1>5, <1>6, <2>1, <2>3, <2>4, StartRunInv
<1>7. CASE Head(batch) = "resetChannel" /\ Assign(Reset(Fields))
           /\ UNCHANGED <<quit_, attempts, overlapped>>
  <2> DEFINE r == Reset(Fields)
  <2>1. /\ r \in FieldsType /\ r.channel_ = None
        /\ r.connect_ = connect_ /\ r.state_ = state_
        /\ r.sock = sock /\ r.pending = pending
        /\ \A b \in Attempts : r.chan[b].registered = chan[b].registered
    BY <1>5, ResetEffect
  <2> HIDE DEF r
  <2>2. /\ ConnectorTypes' /\ channel_' = None /\ pending' = pending
        /\ sock' = sock /\ state_' = state_
        /\ \A b \in Attempts : chan'[b].registered = chan[b].registered
    <3>1. Assign(r)
      BY <1>7 DEF r
    <3> QED BY <2>1, <3>1, AssignTyped DEF Assign
  <2>3. ClientTypes' /\ OwnersExist' /\ Untouched'
    BY <1>1, <1>2, <1>3, <1>7, <2>2
       DEF InvParts, ClientTypes, OwnersExist, Untouched
  <2>4. StartsCounted' /\ starts' \in 0 .. MaxStarts /\ attempts' \in Nat
    BY <1>1, <1>2, <1>4, <1>7, <2>2 DEF InvParts, StartsCounted, CountTypes
  <2>5. ASSUME Orderly PROVE Orderly'
    <3>1. ResetsAt(Queue') = {} /\ OneReset(Queue')
      BY <1>4, <1>7, <2>2, <2>5 DEF Orderly
    <3>2. \A a \in Attempts : ~chan[a].registered
      BY <1>4, <1>7, <2>2, <2>5 DEF Orderly
    <3>3. \A a \in Attempts : Kept(a)'
      BY <1>2, <2>2, <2>5 DEF Orderly, Kept, Closed
    <3> QED BY <1>2, <2>2, <2>5, <3>1, <3>2, <3>3 DEF Orderly
  <2> QED BY <1>1, <1>7, <2>2, <2>3, <2>4, <2>5, InvNext DEF InvParts
<1>8. CASE Head(batch) = "quit" /\ quit_' = TRUE
           /\ UNCHANGED <<connectorVars, pending, attempts, chan, sock,
                          overlapped>>
  <2>1. ConnectorTypes' /\ ClientTypes'
    BY <1>1, <1>2, <1>3, <1>8 DEF InvParts, ConnectorTypes, ClientTypes
  <2>2. OwnersExist' /\ Untouched'
    BY <1>1, <1>2, <1>8 DEF InvParts, OwnersExist, Untouched
  <2>3. StartsCounted' /\ starts' \in 0 .. MaxStarts /\ attempts' \in Nat
    BY <1>1, <1>2, <1>4, <1>8 DEF InvParts, StartsCounted, CountTypes
  <2>4. overlapped' \/ Orderly'
    BY <1>1, <1>2, <1>4, <1>8 DEF InvParts, Orderly, Kept, Closed
  <2> QED BY <2>1, <2>2, <2>3, <2>4, InvNext
<1> QED BY <1>6, <1>7, <1>8 DEF RunFunctor

\* handleWrite(): what removeAndResetChannel() leaves to the rest of it.
Removed(k) ==
    /\ k \in FieldsType
    /\ k.channel_ = channel_ /\ k.sock = sock
    /\ k.pending = Append(pending, "resetChannel")
    /\ \A b \in Attempts :
          /\ k.chan[b].exists = chan[b].exists
          /\ b # channel_ => k.chan[b] = chan[b]
          /\ b = channel_ => ~k.chan[b].registered

LEMMA RemovedFields ==
    ConnectorTypes => Removed(RemoveAndResetChannel(Fields))
<1> SUFFICES ASSUME ConnectorTypes
             PROVE  Removed(RemoveAndResetChannel(Fields))
  OBVIOUS
<1>1. /\ Fields \in FieldsType /\ Fields.channel_ = channel_
      /\ Fields.chan = chan /\ Fields.sock = sock
      /\ Fields.pending = pending
  BY FieldsTyped DEF Fields
<1> HIDE DEF Fields
<1> QED BY <1>1, RemoveEffect DEF Removed

LEMMA RemovedQueue ==
    ASSUME Inv, pending' = Append(pending, "resetChannel"), batch' = batch
    PROVE  /\ Count(Queue') = Count(Queue) /\ Count(Queue) \in Nat
           /\ ResetsAt(Queue) = {} => OneReset(Queue')
<1>1. InvParts
  BY Parts
<1>2. "resetChannel" \in FunctorNames
  BY DEF FunctorNames
<1>3. Queue' = Append(Queue, "resetChannel")
  BY <1>1, <1>2, PushQueue DEF InvParts
<1>4. Count(Queue') = Count(Queue)
      /\ ResetsAt(Queue') = ResetsAt(Queue) \cup {Len(Queue) + 1}
  BY <1>1, <1>2, <1>3, AppendQueue DEF InvParts
<1>5. Count(Queue) \in Nat
  BY <1>1, CountType DEF InvParts
<1> QED BY <1>4, <1>5 DEF OneReset

\* The attempt of channel a failed: its socket is closed.
LEMMA HandleFailedInv ==
    ASSUME Inv, NEW a \in Attempts, chan[a].registered, NEW k, Removed(k),
           Assign(Retry(k, a)),
           UNCHANGED <<connection_, starts, attempts, conn, overlapped,
                       batch, quit_>>
    PROVE  Inv'
<1>1. InvParts
  BY Parts
<1> DEFINE s == [k.sock EXCEPT ![a] = "closed"]
           r == Retry(k, a)
<1>2. s \in [Attempts -> SockStates]
  BY DEF FieldsType, SockStates, Removed
<1>3. r = [k EXCEPT !.sock = s, !.state_ = "Disconnected"]
  BY DEF Retry
<1> HIDE DEF s, r
<1>4. /\ r \in FieldsType /\ r.channel_ = channel_ /\ r.chan = k.chan
      /\ r.sock = s /\ r.pending = k.pending
  BY <1>2, <1>3 DEF FieldsType, States, Removed
<1>5. Assign(r)
  BY DEF r
<1>6. /\ ConnectorTypes' /\ channel_' = channel_ /\ chan' = k.chan
      /\ sock' = s /\ pending' = k.pending
  BY <1>4, <1>5, AssignTyped DEF Assign
<1>7. /\ sock'[a] = "closed"
      /\ \A b \in Attempts : b # a => sock'[b] = sock[b]
  <2>1. sock \in [Attempts -> SockStates]
    BY <1>1 DEF InvParts, ConnectorTypes
  <2> QED BY <1>6, <2>1 DEF s, Removed
<1>8. ClientTypes' /\ OwnersExist'
  BY <1>1, <1>6 DEF InvParts, ClientTypes, OwnersExist, ConnectorTypes, Removed
<1>9. Untouched'
  <2>1. ~(a > attempts)
    BY <1>1 DEF InvParts, Untouched
  <2>2. \A b \in Attempts : ~chan[b].registered => ~chan'[b].registered
    BY <1>6 DEF Removed
  <2> QED BY <1>1, <1>7, <2>1, <2>2 DEF InvParts, Untouched
<1>10. StartsCounted' /\ starts' \in 0 .. MaxStarts /\ attempts' \in Nat
  <2>1. Count(Queue') = Count(Queue)
    BY <1>6, RemovedQueue DEF Removed
  <2> QED BY <1>1, <2>1 DEF InvParts, StartsCounted, CountTypes
<1>11. ASSUME Orderly PROVE Orderly'
  <2>1. channel_ = a /\ connection_ = None /\ ResetsAt(Queue) = {}
    BY <1>11 DEF Orderly
  <2>2. OneReset(Queue')
    BY <1>6, <2>1, RemovedQueue DEF Removed
  <2>3. \A b \in Attempts : ~chan'[b].registered
    BY <1>6, <1>11, <2>1 DEF Orderly, Removed
  <2>4. \A b \in Attempts : ~conn[b].registered
    BY <1>11, <2>1 DEF Orderly, Attempts, None
  <2>5. \A b \in Attempts : Kept(b)'
    <3>1. \A b \in Attempts : b # a => Closed(b)
      BY <1>11, <2>1, <2>4 DEF Orderly, Kept
    <3> QED BY <1>7, <2>3, <2>4, <3>1 DEF Kept, Closed
  <2>6. channel_' # None
    BY <1>6, <2>1 DEF Attempts, None
  <2> QED BY <1>6, <2>1, <2>2, <2>3, <2>4, <2>5, <2>6 DEF Orderly
<1> QED BY <1>1, <1>6, <1>8, <1>9, <1>10, <1>11, InvNext DEF InvParts

\* The new connection takes the place of an earlier one.
LEMMA ReplacedEffect ==
    ASSUME Inv, NEW a \in Attempts, conn' = Replaced(a), connection_' = a
    PROVE  /\ conn' \in [Attempts -> ConnType]
           /\ conn'[connection_'].exists
           /\ conn'[a].registered
           /\ \A b \in Attempts : b # a =>
                 conn'[b].registered = conn[b].registered
<1>1. conn \in [Attempts -> ConnType]
  BY Parts DEF InvParts, ClientTypes
<1> QED BY <1>1 DEF Replaced, ConnType

LEMMA HandleConnectedInv ==
    ASSUME Inv, NEW a \in Attempts, chan[a].registered, NEW k, Removed(k),
           sock[a] = "connected", connection_' = a, conn' = Replaced(a),
           Assign([k EXCEPT !.state_ = "Connected"]),
           UNCHANGED <<starts, attempts, overlapped, batch, quit_>>
    PROVE  Inv'
<1>1. InvParts
  BY Parts
<1> DEFINE r == [k EXCEPT !.state_ = "Connected"]
<1>2. /\ r \in FieldsType /\ r.channel_ = channel_ /\ r.chan = k.chan
      /\ r.sock = sock /\ r.pending = k.pending
  BY DEF FieldsType, States, Removed
<1> HIDE DEF r
<1>3. Assign(r)
  BY DEF r
<1>4. /\ ConnectorTypes' /\ channel_' = channel_ /\ chan' = k.chan
      /\ sock' = sock /\ pending' = k.pending
  BY <1>2, <1>3, AssignTyped DEF Assign
<1>5. /\ conn' \in [Attempts -> ConnType]
      /\ conn'[connection_'].exists
      /\ conn'[a].registered
      /\ \A b \in Attempts : b # a => conn'[b].registered = conn[b].registered
  BY ReplacedEffect
<1>6. ClientTypes' /\ OwnersExist'
  BY <1>1, <1>4, <1>5
     DEF InvParts, ClientTypes, OwnersExist, ConnectorTypes, Removed
<1>7. Untouched'
  <2>1. ~(a > attempts)
    BY <1>1 DEF InvParts, Untouched
  <2>2. \A b \in Attempts : ~chan[b].registered => ~chan'[b].registered
    BY <1>4 DEF Removed
  <2> QED BY <1>1, <1>4, <1>5, <2>1, <2>2 DEF InvParts, Untouched
<1>8. StartsCounted' /\ starts' \in 0 .. MaxStarts /\ attempts' \in Nat
  <2>1. Count(Queue') = Count(Queue)
    BY <1>4, RemovedQueue DEF Removed
  <2> QED BY <1>1, <2>1 DEF InvParts, StartsCounted, CountTypes
<1>9. ASSUME Orderly PROVE Orderly'
  <2>1. channel_ = a /\ connection_ = None /\ ResetsAt(Queue) = {}
    BY <1>9 DEF Orderly
  <2>2. OneReset(Queue')
    BY <1>4, <2>1, RemovedQueue DEF Removed
  <2>3. \A b \in Attempts : ~chan'[b].registered
    BY <1>4, <1>9, <2>1 DEF Orderly, Removed
  <2>4. \A b \in Attempts : ~conn[b].registered
    BY <1>9, <2>1 DEF Orderly, Attempts, None
  <2>5. \A b \in Attempts : Kept(b)'
    <3>1. \A b \in Attempts : b # a => Closed(b)
      BY <1>9, <2>1, <2>4 DEF Orderly, Kept
    <3> QED BY <1>4, <1>5, <2>3, <2>4, <3>1 DEF Kept, Closed
  <2>6. channel_' # None
    BY <1>4, <2>1 DEF Attempts, None
  <2> QED BY <1>4, <1>5, <2>1, <2>2, <2>3, <2>4, <2>5, <2>6 DEF Orderly
<1> QED BY <1>1, <1>4, <1>6, <1>7, <1>8, <1>9, InvNext DEF InvParts

\* The callback of the new connection calls start(): an overlap.
LEMMA HandleRestartInv ==
    ASSUME Inv, NEW a \in Attempts, chan[a].registered, NEW k, Removed(k),
           connection_' = a, conn' = Replaced(a),
           starts < MaxStarts, starts' = starts + 1,
           RunStart([k EXCEPT !.state_ = "Connected", !.connect_ = TRUE], a),
           UNCHANGED <<batch, quit_>>
    PROVE  Inv' /\ overlapped'
<1>1. InvParts
  BY Parts
<1> DEFINE r == [k EXCEPT !.state_ = "Connected", !.connect_ = TRUE]
<1>2. /\ r \in FieldsType /\ r.channel_ = channel_ /\ r.chan = k.chan
      /\ r.sock = sock /\ r.pending = k.pending
  BY DEF FieldsType, States, Removed
<1> HIDE DEF r
<1>3. RunStart(r, a)
  BY DEF r
<1>4. r.channel_ # None => r.chan[r.channel_].exists
  BY <1>1, <1>2 DEF InvParts, OwnersExist, ConnectorTypes, Removed
<1>5. attempts + 1 \in Attempts /\ starts' \in 0 .. MaxStarts
  BY <1>1, StartsAssumption DEF InvParts, CountTypes, Attempts
<1>6. /\ ConnectorTypes' /\ overlapped' \in BOOLEAN
      /\ attempts' = attempts + 1 /\ pending' = k.pending
      /\ channel_' # None => chan'[channel_'].exists
      /\ \A b \in Attempts : b > attempts + 1 =>
            /\ chan'[b].registered = k.chan[b].registered
            /\ sock'[b] = sock[b]
  BY <1>2, <1>3, <1>4, <1>5, RunStartTypes
<1>7. overlapped'
  <2>1. a # None
    BY DEF Attempts, None
  <2> QED BY <1>3, <2>1 DEF RunStart
<1>8. /\ conn' \in [Attempts -> ConnType]
      /\ conn'[connection_'].exists
      /\ \A b \in Attempts : b # a => conn'[b].registered = conn[b].registered
  BY ReplacedEffect
<1>9. ClientTypes' /\ OwnersExist'
  BY <1>1, <1>6, <1>8 DEF InvParts, ClientTypes, OwnersExist
<1>10. Untouched'
  <2>1. ~(a > attempts)
    BY <1>1 DEF InvParts, Untouched
  <2>2. \A b \in Attempts : ~chan[b].registered => ~k.chan[b].registered
    BY DEF Removed
  <2>3. \A b \in Attempts : b > attempts + 1 => b > attempts
    BY <1>1 DEF InvParts, Attempts
  <2> QED BY <1>1, <1>6, <1>8, <2>1, <2>2, <2>3 DEF InvParts, Untouched
<1>11. StartsCounted' /\ attempts' \in Nat
  <2>1. Count(Queue') = Count(Queue) /\ Count(Queue) \in Nat
    BY <1>6, RemovedQueue DEF Removed
  <2> QED BY <1>1, <1>6, <2>1 DEF InvParts, StartsCounted
<1> QED BY <1>5, <1>6, <1>7, <1>9, <1>10, <1>11, InvNext

LEMMA HandleWriteInv ==
    ASSUME Inv, NEW a \in Attempts, HandleWrite(a)
    PROVE  Inv' /\ (chan'[a].exists \/ overlapped')
<1> DEFINE k == RemoveAndResetChannel(Fields)
<1>1. Removed(k)
  BY Parts, RemovedFields DEF InvParts
<1>2. /\ AtRest /\ chan[a].registered /\ UNCHANGED <<batch, quit_>>
      /\ \/ /\ Assign(Retry(k, a))
            /\ UNCHANGED <<connection_, starts, attempts, conn, overlapped>>
         \/ /\ sock[a] = "connected" /\ connection_' = a /\ conn' = Replaced(a)
            /\ Assign([k EXCEPT !.state_ = "Connected"])
            /\ UNCHANGED <<starts, attempts, overlapped>>
         \/ /\ connection_' = a /\ conn' = Replaced(a)
            /\ starts < MaxStarts /\ starts' = starts + 1
            /\ RunStart([k EXCEPT !.state_ = "Connected",
                                  !.connect_ = TRUE], a)
  BY DEF HandleWrite
<1> HIDE DEF k
<1>3. chan[a].exists /\ k.chan[a].exists
  BY <1>1, <1>2 DEF AtRest, Dangling, Removed
<1>4. CASE /\ Assign(Retry(k, a))
           /\ UNCHANGED <<connection_, starts, attempts, conn, overlapped>>
  <2>1. chan' = k.chan
    BY <1>1, <1>4 DEF Assign, Retry, Removed, FieldsType
  <2> QED BY <1>1, <1>2, <1>3, <1>4, <2>1, HandleFailedInv
<1>5. CASE /\ sock[a] = "connected" /\ connection_' = a /\ conn' = Replaced(a)
           /\ Assign([k EXCEPT !.state_ = "Connected"])
           /\ UNCHANGED <<starts, attempts, overlapped>>
  <2>1. chan' = k.chan
    BY <1>1, <1>5 DEF Assign, Removed, FieldsType
  <2> QED BY <1>1, <1>2, <1>3, <1>5, <2>1, HandleConnectedInv
<1>6. CASE /\ connection_' = a /\ conn' = Replaced(a)
           /\ starts < MaxStarts /\ starts' = starts + 1
           /\ RunStart([k EXCEPT !.state_ = "Connected", !.connect_ = TRUE], a)
  BY <1>1, <1>2, <1>6, HandleRestartInv
<1> QED BY <1>2, <1>4, <1>5, <1>6

\* A step that changes nothing.
LEMMA StutterInv == Inv /\ UNCHANGED vars => Inv'
<1> SUFFICES ASSUME Inv, UNCHANGED vars PROVE Inv'
  OBVIOUS
<1>1. conn \in [Attempts -> ConnType]
  BY Parts DEF InvParts, ClientTypes
<1> QED BY <1>1, OnlyState DEF vars

LEMMA InitInv == Init => Inv
<1> SUFFICES ASSUME Init PROVE Inv
  OBVIOUS
<1>1. ConnectorTypes /\ ClientTypes /\ CountTypes /\ OwnersExist
  <2>1. CountTypes /\ OwnersExist
    BY StartsAssumption DEF Init, CountTypes, OwnersExist
  <2>2. NoChannel \in ChannelType /\ NoConn \in ConnType
        /\ "none" \in SockStates /\ <<>> \in Seq(FunctorNames)
    BY DEF NoChannel, ChannelType, NoConn, ConnType, SockStates
  <2>3. /\ chan \in [Attempts -> ChannelType]
        /\ sock \in [Attempts -> SockStates]
        /\ conn \in [Attempts -> ConnType]
        /\ pending \in Seq(FunctorNames) /\ batch \in Seq(FunctorNames)
    BY <2>2 DEF Init
  <2>4. ConnectorTypes /\ ClientTypes
    BY <2>3 DEF Init, ConnectorTypes, ClientTypes, States
  <2> QED BY <2>1, <2>4
<1>2. Queue = <<>>
  BY ConcatEmptySeq DEF Init, Queue
<1>3. StartsAt(<<>>) = {} /\ ResetsAt(<<>>) = {}
  BY DEF StartsAt, ResetsAt
<1>4. StartsCounted
  BY <1>2, <1>3, FS_EmptySet DEF Init, StartsCounted, Count
<1>5. Untouched /\ Orderly
  BY <1>2, <1>3 DEF Init, Untouched, Orderly, OneReset, Kept, Closed,
                    NoChannel, NoConn
<1> QED BY <1>1, <1>4, <1>5, StateParts DEF Inv

LEMMA NextInv == Inv /\ [Next]_vars => Inv'
BY StartElsewhereInv, StartHereInv, StopInv, ResolveInv, PeerClosesInv,
   StutterInv, SwapFunctorsInv, RunFunctorInv, HandleWriteInv, HandleCloseInv
   DEF Next, LoopStep, HandleWriteIgnored

-----------------------------------------------------------------------------
(* What TcpClient and Connector keep, whatever the order of the calls of   *)
(* start() and stop(), the events and the functors: the inductive          *)
(* invariant holds in every reachable state.                               *)
THEOREM Invariance == Spec => []Inv
BY InitInv, NextInv, PTL DEF Spec

(* channel_ and connection_ never point to what was destroyed.             *)
THEOREM StateCorrect == Spec => []StateOK
<1>1. Inv => StateOK
  BY DEF Inv
<1> QED BY <1>1, Invariance, PTL

(* A poller is left with a pointer to a destroyed channel or connection    *)
(* only if start() ran while the client still had the channel or the       *)
(* connection of an earlier start(): the delayed channel_.reset() of       *)
(* removeAndResetChannel() alone never hits a channel in use.              *)
THEOREM DanglingCorrect == Spec => []DanglingOnlyByOverlap
<1>1. Inv => DanglingOnlyByOverlap
  <2> SUFFICES ASSUME InvParts, Dangling, ~overlapped PROVE FALSE
    BY Parts DEF DanglingOnlyByOverlap
  <2>1. Orderly /\ OwnersExist
    BY DEF InvParts
  <2> QED BY <2>1 DEF Orderly, OwnersExist, Dangling, Attempts, None
<1> QED BY <1>1, Invariance, PTL

(* Unless starts overlap, no socket made by connect() is lost: it is       *)
(* closed, or exactly one of its channel and its connection is polled.     *)
THEOREM SocketsCorrect == Spec => []SocketsAccounted
<1>1. Inv => SocketsAccounted
  <2> SUFFICES ASSUME InvParts, Orderly PROVE SocketsAccounted
    BY Parts DEF InvParts, SocketsAccounted
  <2>1. \A a \in Attempts : /\ chan[a].registered \in BOOLEAN
                            /\ conn[a].registered \in BOOLEAN
    BY DEF InvParts, ConnectorTypes, ClientTypes, ChannelType, ConnType
  <2> SUFFICES ASSUME NEW a \in Attempts
               PROVE  /\ ~Closed(a) => chan[a].registered # conn[a].registered
                      /\ Closed(a) => ~chan[a].registered /\ ~conn[a].registered
                      /\ chan[a].registered => channel_ = a /\ state_ = "Connecting"
    BY DEF SocketsAccounted, Closed
  <2>2. Kept(a)
    BY DEF Orderly
  <2> QED BY <2>1, <2>2 DEF Orderly, Kept
<1> QED BY <1>1, Invariance, PTL

(* handleWrite() leaves its own channel alive, so that handleEvent() may   *)
(* go on using it, unless the callback of the new connection calls         *)
(* start().                                                                *)
THEOREM AliveCorrect == Spec => AliveInHandler
<1>1. Inv => [\A a \in Attempts :
                  HandleWrite(a) => chan'[a].exists \/ overlapped']_vars
  BY HandleWriteInv
<1> QED BY <1>1, Invariance, PTL DEF AliveInHandler

=============================================================================
