--------------------------- MODULE TcpServerProofs ---------------------------
(***************************************************************************)
(* Proofs about TcpServer, for any number of connections and any pool, and *)
(* about the Acceptor it owns, for any table of descriptors.               *)
(***************************************************************************)
EXTENDS TcpServer, Acceptor, FiniteSetTheorems, SequenceTheorems, TLAPS

Functors ==
    [op : {"establish", "remove", "destroy"}, conn : Conns]
    \cup [op : {"quit"}, conn : {None}]

-----------------------------------------------------------------------------
\* The queues of all loops, as a value Q.

QueuesType ==
    [pending : [Loops -> Seq(Functors)], batch : [Loops -> Seq(Functors)],
     index : [Loops -> Nat]]
Queues == [pending |-> pending, batch |-> batch, index |-> index]

\* No more functors of a batch have been run than there are.
IndexOK(Q) == \A l \in Loops : Q.index[l] <= Len(Q.batch[l])

\* Functor f is the i-th of pending[l] (q = 0), or the i-th of batch[l] and
\* still to be run (q = 1).
At(Q, f, l, q, i) ==
    \/ q = 0 /\ i \in 1 .. Len(Q.pending[l]) /\ Q.pending[l][i] = f
    \/ /\ q = 1 /\ i \in 1 .. Len(Q.batch[l]) /\ i > Q.index[l]
       /\ Q.batch[l][i] = f

Queued(Q, f) == \E l \in Loops, q \in {0, 1}, i \in Nat : At(Q, f, l, q, i)
Once(Q, f) ==
    \A l, m \in Loops, q, r \in {0, 1}, i, j \in Nat :
        At(Q, f, l, q, i) /\ At(Q, f, m, r, j) => l = m /\ q = r /\ i = j
OnlyAtBase(Q, f) ==
    \A l \in Loops, q \in {0, 1}, i \in Nat : At(Q, f, l, q, i) => l = Base

\* A functor of some loop refers to connection c, run or not.
Refers(Q, c) ==
    \E l \in Loops :
        \/ \E i \in 1 .. Len(Q.pending[l]) : Q.pending[l][i].conn = c
        \/ \E i \in 1 .. Len(Q.batch[l]) : Q.batch[l][i].conn = c

\* R has the same functors waiting as Q.
Same(Q, R) ==
    /\ R \in QueuesType /\ IndexOK(R)
    /\ \A f : /\ Queued(R, f) <=> Queued(Q, f)
              /\ Once(Q, f) => Once(R, f)
              /\ OnlyAtBase(Q, f) => OnlyAtBase(R, f)
    /\ \A c : Refers(R, c) => Refers(Q, c)

\* R has functor g in addition, at the end of pending[l].
Adds(Q, R, l, g) ==
    /\ R \in QueuesType /\ IndexOK(R) /\ Queued(R, g)
    /\ \A f : /\ Queued(Q, f) => Queued(R, f)
              /\ Queued(R, f) => Queued(Q, f) \/ f = g
              /\ Once(Q, f) /\ (f = g => ~Queued(Q, f)) => Once(R, f)
              /\ OnlyAtBase(Q, f) /\ (f = g => l = Base) => OnlyAtBase(R, f)
    /\ \A c : Refers(R, c) => Refers(Q, c) \/ c = g.conn

\* In R functor g has been run.
Takes(Q, R, g) ==
    /\ R \in QueuesType /\ IndexOK(R) /\ Queued(Q, g)
    /\ Once(Q, g) => ~Queued(R, g)
    /\ \A f : /\ Queued(R, f) => Queued(Q, f)
              /\ Queued(Q, f) => Queued(R, f) \/ f = g
              /\ Once(Q, f) => Once(R, f)
              /\ OnlyAtBase(Q, f) => OnlyAtBase(R, f)
    /\ \A c : Refers(R, c) <=> Refers(Q, c)
    /\ Refers(Q, g.conn)

LEMMA QueuesFields ==
    ASSUME NEW Q \in QueuesType
    PROVE  /\ Q.pending \in [Loops -> Seq(Functors)]
           /\ Q.batch \in [Loops -> Seq(Functors)]
           /\ Q.index \in [Loops -> Nat]
           /\ \A l \in Loops : /\ Q.pending[l] \in Seq(Functors)
                               /\ Len(Q.pending[l]) \in Nat
                               /\ Q.batch[l] \in Seq(Functors)
                               /\ Len(Q.batch[l]) \in Nat
                               /\ Q.index[l] \in Nat
BY LenProperties DEF QueuesType

\* All places of f in R are places in Q; f is at no place but (l, p, n).
Fewer(Q, R, f) ==
    \A m \in Loops, q \in {0, 1}, i \in Nat :
        At(R, f, m, q, i) => At(Q, f, m, q, i)
JustAt(R, f, l, p, n) ==
    \A m \in Loops, q \in {0, 1}, i \in Nat :
        At(R, f, m, q, i) => m = l /\ q = p /\ i = n

LEMMA OnceLess == \A Q, R, f : Once(Q, f) /\ Fewer(Q, R, f) => Once(R, f)
BY DEF Once, Fewer

LEMMA OnceIf == \A R, f, l, p, n : JustAt(R, f, l, p, n) => Once(R, f)
BY DEF Once, JustAt

LEMMA PushEffect ==
    ASSUME NEW Q \in QueuesType, IndexOK(Q), NEW l \in Loops,
           NEW g \in Functors, NEW R,
           R = [pending |-> [Q.pending EXCEPT ![l] = Append(@, g)],
                batch |-> Q.batch, index |-> Q.index]
    PROVE  Adds(Q, R, l, g)
<1> DEFINE n == Len(Q.pending[l]) + 1
<1>1. /\ n \in Nat \ {0}
      /\ R.pending[l] = Append(Q.pending[l], g)
      /\ \A m \in Loops : m # l => R.pending[m] = Q.pending[m]
      /\ R.batch = Q.batch /\ R.index = Q.index
  BY QueuesFields
<1>2. /\ R.pending[l] \in Seq(Functors)
      /\ Len(R.pending[l]) = n /\ R.pending[l][n] = g
      /\ \A i \in 1 .. Len(Q.pending[l]) : R.pending[l][i] = Q.pending[l][i]
  BY <1>1, QueuesFields, AppendProperties
<1>3. R \in QueuesType /\ IndexOK(R)
  <2>1. [Q.pending EXCEPT ![l] = Append(@, g)] \in [Loops -> Seq(Functors)]
    BY <1>1, <1>2, QueuesFields
  <2> QED BY <1>1, <2>1, QueuesFields DEF QueuesType, IndexOK
<1>4. ASSUME NEW f, NEW m \in Loops, NEW q \in {0, 1}, NEW i \in Nat
      PROVE  At(R, f, m, q, i) <=>
                At(Q, f, m, q, i) \/ (f = g /\ m = l /\ q = 0 /\ i = n)
  <2>1. CASE m # l
    BY <1>1, <2>1 DEF At
  <2>2. CASE m = l
    <3>1. i \in 1 .. n <=> i \in 1 .. Len(Q.pending[l]) \/ i = n
      BY <1>1, QueuesFields
    <3>2. n \notin 1 .. Len(Q.pending[l])
      BY <1>1, QueuesFields
    <3> HIDE DEF n
    <3> QED BY <1>1, <1>2, <2>2, <3>1, <3>2 DEF At
  <2> QED BY <2>1, <2>2
<1>5. n \in Nat /\ \A i \in 1 .. n : i \in 1 .. Len(Q.pending[l]) \/ i = n
  BY <1>1, QueuesFields
<1> HIDE DEF n
<1>6. ASSUME NEW f
      PROVE  /\ Queued(Q, f) => Queued(R, f)
             /\ Queued(R, f) => Queued(Q, f) \/ f = g
  <2>1. \A m \in Loops, q \in {0, 1}, i \in Nat :
           /\ At(Q, f, m, q, i) => At(R, f, m, q, i)
           /\ At(R, f, m, q, i) => At(Q, f, m, q, i) \/ f = g
    BY <1>4
  <2>2. Queued(Q, f) => Queued(R, f)
    BY <2>1, Zenon DEF Queued
  <2>3. Queued(R, f) => Queued(Q, f) \/ f = g
    BY <2>1, Zenon DEF Queued
  <2> QED BY <2>2, <2>3
<1>7. ASSUME NEW f, Once(Q, f), f = g => ~Queued(Q, f)
      PROVE  Once(R, f)
  <2>1. CASE f = g
    <3>1. \A m \in Loops, q \in {0, 1}, i \in Nat : ~At(Q, g, m, q, i)
      BY <1>7, <2>1 DEF Queued
    <3>2. JustAt(R, g, l, 0, n)
      <4>1. ASSUME NEW m \in Loops, NEW q \in {0, 1}, NEW i \in Nat,
                   At(R, g, m, q, i)
            PROVE  m = l /\ q = 0 /\ i = n
        <5>1. At(Q, g, m, q, i) \/ (m = l /\ q = 0 /\ i = n)
          BY <1>4, <4>1
        <5> QED BY <3>1, <5>1
      <4> QED BY <4>1 DEF JustAt
    <3>3. Once(R, g)
      BY <3>2, OnceIf
    <3> QED BY <2>1, <3>3
  <2>2. CASE f # g
    <3>1. Fewer(Q, R, f)
      BY <1>4, <2>2 DEF Fewer
    <3> QED BY <1>7, <3>1, OnceLess
  <2> QED BY <2>1, <2>2
<1>8. ASSUME NEW f, OnlyAtBase(Q, f), f = g => l = Base
      PROVE  OnlyAtBase(R, f)
  BY <1>4, <1>8 DEF OnlyAtBase
<1>9. Queued(R, g)
  BY <1>4, <1>5 DEF Queued
<1>10. ASSUME NEW c, Refers(R, c)
       PROVE  Refers(Q, c) \/ c = g.conn
  BY <1>1, <1>2, <1>5, <1>10 DEF Refers
<1> QED BY <1>3, <1>6, <1>7, <1>8, <1>9, <1>10 DEF Adds

LEMMA SwapEffect ==
    ASSUME NEW Q \in QueuesType, IndexOK(Q), NEW l \in Loops,
           Q.batch[l] = <<>>, NEW R,
           R = [pending |-> [Q.pending EXCEPT ![l] = <<>>],
                batch |-> [Q.batch EXCEPT ![l] = Q.pending[l]],
                index |-> Q.index]
    PROVE  Same(Q, R)
<1>1. /\ R.batch[l] = Q.pending[l] /\ R.pending[l] = <<>>
      /\ R.index = Q.index
      /\ \A m \in Loops : m # l => /\ R.pending[m] = Q.pending[m]
                                   /\ R.batch[m] = Q.batch[m]
  BY QueuesFields
<1>2. Q.index[l] = 0
  BY QueuesFields DEF IndexOK
<1>3. R \in QueuesType /\ IndexOK(R)
  <2>1. /\ [Q.pending EXCEPT ![l] = <<>>] \in [Loops -> Seq(Functors)]
        /\ [Q.batch EXCEPT ![l] = Q.pending[l]] \in [Loops -> Seq(Functors)]
    BY QueuesFields
  <2> QED BY <1>1, <1>2, <2>1, QueuesFields DEF QueuesType, IndexOK
<1>4. ASSUME NEW f, NEW m \in Loops, NEW i \in Nat
      PROVE  /\ m # l => \A q \in {0, 1} : At(R, f, m, q, i) <=> At(Q, f, m, q, i)
             /\ ~At(R, f, l, 0, i) /\ ~At(Q, f, l, 1, i)
             /\ At(R, f, l, 1, i) <=> At(Q, f, l, 0, i)
  BY <1>1, <1>2 DEF At
<1>5. ASSUME NEW f PROVE Queued(R, f) <=> Queued(Q, f)
  BY <1>4 DEF Queued
<1>6. ASSUME NEW f, Once(Q, f) PROVE Once(R, f)
  <2> SUFFICES ASSUME NEW a \in Loops, NEW m \in Loops, NEW q \in {0, 1},
                      NEW r \in {0, 1}, NEW i \in Nat, NEW j \in Nat,
                      At(R, f, a, q, i), At(R, f, m, r, j)
               PROVE  a = m /\ q = r /\ i = j
    BY DEF Once
  <2>1. CASE a = l
    <3>1. q = 1 /\ At(Q, f, l, 0, i)
      BY <1>4, <2>1
    <3>2. CASE m = l
      BY <1>4, <1>6, <2>1, <3>1, <3>2 DEF Once
    <3>3. CASE m # l
      BY <1>4, <1>6, <3>1, <3>3 DEF Once
    <3> QED BY <3>2, <3>3
  <2>2. CASE a # l
    <3>1. At(Q, f, a, q, i)
      BY <1>4, <2>2
    <3>2. CASE m = l
      BY <1>4, <1>6, <2>2, <3>1, <3>2 DEF Once
    <3>3. CASE m # l
      BY <1>4, <1>6, <3>1, <3>3 DEF Once
    <3> QED BY <3>2, <3>3
  <2> QED BY <2>1, <2>2
<1>7. ASSUME NEW f, OnlyAtBase(Q, f) PROVE OnlyAtBase(R, f)
  BY <1>4, <1>7 DEF OnlyAtBase
<1>8. ASSUME NEW c, Refers(R, c) PROVE Refers(Q, c)
  BY <1>1, <1>8 DEF Refers
<1> QED BY <1>3, <1>5, <1>6, <1>7, <1>8 DEF Same

LEMMA EndEffect ==
    ASSUME NEW Q \in QueuesType, IndexOK(Q), NEW l \in Loops,
           Q.index[l] = Len(Q.batch[l]), NEW R,
           R = [pending |-> Q.pending,
                batch |-> [Q.batch EXCEPT ![l] = <<>>],
                index |-> [Q.index EXCEPT ![l] = 0]]
    PROVE  Same(Q, R)
<1>1. /\ R.batch[l] = <<>> /\ R.index[l] = 0 /\ R.pending = Q.pending
      /\ \A m \in Loops : m # l => /\ R.index[m] = Q.index[m]
                                   /\ R.batch[m] = Q.batch[m]
  BY QueuesFields
<1>2. R \in QueuesType /\ IndexOK(R)
  <2>1. /\ [Q.batch EXCEPT ![l] = <<>>] \in [Loops -> Seq(Functors)]
        /\ [Q.index EXCEPT ![l] = 0] \in [Loops -> Nat]
    BY QueuesFields
  <2> QED BY <1>1, <2>1, QueuesFields DEF QueuesType, IndexOK
<1>3. ASSUME NEW f, NEW m \in Loops, NEW q \in {0, 1}, NEW i \in Nat
      PROVE  At(R, f, m, q, i) <=> At(Q, f, m, q, i)
  BY <1>1, QueuesFields DEF At
<1>4. ASSUME NEW f
      PROVE  /\ Queued(R, f) <=> Queued(Q, f)
             /\ Once(Q, f) => Once(R, f)
             /\ OnlyAtBase(Q, f) => OnlyAtBase(R, f)
  <2>1. Once(Q, f) => Once(R, f)
    <3>1. Fewer(Q, R, f)
      BY <1>3 DEF Fewer
    <3> QED BY <3>1, OnceLess
  <2>2. Queued(R, f) <=> Queued(Q, f)
    BY <1>3 DEF Queued
  <2>3. OnlyAtBase(Q, f) => OnlyAtBase(R, f)
    BY <1>3 DEF OnlyAtBase
  <2> QED BY <2>1, <2>2, <2>3
<1>5. ASSUME NEW c, Refers(R, c) PROVE Refers(Q, c)
  BY <1>1, <1>5 DEF Refers
<1> QED BY <1>2, <1>4, <1>5 DEF Same

\* The next functor of loop l is run.
LEMMA RunEffect ==
    ASSUME NEW Q \in QueuesType, IndexOK(Q), NEW l \in Loops,
           Q.index[l] < Len(Q.batch[l]), NEW g,
           g = Q.batch[l][Q.index[l] + 1], NEW R,
           R = [pending |-> Q.pending, batch |-> Q.batch,
                index |-> [Q.index EXCEPT ![l] = @ + 1]]
    PROVE  Takes(Q, R, g) /\ g \in Functors /\ (OnlyAtBase(Q, g) => l = Base)
<1> DEFINE n == Q.index[l] + 1
<1>1. /\ n \in 1 .. Len(Q.batch[l]) /\ R.index[l] = n /\ n > Q.index[l]
      /\ \A m \in Loops : m # l => R.index[m] = Q.index[m]
      /\ R.pending = Q.pending /\ R.batch = Q.batch /\ n \in Nat
  BY QueuesFields
<1>2. R \in QueuesType /\ IndexOK(R)
  <2>1. [Q.index EXCEPT ![l] = @ + 1] \in [Loops -> Nat]
    BY QueuesFields
  <2> QED BY <1>1, <2>1, QueuesFields DEF QueuesType, IndexOK
<1>3. g \in Functors
  BY <1>1, QueuesFields, ElementOfSeq
<1>4. At(Q, g, l, 1, n) /\ Refers(Q, g.conn)
  BY <1>1 DEF At, Refers
<1>5. ASSUME NEW f, NEW m \in Loops, NEW q \in {0, 1}, NEW i \in Nat
      PROVE  At(R, f, m, q, i) <=>
                At(Q, f, m, q, i) /\ ~(m = l /\ q = 1 /\ i = n)
  <2>1. i > n <=> i > Q.index[l] /\ i # n
    BY <1>1, QueuesFields
  <2> HIDE DEF n
  <2> QED BY <1>1, <2>1 DEF At
<1>6. \A f : At(Q, f, l, 1, n) => f = g
  BY DEF At
<1>7. \A c : Refers(R, c) <=> Refers(Q, c)
  BY <1>1 DEF Refers
<1>8. n \in Nat
  BY <1>1
<1> HIDE DEF n
<1>9. Queued(Q, g)
  BY <1>4, <1>8 DEF Queued
<1>10. ASSUME NEW f PROVE  /\ Queued(R, f) => Queued(Q, f)
                           /\ Queued(Q, f) => Queued(R, f) \/ f = g
                           /\ OnlyAtBase(Q, f) => OnlyAtBase(R, f)
  <2>1. Queued(R, f) => Queued(Q, f)
    BY <1>5 DEF Queued
  <2>2. Queued(Q, f) => Queued(R, f) \/ f = g
    <3>1. ASSUME NEW m \in Loops, NEW q \in {0, 1}, NEW i \in Nat,
                 At(Q, f, m, q, i), f # g
          PROVE  At(R, f, m, q, i)
      BY <1>5, <1>6, <3>1
    <3> QED BY <3>1, Zenon DEF Queued
  <2>3. OnlyAtBase(Q, f) => OnlyAtBase(R, f)
    BY <1>5 DEF OnlyAtBase
  <2> QED BY <2>1, <2>2, <2>3
<1>11. ASSUME NEW f, Once(Q, f) PROVE Once(R, f)
  <2>1. Fewer(Q, R, f)
    BY <1>5 DEF Fewer
  <2> QED BY <1>11, <2>1, OnceLess
<1>12. ASSUME Once(Q, g) PROVE ~Queued(R, g)
  <2>1. ASSUME NEW m \in Loops, NEW q \in {0, 1}, NEW i \in Nat,
               At(R, g, m, q, i)
        PROVE  FALSE
    <3>1. At(Q, g, m, q, i) /\ ~(m = l /\ q = 1 /\ i = n)
      BY <1>5, <2>1
    <3>2. m = l /\ q = 1 /\ i = n
      BY <1>4, <1>8, <1>12, <3>1 DEF Once
    <3> QED BY <3>1, <3>2
  <2> QED BY <2>1 DEF Queued
<1>13. OnlyAtBase(Q, g) => l = Base
  BY <1>4, <1>8 DEF OnlyAtBase
<1> QED BY <1>2, <1>3, <1>4, <1>7, <1>9, <1>10, <1>11, <1>12, <1>13 DEF Takes

-----------------------------------------------------------------------------
\* The inductive invariant.

ConnType ==
    [state_ : {"Connected", "Disconnected"}, registered : BOOLEAN,
     reading : BOOLEAN, fdOpen : BOOLEAN, told : {"nothing", "up", "down"},
     downs : Nat]

\* Somebody holds a TcpConnectionPtr to c: newConnection() and the map, or a
\* functor.
InMap(c) == c \in connections_ \/ inserting = c
Held(c) == InMap(c) \/ Refers(Queues, c)

Types ==
    /\ nextConnId_ \in Nat \ {0}
    /\ numThreads_ \in 0 .. MaxPool /\ next_ \in Nat
    /\ next_ < numThreads_ \/ (numThreads_ = 0 /\ next_ = 0)
    /\ ioLoop \in [Conns -> Loops \cup {None}]
    /\ inserting \in Conns \cup {None}
    /\ Queues \in QueuesType /\ IndexOK(Queues)
    /\ conn \in [Conns -> ConnType]
    /\ destroyedBy \in [Conns -> Loops \cup {None}]

\* What was reported of a connection tells what it is.
Stage(k) ==
    /\ k.fdOpen
    /\ \/ k.told = "nothing" /\ k.state_ = "Disconnected"
          /\ ~k.registered /\ ~k.reading
       \/ k.told = "up" /\ k.state_ = "Connected" /\ k.registered /\ k.reading
       \/ k.told = "down" /\ k.state_ = "Disconnected" /\ ~k.reading
Stages == \A c \in Conns : Stage(conn[c])

\* connectEstablished() waits at most once, before anything is reported;
\* the other two only after the end was.
Ordered ==
    \A c \in Conns :
        /\ Queued(Queues, Functor("establish", c)) => conn[c].told = "nothing"
        /\ Once(Queues, Functor("establish", c))
        /\ Queued(Queues, Functor("remove", c)) => conn[c].told = "down"
        /\ Queued(Queues, Functor("destroy", c)) => conn[c].told = "down"

\* removeConnection() runs in the acceptor loop only, never in the middle of
\* newConnection().
RemovesAtBase ==
    /\ \A c \in Conns : OnlyAtBase(Queues, Functor("remove", c))
    /\ inserting # None => batch[Base] = <<>>

\* The map keeps a connection until its end was reported; then
\* removeConnection() is to come, and after that, while the channel is
\* registered, connectDestroyed().
Kept ==
    \A c \in Conns :
        /\ c < nextConnId_ /\ conn[c].told # "down" => InMap(c)
        /\ conn[c].told = "down" =>
              ~InMap(c) \/ Queued(Queues, Functor("remove", c))
        /\ conn[c].told = "down" /\ conn[c].registered =>
              InMap(c) \/ Queued(Queues, Functor("destroy", c))

\* Connections that were not made yet, and those that were.
Born ==
    \A c \in Conns :
        /\ ~(c < nextConnId_) =>
              /\ ~Held(c) /\ conn[c].told = "nothing"
              /\ ioLoop[c] = None /\ destroyedBy[c] = None
        /\ c < nextConnId_ => ioLoop[c] \in Loops

\* Nobody holds a destroyed connection, and it left the poller.
Gone ==
    \A c \in Conns : destroyedBy[c] # None =>
        ~Held(c) /\ conn[c].told = "down" /\ ~conn[c].registered

Inv ==
    /\ Types /\ Stages /\ Ordered /\ RemovesAtBase /\ Kept /\ Born /\ Gone

-----------------------------------------------------------------------------

LEMMA FunctorFacts ==
    /\ \A o, p, c, d : Functor(o, c) = Functor(p, d) <=> o = p /\ c = d
    /\ \A o, c : Functor(o, c).op = o /\ Functor(o, c).conn = c
    /\ \A c \in Conns : /\ Functor("establish", c) \in Functors
                        /\ Functor("remove", c) \in Functors
                        /\ Functor("destroy", c) \in Functors
    /\ Functor("quit", None) \in Functors
<1>1. ASSUME NEW o, NEW p, NEW c, NEW d, Functor(o, c) = Functor(p, d)
      PROVE  o = p /\ c = d
  <2>1. /\ Functor(o, c).op = o /\ Functor(o, c).conn = c
        /\ Functor(p, d).op = p /\ Functor(p, d).conn = d
    BY DEF Functor
  <2> QED BY <1>1, <2>1
<1> QED BY <1>1 DEF Functor, Functors

LEMMA FunctorForm ==
    ASSUME NEW g \in Functors
    PROVE  /\ g = Functor(g.op, g.conn)
           /\ \/ g.op \in {"establish", "remove", "destroy"} /\ g.conn \in Conns
              \/ g.op = "quit" /\ g.conn = None
BY DEF Functor, Functors

LEMMA Constants ==
    /\ Base \in Loops /\ None \notin Conns /\ None \notin Loops
    /\ \A c \in Conns : c \in Nat
BY PoolAssumption, NoneAssumption, BoundAssumption DEF Base, Loops, Conns

\* A step that leaves alone what the invariant is about.
LEMMA QuietInv ==
    ASSUME Inv,
           UNCHANGED <<nextConnId_, numThreads_, next_, ioLoop, mapVars,
                       pending, batch, index, conn, destroyedBy>>
    PROVE  Inv'
<1>1. /\ Queues' = Queues
      /\ UNCHANGED <<nextConnId_, numThreads_, next_, ioLoop, connections_,
                     inserting, batch, conn, destroyedBy>>
  BY DEF Queues, mapVars
<1> HIDE DEF Queues
<1>2. Types' /\ Stages'
  BY <1>1 DEF Inv, Types, Stages
<1>3. Ordered' /\ RemovesAtBase'
  BY <1>1 DEF Inv, Ordered, RemovesAtBase
<1>4. Kept'
  BY <1>1 DEF Inv, Kept, InMap
<1>5. Born' /\ Gone'
  BY <1>1 DEF Inv, Born, Gone, Held, InMap
<1> QED BY <1>2, <1>3, <1>4, <1>5 DEF Inv

LEMMA SwapFunctorsInv ==
    ASSUME Inv, NEW l \in Loops, SwapFunctors(l)
    PROVE  Inv'
<1>1. /\ batch[l] = <<>> /\ (l = Base => inserting = None)
      /\ batch' = [batch EXCEPT ![l] = pending[l]]
      /\ pending' = [pending EXCEPT ![l] = <<>>]
      /\ UNCHANGED <<nextConnId_, numThreads_, next_, ioLoop, connections_,
                     inserting, index, conn, destroyedBy>>
  BY DEF SwapFunctors, AtRest, acceptVars, mapVars
<1>2. /\ Types /\ Stages /\ Ordered /\ RemovesAtBase /\ Kept /\ Born /\ Gone
  BY DEF Inv
<1>3. Same(Queues, Queues')
  <2>1. /\ Queues \in QueuesType /\ IndexOK(Queues)
        /\ Queues.batch = batch /\ Queues.pending = pending
        /\ Queues.index = index
    BY <1>2 DEF Types, Queues
  <2>2. Queues' = [pending |-> [Queues.pending EXCEPT ![l] = <<>>],
                   batch |-> [Queues.batch EXCEPT ![l] = Queues.pending[l]],
                   index |-> Queues.index]
    BY <1>1, <2>1 DEF Queues
  <2> HIDE DEF Queues
  <2> QED BY <1>1, <2>1, <2>2, SwapEffect
<1>4. inserting # None => batch'[Base] = <<>>
  <2>1. batch \in [Loops -> Seq(Functors)]
    BY <1>2 DEF Types, Queues, QueuesType
  <2> QED BY <1>1, <1>2, <2>1, Constants DEF RemovesAtBase
<1> HIDE DEF Queues
<1>5. Types' /\ Stages'
  BY <1>1, <1>2, <1>3 DEF Types, Stages, Same
<1>6. Ordered' /\ RemovesAtBase'
  BY <1>1, <1>2, <1>3, <1>4 DEF Ordered, RemovesAtBase, Same
<1>7. Kept'
  BY <1>1, <1>2, <1>3 DEF Kept, InMap, Same
<1>8. Born' /\ Gone'
  BY <1>1, <1>2, <1>3 DEF Born, Gone, Held, InMap, Same
<1> QED BY <1>5, <1>6, <1>7, <1>8 DEF Inv

LEMMA StopInv == Inv /\ Stop => Inv'
<1> SUFFICES ASSUME Inv, Stop PROVE Inv'
  OBVIOUS
<1> DEFINE g == Functor("quit", None)
<1>1. /\ pending' = [pending EXCEPT ![Base] = Append(@, g)]
      /\ UNCHANGED <<nextConnId_, numThreads_, next_, ioLoop, connections_,
                     inserting, batch, index, conn, destroyedBy>>
  BY DEF Stop, acceptVars, mapVars
<1>2. /\ Types /\ Stages /\ Ordered /\ RemovesAtBase /\ Kept /\ Born /\ Gone
  BY DEF Inv
<1>3. g \in Functors /\ g.conn = None /\ Base \in Loops
      /\ \A o, c : o # "quit" => Functor(o, c) # g
  BY FunctorFacts, Constants
<1> HIDE DEF g
<1>4. Adds(Queues, Queues', Base, g)
  <2>1. /\ Queues \in QueuesType /\ IndexOK(Queues)
        /\ Queues.batch = batch /\ Queues.pending = pending
        /\ Queues.index = index
    BY <1>2 DEF Types, Queues
  <2>2. Queues' = [pending |-> [Queues.pending EXCEPT ![Base] = Append(@, g)],
                   batch |-> Queues.batch, index |-> Queues.index]
    BY <1>1, <2>1 DEF Queues
  <2> HIDE DEF Queues
  <2> QED BY <1>3, <2>1, <2>2, PushEffect
<1> HIDE DEF Queues
<1>5. \A o, c : o # "quit" =>
         /\ Queued(Queues', Functor(o, c)) <=> Queued(Queues, Functor(o, c))
         /\ Once(Queues, Functor(o, c)) => Once(Queues', Functor(o, c))
         /\ OnlyAtBase(Queues, Functor(o, c)) => OnlyAtBase(Queues', Functor(o, c))
  BY <1>3, <1>4 DEF Adds
<1>6. \A c \in Conns : Refers(Queues', c) => Refers(Queues, c)
  BY <1>3, <1>4, Constants DEF Adds
<1>7. Types' /\ Stages'
  BY <1>1, <1>2, <1>4 DEF Types, Stages, Adds
<1>8. Ordered' /\ RemovesAtBase'
  BY <1>1, <1>2, <1>5 DEF Ordered, RemovesAtBase
<1>9. Kept'
  BY <1>1, <1>2, <1>5 DEF Kept, InMap
<1>10. Born' /\ Gone'
  BY <1>1, <1>2, <1>6 DEF Born, Gone, Held, InMap
<1> QED BY <1>7, <1>8, <1>9, <1>10 DEF Inv

LEMMA InsertConnectionInv == Inv /\ InsertConnection => Inv'
<1> SUFFICES ASSUME Inv, InsertConnection PROVE Inv'
  OBVIOUS
<1>1. /\ inserting # None
      /\ connections_' = connections_ \cup {inserting} /\ inserting' = None
      /\ UNCHANGED <<nextConnId_, numThreads_, next_, ioLoop, batch, conn,
                     destroyedBy>>
      /\ Queues' = Queues
  BY DEF InsertConnection, acceptVars, loopVars, Queues
<1>2. /\ Types /\ Stages /\ Ordered /\ RemovesAtBase /\ Kept /\ Born /\ Gone
  BY DEF Inv
<1> HIDE DEF Queues
<1>3. \A c \in Conns : InMap(c)' <=> InMap(c)
  BY <1>1, Constants DEF InMap
<1>4. Types' /\ Stages'
  BY <1>1, <1>2 DEF Types, Stages
<1>5. Ordered' /\ RemovesAtBase'
  BY <1>1, <1>2 DEF Ordered, RemovesAtBase
<1>6. Kept'
  BY <1>1, <1>2, <1>3 DEF Kept
<1>7. Born' /\ Gone'
  BY <1>1, <1>2, <1>3 DEF Born, Gone, Held
<1> QED BY <1>4, <1>5, <1>6, <1>7 DEF Inv

\* A functor that waits refers to its connection.
LEMMA QueuedRefers == \A Q, f : Queued(Q, f) => Refers(Q, f.conn)
BY DEF Queued, Refers, At

LEMMA OutsideParts ==
    ASSUME NEW l \in Loops, NEW c, c \notin HeldOutside(l)
    PROVE  \A m \in Loops : /\ c \notin Mentioned(pending[m])
                            /\ m # l => c \notin Mentioned(batch[m])
<1> DEFINE P == {Mentioned(pending[m]) : m \in Loops}
           B == {Mentioned(batch[m]) : m \in Loops \ {l}}
<1>1. c \notin UNION P /\ c \notin UNION B
  BY DEF HeldOutside
<1>2. \A m \in Loops : Mentioned(pending[m]) \in P
  OBVIOUS
<1>3. \A m \in Loops : m # l => Mentioned(batch[m]) \in B
  OBVIOUS
<1> HIDE DEF P, B
<1> QED BY <1>1, <1>2, <1>3

LEMMA EndFunctorsInv ==
    ASSUME Inv, NEW l \in Loops, EndFunctors(l)
    PROVE  Inv'
<1>1. /\ batch[l] # <<>> /\ index[l] = Len(batch[l])
      /\ batch' = [batch EXCEPT ![l] = <<>>]
      /\ index' = [index EXCEPT ![l] = 0]
      /\ destroyedBy' = [c \in Conns |->
            IF c \in Mentioned(batch[l]) \ HeldOutside(l)
            THEN l ELSE destroyedBy[c]]
      /\ UNCHANGED <<nextConnId_, numThreads_, next_, ioLoop, connections_,
                     inserting, pending, conn>>
  BY DEF EndFunctors, acceptVars, mapVars
<1>2. /\ Types /\ Stages /\ Ordered /\ RemovesAtBase /\ Kept /\ Born /\ Gone
  BY DEF Inv
<1>3. /\ Queues \in QueuesType /\ IndexOK(Queues)
      /\ Queues.batch = batch /\ Queues.pending = pending
      /\ Queues.index = index
      /\ Queues'.batch = batch' /\ Queues'.pending = pending
  BY <1>1, <1>2 DEF Types, Queues
<1>4. Same(Queues, Queues')
  <2>1. Queues' = [pending |-> Queues.pending,
                   batch |-> [Queues.batch EXCEPT ![l] = <<>>],
                   index |-> [Queues.index EXCEPT ![l] = 0]]
    BY <1>1, <1>3 DEF Queues
  <2> HIDE DEF Queues
  <2> QED BY <1>1, <1>3, <2>1, EndEffect
<1> HIDE DEF Queues
<1>5. /\ batch'[l] = <<>> /\ \A m \in Loops : m # l => batch'[m] = batch[m]
      /\ \A m \in Loops : /\ DOMAIN pending[m] = 1 .. Len(pending[m])
                          /\ DOMAIN batch[m] = 1 .. Len(batch[m])
  BY <1>1, <1>3, QueuesFields, LenProperties
<1>6. ASSUME NEW c \in Conns, c \in Mentioned(batch[l]), c \notin HeldOutside(l)
      PROVE  ~Held(c)' /\ conn[c].told = "down" /\ ~conn[c].registered
  <2>1. ~InMap(c)
    BY <1>6 DEF HeldOutside, InMap
  <2>2. \A m \in Loops : /\ c \notin Mentioned(pending[m])
                         /\ m # l => c \notin Mentioned(batch[m])
    BY <1>6, OutsideParts
  <2>3. ~Refers(Queues', c)
    <3>1. ASSUME NEW m \in Loops, NEW i \in 1 .. Len(pending[m]),
                 pending[m][i].conn = c
          PROVE  FALSE
      BY <1>5, <2>2, <3>1 DEF Mentioned
    <3>2. ASSUME NEW m \in Loops, NEW i \in 1 .. Len(batch'[m]),
                 batch'[m][i].conn = c
          PROVE  FALSE
      <4>1. CASE m = l
        <5>1. Len(<<>>) = 0
          OBVIOUS
        <5> QED BY <1>5, <4>1, <5>1, <3>2
      <4>2. CASE m # l
        BY <1>5, <2>2, <3>2, <4>2 DEF Mentioned
      <4> QED BY <4>1, <4>2
    <3> QED BY <1>3, <3>1, <3>2 DEF Refers
  <2>4. ~Held(c)'
    BY <1>1, <2>1, <2>3 DEF Held, InMap
  <2>5. Refers(Queues, c)
    BY <1>3, <1>5, <1>6 DEF Refers, Mentioned
  <2>6. c < nextConnId_
    BY <1>2, <2>5 DEF Born, Held
  <2>7. conn[c].told = "down"
    BY <1>2, <2>1, <2>6 DEF Kept
  <2>8. ~Queued(Queues, Functor("destroy", c))
    BY <1>4, <2>3, QueuedRefers, FunctorFacts DEF Same
  <2> QED BY <1>2, <2>1, <2>4, <2>7, <2>8 DEF Kept
<1>7. ASSUME NEW c \in Conns
      PROVE  /\ destroyedBy'[c] \in Loops \cup {None}
             /\ \/ destroyedBy'[c] = destroyedBy[c]
                \/ ~Held(c)' /\ conn[c].told = "down" /\ ~conn[c].registered
  BY <1>1, <1>2, <1>6 DEF Types
<1>8. ASSUME NEW c \in Conns, ~Held(c) PROVE ~Held(c)'
  BY <1>1, <1>4, <1>8 DEF Held, InMap, Same
<1>9. Types' /\ Stages'
  BY <1>1, <1>2, <1>4, <1>7 DEF Types, Stages, Same
<1>10. Ordered' /\ RemovesAtBase'
  BY <1>1, <1>2, <1>4, <1>5, Constants DEF Ordered, RemovesAtBase, Same
<1>11. Kept'
  BY <1>1, <1>2, <1>4 DEF Kept, InMap, Same
<1>12. Born' /\ Gone'
  BY <1>1, <1>2, <1>7, <1>8 DEF Born, Gone
<1> QED BY <1>9, <1>10, <1>11, <1>12 DEF Inv

\* handleClose() reports the end of a connection that was reported up.
LEMMA ClosedEffect ==
    ASSUME NEW k \in ConnType, Stage(k), k.registered
    PROVE  /\ Closed(k) \in ConnType /\ Stage(Closed(k))
           /\ Closed(k).told = "down" /\ k.told # "nothing"
           /\ Closed(k).registered = k.registered
<1> DEFINE j == k.downs + 1
<1>1. j \in Nat
  BY DEF ConnType
<1>2. Closed(k) = [k EXCEPT !.state_ = "Disconnected", !.reading = FALSE,
                            !.told = "down", !.downs = j]
  BY DEF Closed
<1> HIDE DEF j
<1>3. /\ Closed(k) \in ConnType /\ Closed(k).told = "down"
      /\ Closed(k).state_ = "Disconnected" /\ ~Closed(k).reading
      /\ Closed(k).fdOpen = k.fdOpen /\ Closed(k).registered = k.registered
  BY <1>1, <1>2 DEF ConnType
<1> QED BY <1>3 DEF Stage

LEMMA HandleCloseInv ==
    ASSUME Inv, NEW c \in Conns, conn[c].registered, HandleClose(c),
           UNCHANGED <<acceptVars, inserting, batch, index, quit_, sockVars,
                       destroyedBy>>
    PROVE  Inv'
<1> DEFINE g == Functor("remove", c)
<1>1. /\ pending' = [pending EXCEPT ![Base] = Append(@, g)]
      /\ conn' = [conn EXCEPT ![c] = Closed(@)]
      /\ UNCHANGED <<nextConnId_, numThreads_, next_, ioLoop, connections_,
                     inserting, batch, index, destroyedBy>>
  BY DEF HandleClose, acceptVars
<1>2. /\ Types /\ Stages /\ Ordered /\ RemovesAtBase /\ Kept /\ Born /\ Gone
  BY DEF Inv
<1>3. g \in Functors /\ g.conn = c /\ Base \in Loops
      /\ \A o, d : Functor(o, d) = g <=> o = "remove" /\ d = c
  BY FunctorFacts, Constants
<1>4. Adds(Queues, Queues', Base, g)
  <2>1. /\ Queues \in QueuesType /\ IndexOK(Queues)
        /\ Queues.batch = batch /\ Queues.pending = pending
        /\ Queues.index = index
    BY <1>2 DEF Types, Queues
  <2>2. Queues' = [pending |-> [Queues.pending EXCEPT ![Base] = Append(@, g)],
                   batch |-> Queues.batch, index |-> Queues.index]
    BY <1>1, <2>1 DEF Queues
  <2> HIDE DEF Queues, g
  <2> QED BY <1>3, <2>1, <2>2, PushEffect
<1> HIDE DEF Queues, g
<1>5. \A o, d :
         /\ Queued(Queues, Functor(o, d)) => Queued(Queues', Functor(o, d))
         /\ Queued(Queues', Functor(o, d)) =>
               Queued(Queues, Functor(o, d)) \/ (o = "remove" /\ d = c)
         /\ o # "remove" /\ Once(Queues, Functor(o, d)) =>
               Once(Queues', Functor(o, d))
         /\ OnlyAtBase(Queues, Functor(o, d)) => OnlyAtBase(Queues', Functor(o, d))
  BY <1>3, <1>4 DEF Adds
<1>6. Queued(Queues', Functor("remove", c))
  BY <1>3, <1>4 DEF Adds
<1>7. \A d \in Conns : Refers(Queues', d) => Refers(Queues, d) \/ d = c
  BY <1>3, <1>4 DEF Adds
<1>8. /\ conn' \in [Conns -> ConnType] /\ Stage(conn'[c])
      /\ conn'[c].told = "down" /\ conn[c].told # "nothing"
      /\ conn'[c].registered
      /\ \A d \in Conns : d # c => conn'[d] = conn[d]
  <2>1. conn \in [Conns -> ConnType] /\ Stage(conn[c])
    BY <1>2 DEF Types, Stages
  <2>2. /\ Closed(conn[c]) \in ConnType /\ Stage(Closed(conn[c]))
        /\ Closed(conn[c]).told = "down" /\ conn[c].told # "nothing"
        /\ Closed(conn[c]).registered
    BY <2>1, ClosedEffect
  <2> QED BY <1>1, <2>1, <2>2
<1>9. c < nextConnId_ /\ destroyedBy[c] = None
  BY <1>2, <1>8 DEF Born, Gone
<1>10. \A d \in Conns : InMap(d)' <=> InMap(d)
  BY <1>1 DEF InMap
<1>11. Types' /\ Stages'
  BY <1>1, <1>2, <1>4, <1>8 DEF Types, Stages, Adds
<1>12. Ordered' /\ RemovesAtBase'
  BY <1>1, <1>2, <1>5, <1>8 DEF Ordered, RemovesAtBase
<1>13. Kept'
  <2>1. InMap(c) \/ Queued(Queues, Functor("destroy", c))
    BY <1>2, <1>9 DEF Kept
  <2>2. ASSUME NEW d \in Conns
        PROVE  /\ d < nextConnId_' /\ conn'[d].told # "down" => InMap(d)'
               /\ conn'[d].told = "down" =>
                     ~InMap(d)' \/ Queued(Queues', Functor("remove", d))
               /\ conn'[d].told = "down" /\ conn'[d].registered =>
                     InMap(d)' \/ Queued(Queues', Functor("destroy", d))
    <3>1. CASE d = c
      BY <1>5, <1>6, <1>8, <1>10, <2>1, <3>1
    <3>2. CASE d # c
      BY <1>1, <1>2, <1>5, <1>8, <1>10, <3>2 DEF Kept
    <3> QED BY <3>1, <3>2
  <2> QED BY <2>2 DEF Kept
<1>14. Born' /\ Gone'
  <2>1. ASSUME NEW d \in Conns, d # c, ~Held(d) PROVE ~Held(d)'
    BY <1>7, <1>10, <2>1 DEF Held
  <2>2. Born'
    BY <1>1, <1>2, <1>8, <1>9, <2>1 DEF Born
  <2>3. Gone'
    BY <1>1, <1>2, <1>8, <1>9, <2>1 DEF Gone
  <2> QED BY <2>2, <2>3
<1> QED BY <1>11, <1>12, <1>13, <1>14 DEF Inv

\* connectEstablished() is run.
LEMMA EstablishInv ==
    ASSUME Inv, NEW c \in Conns,
           Takes(Queues, Queues', Functor("establish", c)),
           conn' = [conn EXCEPT ![c] = Established(@)],
           UNCHANGED <<nextConnId_, numThreads_, next_, ioLoop, connections_,
                       inserting, batch, destroyedBy>>
    PROVE  Inv'
<1>1. /\ Types /\ Stages /\ Ordered /\ RemovesAtBase /\ Kept /\ Born /\ Gone
  BY DEF Inv
<1> HIDE DEF Queues
<1>2. /\ Queues' \in QueuesType /\ IndexOK(Queues')
      /\ \A o, d :
            /\ Queued(Queues', Functor(o, d)) => Queued(Queues, Functor(o, d))
            /\ o # "establish" /\ Queued(Queues, Functor(o, d)) =>
                  Queued(Queues', Functor(o, d))
            /\ Once(Queues, Functor(o, d)) => Once(Queues', Functor(o, d))
            /\ OnlyAtBase(Queues, Functor(o, d)) =>
                  OnlyAtBase(Queues', Functor(o, d))
      /\ \A d : Refers(Queues', d) <=> Refers(Queues, d)
  BY FunctorFacts DEF Takes
<1>3. /\ Queued(Queues, Functor("establish", c)) /\ Refers(Queues, c)
      /\ ~Queued(Queues', Functor("establish", c))
  BY <1>1, FunctorFacts DEF Takes, Ordered
<1>4. conn[c].told = "nothing" /\ c < nextConnId_ /\ InMap(c)
  BY <1>1, <1>3 DEF Ordered, Born, Kept, Held
<1>5. /\ conn' \in [Conns -> ConnType] /\ Stage(conn'[c])
      /\ conn'[c].told = "up"
      /\ \A d \in Conns : d # c => conn'[d] = conn[d]
  <2>1. conn \in [Conns -> ConnType] /\ Stage(conn[c]) /\ conn[c] \in ConnType
    BY <1>1 DEF Types, Stages
  <2>2. /\ Established(conn[c]) \in ConnType /\ Stage(Established(conn[c]))
        /\ Established(conn[c]).told = "up"
    BY <2>1 DEF Established, ConnType, Stage
  <2> QED BY <2>1, <2>2
<1>6. \A d \in Conns : (InMap(d)' <=> InMap(d)) /\ (Held(d)' <=> Held(d))
  BY <1>2 DEF InMap, Held
<1>7. Types' /\ Stages'
  BY <1>1, <1>2, <1>5 DEF Types, Stages
<1>8. Ordered' /\ RemovesAtBase'
  <2>1. Ordered'
    <3> SUFFICES ASSUME NEW d \in Conns
                 PROVE  /\ Queued(Queues', Functor("establish", d)) =>
                              conn'[d].told = "nothing"
                        /\ Once(Queues', Functor("establish", d))
                        /\ Queued(Queues', Functor("remove", d)) =>
                              conn'[d].told = "down"
                        /\ Queued(Queues', Functor("destroy", d)) =>
                              conn'[d].told = "down"
      BY DEF Ordered
    <3>1. CASE d = c
      BY <1>1, <1>2, <1>3, <1>4, <3>1 DEF Ordered
    <3>2. CASE d # c
      BY <1>1, <1>2, <1>5, <3>2 DEF Ordered
    <3> QED BY <3>1, <3>2
  <2> QED BY <1>1, <1>2, <2>1 DEF RemovesAtBase
<1>9. Kept'
  <2> SUFFICES ASSUME NEW d \in Conns
        PROVE  /\ d < nextConnId_' /\ conn'[d].told # "down" => InMap(d)'
               /\ conn'[d].told = "down" =>
                     ~InMap(d)' \/ Queued(Queues', Functor("remove", d))
               /\ conn'[d].told = "down" /\ conn'[d].registered =>
                     InMap(d)' \/ Queued(Queues', Functor("destroy", d))
    BY DEF Kept
  <2>1. CASE d = c
    BY <1>4, <1>5, <1>6, <2>1
  <2>2. CASE d # c
    BY <1>1, <1>2, <1>5, <1>6, <2>2 DEF Kept
  <2> QED BY <2>1, <2>2
<1>10. Born' /\ Gone'
  <2>1. destroyedBy[c] = None
    BY <1>1, <1>4 DEF Gone
  <2> QED BY <1>1, <1>4, <1>5, <1>6, <2>1 DEF Born, Gone
<1> QED BY <1>7, <1>8, <1>9, <1>10 DEF Inv

\* connectDestroyed() finds its connection Disconnected and takes the
\* channel out of the poller.
LEMMA DestroyInv ==
    ASSUME Inv, NEW c \in Conns,
           Takes(Queues, Queues', Functor("destroy", c)),
           conn' = [conn EXCEPT ![c] = Destroyed(@)],
           UNCHANGED <<nextConnId_, numThreads_, next_, ioLoop, connections_,
                       inserting, batch, destroyedBy>>
    PROVE  Inv'
<1>1. /\ Types /\ Stages /\ Ordered /\ RemovesAtBase /\ Kept /\ Born /\ Gone
  BY DEF Inv
<1> HIDE DEF Queues
<1>2. /\ Queues' \in QueuesType /\ IndexOK(Queues')
      /\ \A o, d :
            /\ Queued(Queues', Functor(o, d)) => Queued(Queues, Functor(o, d))
            /\ ~(o = "destroy" /\ d = c) /\ Queued(Queues, Functor(o, d)) =>
                  Queued(Queues', Functor(o, d))
            /\ Once(Queues, Functor(o, d)) => Once(Queues', Functor(o, d))
            /\ OnlyAtBase(Queues, Functor(o, d)) =>
                  OnlyAtBase(Queues', Functor(o, d))
      /\ \A d : Refers(Queues', d) <=> Refers(Queues, d)
  BY FunctorFacts DEF Takes
<1>3. conn[c].told = "down"
  BY <1>1 DEF Takes, Ordered
<1>4. /\ conn' \in [Conns -> ConnType] /\ Stage(conn'[c])
      /\ conn'[c].told = "down" /\ ~conn'[c].registered
      /\ \A d \in Conns : d # c => conn'[d] = conn[d]
  <2>1. conn \in [Conns -> ConnType] /\ Stage(conn[c]) /\ conn[c] \in ConnType
    BY <1>1 DEF Types, Stages
  <2>2. Destroyed(conn[c]) = [conn[c] EXCEPT !.registered = FALSE]
    BY <1>3, <2>1 DEF Destroyed, Stage
  <2>3. /\ Destroyed(conn[c]) \in ConnType /\ Stage(Destroyed(conn[c]))
        /\ Destroyed(conn[c]).told = "down"
        /\ ~Destroyed(conn[c]).registered
    BY <1>3, <2>1, <2>2 DEF ConnType, Stage
  <2> QED BY <2>1, <2>3
<1>5. \A d \in Conns : conn'[d].told = conn[d].told
  BY <1>3, <1>4
<1>6. \A d \in Conns : (InMap(d)' <=> InMap(d)) /\ (Held(d)' <=> Held(d))
  BY <1>2 DEF InMap, Held
<1>7. Types' /\ Stages'
  BY <1>1, <1>2, <1>4 DEF Types, Stages
<1>8. Ordered' /\ RemovesAtBase'
  BY <1>1, <1>2, <1>5 DEF Ordered, RemovesAtBase
<1>9. Kept'
  <2> SUFFICES ASSUME NEW d \in Conns
        PROVE  /\ d < nextConnId_' /\ conn'[d].told # "down" => InMap(d)'
               /\ conn'[d].told = "down" =>
                     ~InMap(d)' \/ Queued(Queues', Functor("remove", d))
               /\ conn'[d].told = "down" /\ conn'[d].registered =>
                     InMap(d)' \/ Queued(Queues', Functor("destroy", d))
    BY DEF Kept
  <2>1. CASE d = c
    BY <1>1, <1>2, <1>3, <1>4, <1>6, <2>1 DEF Kept
  <2>2. CASE d # c
    BY <1>1, <1>2, <1>4, <1>6, <2>2 DEF Kept
  <2> QED BY <2>1, <2>2
<1>10. Born' /\ Gone'
  <2>1. \A d \in Conns : ~conn[d].registered => ~conn'[d].registered
    BY <1>4
  <2> QED BY <1>1, <1>5, <1>6, <2>1 DEF Born, Gone
<1> QED BY <1>7, <1>8, <1>9, <1>10 DEF Inv

\* quit() is run.
LEMMA QuitInv ==
    ASSUME Inv, Takes(Queues, Queues', Functor("quit", None)),
           UNCHANGED <<nextConnId_, numThreads_, next_, ioLoop, connections_,
                       inserting, batch, conn, destroyedBy>>
    PROVE  Inv'
<1>1. /\ Types /\ Stages /\ Ordered /\ RemovesAtBase /\ Kept /\ Born /\ Gone
  BY DEF Inv
<1> HIDE DEF Queues
<1>2. /\ Queues' \in QueuesType /\ IndexOK(Queues')
      /\ \A o, d : o # "quit" =>
            /\ Queued(Queues', Functor(o, d)) <=> Queued(Queues, Functor(o, d))
            /\ Once(Queues, Functor(o, d)) => Once(Queues', Functor(o, d))
            /\ OnlyAtBase(Queues, Functor(o, d)) =>
                  OnlyAtBase(Queues', Functor(o, d))
      /\ \A d : Refers(Queues', d) <=> Refers(Queues, d)
  BY FunctorFacts DEF Takes
<1>3. Types' /\ Stages'
  BY <1>1, <1>2 DEF Types, Stages
<1>4. Ordered' /\ RemovesAtBase'
  BY <1>1, <1>2 DEF Ordered, RemovesAtBase
<1>5. Kept'
  BY <1>1, <1>2 DEF Kept, InMap
<1>6. Born' /\ Gone'
  BY <1>1, <1>2 DEF Born, Gone, Held, InMap
<1> QED BY <1>3, <1>4, <1>5, <1>6 DEF Inv

\* removeConnection() is run: R are the queues without its functor, and
\* connectDestroyed() is queued.
LEMMA RemoveInv ==
    ASSUME Inv, NEW c \in Conns, NEW R,
           Takes(Queues, R, Functor("remove", c)),
           Adds(R, Queues', ioLoop[c], Functor("destroy", c)),
           inserting = None, connections_' = connections_ \ {c},
           UNCHANGED <<nextConnId_, numThreads_, next_, ioLoop, inserting,
                       batch, conn, destroyedBy>>
    PROVE  Inv'
<1>1. /\ Types /\ Stages /\ Ordered /\ RemovesAtBase /\ Kept /\ Born /\ Gone
  BY DEF Inv
<1> HIDE DEF Queues
<1>2. \A o, d :
         /\ Queued(R, Functor(o, d)) => Queued(Queues, Functor(o, d))
         /\ ~(o = "remove" /\ d = c) /\ Queued(Queues, Functor(o, d)) =>
               Queued(R, Functor(o, d))
         /\ Once(Queues, Functor(o, d)) => Once(R, Functor(o, d))
         /\ OnlyAtBase(Queues, Functor(o, d)) => OnlyAtBase(R, Functor(o, d))
  BY FunctorFacts DEF Takes
<1>3. \A o, d :
         /\ Queued(R, Functor(o, d)) => Queued(Queues', Functor(o, d))
         /\ Queued(Queues', Functor(o, d)) =>
               Queued(R, Functor(o, d)) \/ (o = "destroy" /\ d = c)
         /\ o # "destroy" /\ Once(R, Functor(o, d)) =>
               Once(Queues', Functor(o, d))
         /\ o # "destroy" /\ OnlyAtBase(R, Functor(o, d)) =>
               OnlyAtBase(Queues', Functor(o, d))
  BY FunctorFacts DEF Adds
<1>4. /\ Queues' \in QueuesType /\ IndexOK(Queues')
      /\ Queued(Queues', Functor("destroy", c))
      /\ Queued(Queues, Functor("remove", c)) /\ Refers(Queues, c)
      /\ \A d : Refers(Queues', d) => Refers(Queues, d)
  BY FunctorFacts DEF Takes, Adds
<1>5. conn[c].told = "down" /\ c < nextConnId_ /\ destroyedBy[c] = None
  BY <1>1, <1>4 DEF Ordered, Born, Gone, Held
<1>6. /\ ~InMap(c)'
      /\ \A d \in Conns : d # c => (InMap(d)' <=> InMap(d))
      /\ \A d \in Conns : Held(d)' => Held(d)
  BY <1>4, Constants DEF InMap, Held
<1>7. Types' /\ Stages'
  BY <1>1, <1>4 DEF Types, Stages
<1>8. Ordered' /\ RemovesAtBase'
  <2>1. Ordered'
    BY <1>1, <1>2, <1>3, <1>5 DEF Ordered
  <2> QED BY <1>1, <1>2, <1>3, <2>1 DEF RemovesAtBase
<1>9. Kept'
  <2> SUFFICES ASSUME NEW d \in Conns
        PROVE  /\ d < nextConnId_' /\ conn'[d].told # "down" => InMap(d)'
               /\ conn'[d].told = "down" =>
                     ~InMap(d)' \/ Queued(Queues', Functor("remove", d))
               /\ conn'[d].told = "down" /\ conn'[d].registered =>
                     InMap(d)' \/ Queued(Queues', Functor("destroy", d))
    BY DEF Kept
  <2>1. CASE d = c
    BY <1>4, <1>5, <1>6, <2>1
  <2>2. CASE d # c
    BY <1>1, <1>2, <1>3, <1>6, <2>2 DEF Kept
  <2> QED BY <2>1, <2>2
<1>10. Born' /\ Gone'
  BY <1>1, <1>6 DEF Born, Gone
<1> QED BY <1>7, <1>8, <1>9, <1>10 DEF Inv

LEMMA RunFunctorInv ==
    ASSUME Inv, NEW l \in Loops, RunFunctor(l)
    PROVE  Inv'
<1> DEFINE g == batch[l][index[l] + 1]
           R == [pending |-> pending, batch |-> batch,
                 index |-> [index EXCEPT ![l] = @ + 1]]
<1>1. /\ index[l] < Len(batch[l]) /\ index' = [index EXCEPT ![l] = @ + 1]
      /\ UNCHANGED <<nextConnId_, numThreads_, next_, ioLoop, inserting,
                     batch, destroyedBy>>
      /\ \/ /\ g.op = "establish"
            /\ conn' = [conn EXCEPT ![g.conn] = Established(@)]
            /\ UNCHANGED <<pending, connections_, quit_>>
         \/ g.op = "remove" /\ RemoveConnection(g.conn)
         \/ /\ g.op = "destroy"
            /\ conn' = [conn EXCEPT ![g.conn] = Destroyed(@)]
            /\ UNCHANGED <<pending, connections_, quit_>>
         \/ /\ g.op = "quit"
            /\ UNCHANGED <<pending, connections_, conn>>
  BY DEF RunFunctor, acceptVars
<1>2. /\ Queues \in QueuesType /\ IndexOK(Queues)
      /\ Queues.batch = batch /\ Queues.pending = pending
      /\ Queues.index = index
  BY DEF Inv, Types, Queues
<1>3. /\ Takes(Queues, R, g) /\ g \in Functors
      /\ OnlyAtBase(Queues, g) => l = Base
  <2>1. R = [pending |-> Queues.pending, batch |-> Queues.batch,
             index |-> [Queues.index EXCEPT ![l] = @ + 1]]
    BY <1>2
  <2>2. g = Queues.batch[l][Queues.index[l] + 1]
    BY <1>2
  <2>3. Queues.index[l] < Len(Queues.batch[l])
    BY <1>1, <1>2
  <2> HIDE DEF Queues, R, g
  <2> QED BY <1>2, <2>1, <2>2, <2>3, RunEffect
<1>4. UNCHANGED pending => Queues' = R
  BY <1>1 DEF Queues
<1>5. /\ g = Functor(g.op, g.conn)
      /\ \/ g.op \in {"establish", "remove", "destroy"} /\ g.conn \in Conns
         \/ g.op = "quit" /\ g.conn = None
  BY <1>3, FunctorForm
<1>6. R \in QueuesType /\ IndexOK(R)
  BY <1>3 DEF Takes
<1>7. batch[l] # <<>>
  BY <1>1, <1>2, QueuesFields
<1>8. /\ R.pending = pending /\ R.batch = batch /\ R.index = index'
  BY <1>1
<1> DEFINE c == g.conn
<1>9. g = Functor(g.op, c)
  BY <1>5
<1>10. CASE /\ g.op = "establish"
            /\ conn' = [conn EXCEPT ![c] = Established(@)]
            /\ UNCHANGED <<pending, connections_, quit_>>
  <2>1. c \in Conns /\ Takes(Queues, Queues', Functor("establish", c))
    BY <1>3, <1>4, <1>5, <1>10
  <2> HIDE DEF g, R, Queues, c
  <2> QED BY <1>1, <1>10, <2>1, EstablishInv
<1>11. CASE g.op = "remove" /\ RemoveConnection(c)
  <2> DEFINE h == Functor("destroy", c)
  <2>1. c \in Conns /\ Takes(Queues, R, Functor("remove", c))
    BY <1>3, <1>5, <1>11
  <2>2. /\ connections_' = connections_ \ {c} /\ conn' = conn
        /\ pending' = [pending EXCEPT ![ioLoop[c]] = Append(@, h)]
    BY <1>11 DEF RemoveConnection
  <2>3. h \in Functors
    BY <2>1, FunctorFacts
  <2>4. ioLoop[c] \in Loops
    <3>1. Functor("remove", c).conn = c
      BY FunctorFacts
    <3>2. Refers(Queues, c)
      BY <2>1, <3>1 DEF Takes
    <3> QED BY <2>1, <3>2 DEF Inv, Born, Held
  <2>5. Queues' = [pending |-> [R.pending EXCEPT ![ioLoop[c]] = Append(@, h)],
                   batch |-> R.batch, index |-> R.index]
    BY <1>1, <1>8, <2>2 DEF Queues
  <2>6. inserting = None
    <3>1. l = Base
      BY <1>3, <1>9, <1>11, <2>1 DEF Inv, RemovesAtBase
    <3> QED BY <1>7, <3>1 DEF Inv, RemovesAtBase
  <2> HIDE DEF g, R, Queues, c, h
  <2>7. Adds(R, Queues', ioLoop[c], h)
    BY <1>6, <2>3, <2>4, <2>5, PushEffect
  <2>8. Adds(R, Queues', ioLoop[c], Functor("destroy", c))
    BY <2>7 DEF h
  <2> QED BY <1>1, <2>1, <2>2, <2>6, <2>8, RemoveInv
<1>12. CASE /\ g.op = "destroy"
            /\ conn' = [conn EXCEPT ![c] = Destroyed(@)]
            /\ UNCHANGED <<pending, connections_, quit_>>
  <2>1. c \in Conns /\ Takes(Queues, Queues', Functor("destroy", c))
    BY <1>3, <1>4, <1>5, <1>12
  <2> HIDE DEF g, R, Queues, c
  <2> QED BY <1>1, <1>12, <2>1, DestroyInv
<1>13. CASE g.op = "quit" /\ UNCHANGED <<pending, connections_, conn>>
  <2>1. Takes(Queues, Queues', Functor("quit", None))
    BY <1>3, <1>4, <1>5, <1>13
  <2> HIDE DEF g, R, Queues, c
  <2> QED BY <1>1, <1>13, <2>1, QuitInv
<1> QED BY <1>1, <1>10, <1>11, <1>12, <1>13

\* getNextLoop() stays within the pool.
LEMMA NextLoopFacts ==
    ASSUME Types
    PROVE  /\ NextLoop \in Loops /\ (NextLoop = Base <=> numThreads_ = 0)
           /\ NextIndex \in Nat
           /\ NextIndex < numThreads_ \/ (numThreads_ = 0 /\ NextIndex = 0)
BY PoolAssumption DEF Types, NextLoop, NextIndex, Base, Loops

LEMMA NewConnectionInv == Inv /\ NewConnection => Inv'
<1> SUFFICES ASSUME Inv, NewConnection PROVE Inv'
  OBVIOUS
<1>c. PICK c : c = nextConnId_
  OBVIOUS
<1> DEFINE g == Functor("establish", c)
<1>1. /\ batch[Base] = <<>> /\ inserting = None
      /\ nextConnId_ <= MaxConns /\ nextConnId_' = nextConnId_ + 1
      /\ next_' = NextIndex
      /\ ioLoop' = [ioLoop EXCEPT ![c] = NextLoop]
      /\ inserting' = c
      /\ IF NextLoop = Base
         THEN conn' = [conn EXCEPT ![c] = Established(@)] /\ UNCHANGED pending
         ELSE /\ pending' = [pending EXCEPT ![NextLoop] = Append(@, g)]
              /\ UNCHANGED conn
      /\ UNCHANGED <<numThreads_, connections_, batch, index, destroyedBy>>
  BY <1>c DEF NewConnection, AtRest
<1>2. /\ Types /\ Stages /\ Ordered /\ RemovesAtBase /\ Kept /\ Born /\ Gone
  BY DEF Inv
<1>3. /\ c \in Conns
      /\ \A d \in Conns : d < nextConnId_' <=> d < nextConnId_ \/ d = c
      /\ ~(c < nextConnId_) /\ nextConnId_' \in Nat \ {0}
  BY <1>c, <1>1, <1>2, BoundAssumption DEF Types, Conns
<1>4. /\ g \in Functors /\ g.conn = c
      /\ \A o, d : Functor(o, d) = g <=> o = "establish" /\ d = c
  BY <1>3, FunctorFacts
<1>5. /\ NextLoop \in Loops /\ NextIndex \in Nat
      /\ NextIndex < numThreads_ \/ (numThreads_ = 0 /\ NextIndex = 0)
  BY <1>2, NextLoopFacts
<1>6. /\ ~Held(c) /\ conn[c].told = "nothing" /\ destroyedBy[c] = None
  BY <1>2, <1>3 DEF Born
<1>7. \A o : ~Queued(Queues, Functor(o, c))
  BY <1>6, QueuedRefers, FunctorFacts DEF Held
<1>8. \/ /\ Queues' = Queues
         /\ conn' = [conn EXCEPT ![c] = Established(@)]
      \/ Adds(Queues, Queues', NextLoop, g) /\ conn' = conn
  <2>1. CASE NextLoop = Base
    BY <1>1, <2>1 DEF Queues
  <2>2. CASE NextLoop # Base
    <3>1. /\ Queues \in QueuesType /\ IndexOK(Queues)
          /\ Queues.batch = batch /\ Queues.pending = pending
          /\ Queues.index = index
      BY <1>2 DEF Types, Queues
    <3>2. Queues' =
            [pending |-> [Queues.pending EXCEPT ![NextLoop] = Append(@, g)],
             batch |-> Queues.batch, index |-> Queues.index]
      BY <1>1, <2>2, <3>1 DEF Queues
    <3> HIDE DEF Queues, g
    <3> QED BY <1>1, <1>4, <1>5, <2>2, <3>1, <3>2, PushEffect
  <2> QED BY <2>1, <2>2
<1> HIDE DEF Queues, g
<1>9. /\ Queues' \in QueuesType /\ IndexOK(Queues')
      /\ \A o, d :
            /\ Queued(Queues, Functor(o, d)) => Queued(Queues', Functor(o, d))
            /\ Queued(Queues', Functor(o, d)) =>
                  Queued(Queues, Functor(o, d)) \/ (o = "establish" /\ d = c)
            /\ Once(Queues, Functor(o, d)) => Once(Queues', Functor(o, d))
            /\ o # "establish" /\ OnlyAtBase(Queues, Functor(o, d)) =>
                  OnlyAtBase(Queues', Functor(o, d))
      /\ \A d : Refers(Queues', d) => Refers(Queues, d) \/ d = c
  <2>1. CASE Queues' = Queues
    BY <1>2, <2>1 DEF Types
  <2>2. CASE Adds(Queues, Queues', NextLoop, g)
    BY <1>4, <1>7, <2>2 DEF Adds
  <2> QED BY <1>8, <2>1, <2>2
<1>10. /\ conn' \in [Conns -> ConnType] /\ Stage(conn'[c])
       /\ conn'[c].told # "down"
       /\ conn'[c].told # "nothing" => Queues' = Queues
       /\ \A d \in Conns : d # c => conn'[d] = conn[d]
  <2>1. conn \in [Conns -> ConnType] /\ Stage(conn[c]) /\ conn[c] \in ConnType
    BY <1>2, <1>3 DEF Types, Stages
  <2>2. /\ Established(conn[c]) \in ConnType /\ Stage(Established(conn[c]))
        /\ Established(conn[c]).told = "up"
    BY <1>6, <2>1 DEF Established, ConnType, Stage
  <2> QED BY <1>6, <1>8, <2>1, <2>2
<1>11. /\ InMap(c)' /\ \A d \in Conns : d # c => (InMap(d)' <=> InMap(d))
       /\ \A d \in Conns : d # c /\ Held(d)' => Held(d)
  BY <1>1, <1>9, Constants DEF InMap, Held
<1>12. /\ ioLoop' \in [Conns -> Loops \cup {None}] /\ ioLoop'[c] \in Loops
       /\ \A d \in Conns : d # c => ioLoop'[d] = ioLoop[d]
  BY <1>1, <1>2, <1>3, <1>5 DEF Types
<1>13. inserting' \in Conns /\ batch' = batch /\ batch[Base] = <<>>
       /\ UNCHANGED <<numThreads_, destroyedBy>>
  BY <1>1, <1>3
<1>14. next_' \in Nat /\ (next_' < numThreads_ \/ (numThreads_ = 0 /\ next_' = 0))
  BY <1>1, <1>5
<1>15. Types' /\ Stages'
  <2>1. Types'
    BY <1>2, <1>3, <1>9, <1>10, <1>12, <1>13, <1>14 DEF Types
  <2>2. Stages'
    BY <1>2, <1>10 DEF Stages
  <2> QED BY <2>1, <2>2
<1>16. Ordered' /\ RemovesAtBase'
  <2>1. Ordered'
    <3> SUFFICES ASSUME NEW d \in Conns
                 PROVE  /\ Queued(Queues', Functor("establish", d)) =>
                              conn'[d].told = "nothing"
                        /\ Once(Queues', Functor("establish", d))
                        /\ Queued(Queues', Functor("remove", d)) =>
                              conn'[d].told = "down"
                        /\ Queued(Queues', Functor("destroy", d)) =>
                              conn'[d].told = "down"
      BY DEF Ordered
    <3>1. CASE d = c
      BY <1>2, <1>7, <1>9, <1>10, <3>1 DEF Ordered
    <3>2. CASE d # c
      BY <1>2, <1>9, <1>10, <3>2 DEF Ordered
    <3> QED BY <3>1, <3>2
  <2> QED BY <1>2, <1>9, <1>13, <2>1 DEF RemovesAtBase
<1>17. Kept'
  <2> SUFFICES ASSUME NEW d \in Conns
        PROVE  /\ d < nextConnId_' /\ conn'[d].told # "down" => InMap(d)'
               /\ conn'[d].told = "down" =>
                     ~InMap(d)' \/ Queued(Queues', Functor("remove", d))
               /\ conn'[d].told = "down" /\ conn'[d].registered =>
                     InMap(d)' \/ Queued(Queues', Functor("destroy", d))
    BY DEF Kept
  <2>1. CASE d = c
    BY <1>10, <1>11, <2>1
  <2>2. CASE d # c
    BY <1>2, <1>3, <1>9, <1>10, <1>11, <2>2 DEF Kept
  <2> QED BY <2>1, <2>2
<1>18. Born'
  <2> SUFFICES ASSUME NEW d \in Conns
        PROVE  /\ ~(d < nextConnId_') =>
                     /\ ~Held(d)' /\ conn'[d].told = "nothing"
                     /\ ioLoop'[d] = None /\ destroyedBy'[d] = None
               /\ d < nextConnId_' => ioLoop'[d] \in Loops
    BY DEF Born
  <2>1. CASE d = c
    BY <1>3, <1>12, <2>1
  <2>2. CASE d # c
    BY <1>2, <1>3, <1>10, <1>11, <1>12, <1>13, <2>2 DEF Born
  <2> QED BY <2>1, <2>2
<1>19. Gone'
  BY <1>2, <1>6, <1>10, <1>11, <1>13 DEF Gone
<1> QED BY <1>15, <1>16, <1>17, <1>18, <1>19 DEF Inv

LEMMA InitInv == Init => Inv
<1> SUFFICES ASSUME Init PROVE Inv
  OBVIOUS
<1>1. /\ Queues.pending = [l \in Loops |-> <<>>]
      /\ Queues.batch = [l \in Loops |-> <<>>]
      /\ Queues.index = [l \in Loops |-> 0]
  BY DEF Init, Queues
<1>2. Queues \in QueuesType /\ IndexOK(Queues)
  <2>1. /\ [l \in Loops |-> <<>>] \in [Loops -> Seq(Functors)]
        /\ [l \in Loops |-> 0] \in [Loops -> Nat]
    OBVIOUS
  <2>2. Queues \in QueuesType
    BY <2>1 DEF Init, Queues, QueuesType
  <2> QED BY <1>1, <2>2 DEF IndexOK
<1>3. /\ \A f : ~Queued(Queues, f) /\ Once(Queues, f) /\ OnlyAtBase(Queues, f)
      /\ \A c : ~Refers(Queues, c)
  <2>1. \A l \in Loops : /\ Len(Queues.pending[l]) = 0
                         /\ Len(Queues.batch[l]) = 0
    BY <1>1
  <2>2. \A f : \A l \in Loops, q \in {0, 1}, i \in Nat : ~At(Queues, f, l, q, i)
    BY <2>1 DEF At
  <2>3. \A f : ~Queued(Queues, f) /\ Once(Queues, f) /\ OnlyAtBase(Queues, f)
    BY <2>2 DEF Queued, Once, OnlyAtBase
  <2>4. ASSUME NEW c, Refers(Queues, c) PROVE FALSE
    <3>1. 1 .. 0 = {}
      OBVIOUS
    <3> QED BY <2>1, <2>4, <3>1 DEF Refers
  <2> QED BY <2>3, <2>4
<1>4. /\ nextConnId_ = 1 /\ next_ = 0 /\ numThreads_ \in 0 .. MaxPool
      /\ connections_ = {} /\ inserting = None
      /\ ioLoop = [c \in Conns |-> None]
      /\ conn = [c \in Conns |-> NewConn]
      /\ destroyedBy = [c \in Conns |-> None]
  BY DEF Init
<1> HIDE DEF Queues
<1>5. NewConn \in ConnType /\ Stage(NewConn) /\ NewConn.told = "nothing"
  BY DEF NewConn, ConnType, Stage
<1>6. Types /\ Stages
  BY <1>2, <1>4, <1>5, PoolAssumption DEF Types, Stages
<1>7. Ordered /\ RemovesAtBase
  BY <1>3, <1>4 DEF Ordered, RemovesAtBase
<1>8. \A c \in Conns : ~(c < 1)
  BY BoundAssumption DEF Conns
<1>9. Kept
  BY <1>4, <1>5, <1>8 DEF Kept
<1>10. Born /\ Gone
  BY <1>3, <1>4, <1>5, <1>8, Constants DEF Born, Gone, Held, InMap
<1> QED BY <1>6, <1>7, <1>9, <1>10 DEF Inv

LEMMA NextInv == Inv /\ [Next]_vars => Inv'
<1> SUFFICES ASSUME Inv, [Next]_vars PROVE Inv'
  OBVIOUS
<1> USE DEF acceptVars, mapVars, loopVars, sockVars
<1>1. CASE Start
  BY <1>1, QuietInv DEF Start
<1>2. CASE Stop
  BY <1>2, StopInv
<1>3. CASE NewConnection
  BY <1>3, NewConnectionInv
<1>4. CASE InsertConnection
  BY <1>4, InsertConnectionInv
<1>5. ASSUME NEW c \in Conns,
             PeerSends(c) \/ PeerCloses(c) \/ HandleMessage(c) \/ HandleReadError(c)
      PROVE  Inv'
  BY <1>5, QuietInv DEF PeerSends, PeerCloses, HandleMessage, HandleReadError
<1>6. ASSUME NEW c \in Conns, HandleEndOfStream(c) \/ HandleHup(c)
      PROVE  Inv'
  <2>1. /\ conn[c].registered /\ HandleClose(c)
        /\ UNCHANGED <<acceptVars, inserting, batch, index, quit_, sockVars,
                       destroyedBy>>
    BY <1>6 DEF HandleEndOfStream, HandleHup, Polled
  <2> QED BY <2>1, HandleCloseInv
<1>7. ASSUME NEW l \in Loops, SwapFunctors(l) \/ RunFunctor(l) \/ EndFunctors(l)
      PROVE  Inv'
  BY <1>7, SwapFunctorsInv, RunFunctorInv, EndFunctorsInv
<1>8. CASE UNCHANGED vars
  BY <1>8, QuietInv DEF vars
<1> QED BY <1>1, <1>2, <1>3, <1>4, <1>5, <1>6, <1>7, <1>8
        DEF Next, HandleEvent

-----------------------------------------------------------------------------
\* What follows from the invariant.

(* Inv holds in every reachable state: what was reported of a connection,  *)
(* which of its three functors wait in which loop, and who holds it agree. *)
THEOREM Invariance == Spec => []Inv
BY InitInv, NextInv, PTL DEF Spec

(* A connection is destroyed only after its channel left the poller and    *)
(* when it is Disconnected, whichever loop drops the last TcpConnectionPtr *)
(* to it.                                                                  *)
THEOREM NoDanglingCorrect == Spec => []NoDanglingChannel
<1>1. Inv => NoDanglingChannel
  <2> SUFFICES ASSUME Inv, NEW c \in Conns, destroyedBy[c] # None
               PROVE  ~conn[c].registered /\ conn[c].state_ = "Disconnected"
    BY DEF NoDanglingChannel
  <2>1. conn[c].told = "down" /\ ~conn[c].registered /\ Stage(conn[c])
    BY DEF Inv, Gone, Stages
  <2> QED BY <2>1 DEF Stage
<1> QED BY <1>1, Invariance, PTL

\* The functors that wait are those of the queues.
LEMMA WaitingQueued ==
    ASSUME Types
    PROVE  \A o, c : Waiting(o, c) <=> Queued(Queues, Functor(o, c))
<1>1. \A l \in Loops : /\ DOMAIN pending[l] = 1 .. Len(pending[l])
                       /\ DOMAIN batch[l] = 1 .. Len(batch[l])
                       /\ index[l] \in Nat
  BY LenProperties DEF Types, Queues, QueuesType
<1>2. \A l \in Loops : /\ \A i \in DOMAIN pending[l] : i \in Nat
                       /\ \A i \in DOMAIN batch[l] : i \in Nat
  BY <1>1
<1>3. /\ Queues.pending = pending /\ Queues.batch = batch
      /\ Queues.index = index
  BY DEF Queues
<1> HIDE DEF Queues
<1> SUFFICES ASSUME NEW o, NEW c
             PROVE  Waiting(o, c) <=> Queued(Queues, Functor(o, c))
  OBVIOUS
<1>4. \A l \in Loops, i \in Nat :
         /\ At(Queues, Functor(o, c), l, 0, i) <=>
               i \in DOMAIN pending[l] /\ pending[l][i] = Functor(o, c)
         /\ At(Queues, Functor(o, c), l, 1, i) <=>
               /\ i \in DOMAIN batch[l] /\ i > index[l]
               /\ batch[l][i] = Functor(o, c)
  BY <1>1, <1>3 DEF At
<1>5. Waiting(o, c) => Queued(Queues, Functor(o, c))
  BY <1>2, <1>4 DEF Waiting, Queued
<1>6. Queued(Queues, Functor(o, c)) => Waiting(o, c)
  BY <1>4 DEF Waiting, Queued
<1> QED BY <1>5, <1>6

(* A connection whose end was reported is out of the map, or               *)
(* removeConnection() is queued for it: newConnection() does not put a     *)
(* dead connection into the map for good.                                  *)
THEOREM ClosedLeavesCorrect == Spec => []ClosedLeavesMap
<1>1. Inv => ClosedLeavesMap
  BY WaitingQueued DEF Inv, Kept, InMap, ClosedLeavesMap
<1> QED BY <1>1, Invariance, PTL

(* connectDestroyed() never finds its connection Connected, and nobody     *)
(* ever closes a connection's descriptor.                                  *)
THEOREM NeverConnectedCorrect == Spec => []NeverDestroyedConnected
<1>1. Inv => NeverDestroyedConnected
  <2> SUFFICES ASSUME Inv, NEW c \in Conns
               PROVE  /\ Waiting("destroy", c) => conn[c].state_ = "Disconnected"
                      /\ conn[c].fdOpen
    BY DEF NeverDestroyedConnected
  <2>1. Stage(conn[c]) /\ (Waiting("destroy", c) => conn[c].told = "down")
    BY WaitingQueued DEF Inv, Stages, Ordered
  <2> QED BY <2>1 DEF Stage
<1> QED BY <1>1, Invariance, PTL

-----------------------------------------------------------------------------
\* The order of callbacks.

SocketTypes == unread \in [Conns -> BOOLEAN]

LEMMA SocketStep == SocketTypes /\ [Next]_vars => SocketTypes'
<1> SUFFICES ASSUME SocketTypes, [Next]_vars PROVE SocketTypes'
  OBVIOUS
<1>1. \/ \E c \in Conns : PeerSends(c) \/ HandleMessage(c)
      \/ UNCHANGED unread
  BY DEF Next, vars, sockVars, Start, Stop, NewConnection, InsertConnection,
         PeerCloses, HandleEvent, HandleReadError, HandleEndOfStream,
         HandleHup, SwapFunctors, RunFunctor, EndFunctors
<1> QED BY <1>1 DEF SocketTypes, PeerSends, HandleMessage

\* One step of a connection: never up after down, and the end is reported
\* only of a connection that was reported up.
Advances(j, k) ==
    /\ j.told = "down" => k.told = "down"
    /\ k.downs > j.downs => j.told # "nothing"

LEMMA AdvancesCases ==
    ASSUME NEW k \in ConnType
    PROVE  /\ Advances(k, k)
           /\ k.told = "nothing" => Advances(k, Established(k))
           /\ Stage(k) /\ k.registered => Advances(k, Closed(k))
           /\ Stage(k) /\ k.told = "down" => Advances(k, Destroyed(k))
<1>1. k.downs \in Nat
  BY DEF ConnType
<1>2. Advances(k, k)
  BY <1>1 DEF Advances
<1>3. k.told = "nothing" => Advances(k, Established(k))
  BY <1>1 DEF Advances, Established, ConnType
<1>4. Stage(k) /\ k.registered => Advances(k, Closed(k))
  BY ClosedEffect DEF Advances
<1>5. ASSUME Stage(k), k.told = "down" PROVE Advances(k, Destroyed(k))
  BY <1>1, <1>5 DEF Advances, Destroyed, Stage, ConnType
<1> QED BY <1>2, <1>3, <1>4, <1>5

LEMMA RunFinds ==
    ASSUME Inv, NEW l \in Loops, index[l] < Len(batch[l])
    PROVE  /\ batch[l][index[l] + 1] \in Functors
           /\ Queued(Queues, batch[l][index[l] + 1])
<1> DEFINE g == batch[l][index[l] + 1]
           R == [pending |-> Queues.pending, batch |-> Queues.batch,
                 index |-> [Queues.index EXCEPT ![l] = @ + 1]]
<1>1. /\ Queues \in QueuesType /\ IndexOK(Queues)
      /\ Queues.batch = batch /\ Queues.pending = pending
      /\ Queues.index = index
  BY DEF Inv, Types, Queues
<1>2. g = Queues.batch[l][Queues.index[l] + 1]
  BY <1>1
<1>3. Queues.index[l] < Len(Queues.batch[l])
  BY <1>1
<1>4. \A r : r = R => Takes(Queues, r, g) /\ g \in Functors
  <2> HIDE DEF Queues, g
  <2> QED BY <1>1, <1>2, <1>3, RunEffect
<1>5. Takes(Queues, R, g) /\ g \in Functors
  <2> HIDE DEF R, g
  <2> QED BY <1>4
<1> HIDE DEF R
<1> QED BY <1>5 DEF Takes

LEMMA ConnStep ==
    ASSUME Inv, [Next]_vars, NEW c \in Conns
    PROVE  Advances(conn[c], conn'[c])
<1>1. /\ conn \in [Conns -> ConnType] /\ Stages /\ Ordered /\ Born
      /\ conn[c] \in ConnType
  BY DEF Inv, Types
<1>2. CASE UNCHANGED conn
  BY <1>1, <1>2, AdvancesCases
<1>3. CASE NewConnection
  <2>1. /\ conn' = conn \/ conn' = [conn EXCEPT ![nextConnId_] = Established(@)]
        /\ nextConnId_ <= MaxConns
    BY <1>3 DEF NewConnection
  <2>2. nextConnId_ \in Conns /\ ~(nextConnId_ < nextConnId_)
    BY <2>1, BoundAssumption DEF Inv, Types, Conns
  <2>3. conn[nextConnId_].told = "nothing"
    BY <1>1, <2>2 DEF Born
  <2> QED BY <1>1, <2>1, <2>3, AdvancesCases
<1>4. ASSUME NEW d \in Conns, HandleEndOfStream(d) \/ HandleHup(d)
      PROVE  Advances(conn[c], conn'[c])
  <2>1. conn[d].registered /\ conn' = [conn EXCEPT ![d] = Closed(@)]
    BY <1>4 DEF HandleEndOfStream, HandleHup, HandleClose, Polled
  <2> QED BY <1>1, <2>1, AdvancesCases DEF Stages
<1>5. ASSUME NEW l \in Loops, RunFunctor(l)
      PROVE  Advances(conn[c], conn'[c])
  <2> DEFINE g == batch[l][index[l] + 1]
  <2>1. /\ index[l] < Len(batch[l])
        /\ \/ conn' = conn
           \/ g.op = "establish" /\ conn' = [conn EXCEPT ![g.conn] = Established(@)]
           \/ g.op = "destroy" /\ conn' = [conn EXCEPT ![g.conn] = Destroyed(@)]
    BY <1>5 DEF RunFunctor, RemoveConnection
  <2>2. g \in Functors /\ Queued(Queues, g)
    BY <2>1, RunFinds
  <2>3. /\ g = Functor(g.op, g.conn)
        /\ g.op \in {"establish", "destroy"} => g.conn \in Conns
    BY <2>2, FunctorForm
  <2> HIDE DEF g
  <2>4. /\ g.op = "establish" => conn[g.conn].told = "nothing"
        /\ g.op = "destroy" => conn[g.conn].told = "down"
    BY <1>1, <2>2, <2>3 DEF Ordered
  <2>5. conn[c] \in ConnType /\ Stage(conn[c])
    BY <1>1 DEF Stages
  <2>6. \/ conn'[c] = conn[c]
        \/ conn[c].told = "nothing" /\ conn'[c] = Established(conn[c])
        \/ conn[c].told = "down" /\ conn'[c] = Destroyed(conn[c])
    BY <1>1, <2>1, <2>3, <2>4
  <2> QED BY <2>5, <2>6, AdvancesCases
<1> QED BY <1>2, <1>3, <1>4, <1>5
        DEF Next, vars, Start, Stop, InsertConnection, PeerSends, PeerCloses,
            HandleEvent, HandleMessage, HandleReadError, SwapFunctors,
            EndFunctors

(* Messages are delivered only between the two reports on a connection,    *)
(* and these come in order, once up and never up after down.               *)
THEOREM CallbackOrderCorrect == Spec => CallbackOrder
<1>1. Init => SocketTypes
  BY DEF Init, SocketTypes
<1>2. Inv /\ SocketTypes /\ [Next]_vars =>
        [\A c \in Conns :
          /\ unread[c] /\ ~unread'[c] => conn[c].told = "up"
          /\ conn[c].told = "down" => conn'[c].told = "down"
          /\ conn'[c].downs > conn[c].downs => conn[c].told # "nothing"]_vars
  <2> SUFFICES ASSUME Inv, SocketTypes, [Next]_vars, NEW c \in Conns
               PROVE  /\ unread[c] /\ ~unread'[c] => conn[c].told = "up"
                      /\ Advances(conn[c], conn'[c])
    BY DEF Advances
  <2>1. ASSUME unread[c], ~unread'[c] PROVE conn[c].told = "up"
    <3>1. \/ \E d \in Conns : PeerSends(d) \/ HandleMessage(d)
          \/ UNCHANGED unread
      BY DEF Next, vars, sockVars, Start, Stop, NewConnection,
             InsertConnection, PeerCloses, HandleEvent, HandleReadError,
             HandleEndOfStream, HandleHup, SwapFunctors, RunFunctor,
             EndFunctors
    <3>2. HandleMessage(c)
      BY <2>1, <3>1 DEF SocketTypes, PeerSends, HandleMessage
    <3>3. conn[c].reading /\ Stage(conn[c])
      BY <3>2 DEF HandleMessage, PollIn, Inv, Stages
    <3> QED BY <3>3 DEF Stage
  <2> QED BY <2>1, ConnStep
<1> QED BY <1>1, <1>2, SocketStep, Invariance, PTL DEF Spec, CallbackOrder

-----------------------------------------------------------------------------
\* The turns of the pool's loops.

(* Every loop was given as many connections as the next one, and one more  *)
(* if its turn in this round is over.                                      *)
Turns ==
    \A l \in Pool :
        Share(l) = Share(NextLoop) + (IF l <= next_ THEN 1 ELSE 0)

ShareOf(f, l) == Cardinality({c \in Conns : f[c] = l})

\* What giving connection c to loop l does to the share of loop m.
Grows(f, c, l, m) ==
    /\ ShareOf(f, m) \in Nat
    /\ ShareOf([f EXCEPT ![c] = l], m) =
          IF m = l THEN ShareOf(f, m) + 1 ELSE ShareOf(f, m)

LEMMA ShareGrows ==
    ASSUME NEW f \in [Conns -> Loops \cup {None}], NEW c \in Conns,
           f[c] = None, NEW l \in Loops, NEW m \in Loops
    PROVE  Grows(f, c, l, m)
<1> DEFINE S == {d \in Conns : f[d] = m}
           T == {d \in Conns : [f EXCEPT ![c] = l][d] = m}
<1>1. IsFiniteSet(Conns)
  BY FS_Interval, BoundAssumption DEF Conns
<1>2. IsFiniteSet(S) /\ c \notin S
  BY <1>1, FS_Subset, Constants
<1>3. Cardinality(S) \in Nat
  BY <1>2, FS_CardinalityType
<1>4. CASE m = l
  <2>1. T = S \cup {c}
    BY <1>4
  <2>2. Cardinality(T) = Cardinality(S) + 1
    BY <1>2, <2>1, FS_AddElement
  <2> QED BY <1>3, <1>4, <2>2 DEF ShareOf, Grows
<1>5. CASE m # l
  <2>1. T = S
    BY <1>5, Constants
  <2> QED BY <1>3, <1>5, <2>1 DEF ShareOf, Grows
<1> QED BY <1>4, <1>5

LEMMA TurnsStep == Inv /\ Turns /\ [Next]_vars => Turns'
<1> SUFFICES ASSUME Inv, Turns, [Next]_vars PROVE Turns'
  OBVIOUS
<1>1. CASE UNCHANGED <<numThreads_, next_, ioLoop>>
  BY <1>1 DEF Turns, Pool, Share, NextLoop
<1>2. CASE NewConnection
  <2>1. PICK c : c = nextConnId_
    OBVIOUS
  <2>2. PICK s : s = NextLoop
    OBVIOUS
  <2>3. /\ next_' = NextIndex /\ ioLoop' = [ioLoop EXCEPT ![c] = s]
        /\ numThreads_' = numThreads_ /\ c \in Conns /\ ioLoop[c] = None
    <3>1. c \in Conns /\ ~(c < nextConnId_)
      BY <1>2, <2>1, BoundAssumption DEF NewConnection, Inv, Types, Conns
    <3> QED BY <1>2, <2>1, <2>2, <3>1 DEF NewConnection, Inv, Born
  <2>4. /\ s \in Loops /\ ioLoop \in [Conns -> Loops \cup {None}]
    BY <2>2, NextLoopFacts DEF Inv, Types
  <2>5. /\ \A m \in Loops : /\ Share(m) = ShareOf(ioLoop, m)
                            /\ Share(m)' = ShareOf(ioLoop', m)
    BY DEF Share, ShareOf
  <2>6. \A m \in Loops :
          /\ Share(m) \in Nat
          /\ Share(m)' = IF m = s THEN Share(m) + 1 ELSE Share(m)
    <3> SUFFICES ASSUME NEW m \in Loops
                 PROVE  /\ Share(m) \in Nat
                        /\ Share(m)' = IF m = s THEN Share(m) + 1 ELSE Share(m)
      OBVIOUS
    <3>1. /\ ShareOf(ioLoop, m) \in Nat
          /\ ShareOf([ioLoop EXCEPT ![c] = s], m) =
                IF m = s THEN ShareOf(ioLoop, m) + 1 ELSE ShareOf(ioLoop, m)
      <4>1. /\ ioLoop \in [Conns -> Loops \cup {None}] /\ c \in Conns
            /\ ioLoop[c] = None /\ s \in Loops
        BY <2>3, <2>4
      <4>2. Grows(ioLoop, c, s, m)
        BY <4>1, ShareGrows, Zenon
      <4> QED BY <4>2 DEF Grows
    <3>2. /\ ShareOf(ioLoop', m) \in Nat
          /\ ShareOf(ioLoop', m) =
                IF m = s THEN ShareOf(ioLoop, m) + 1 ELSE ShareOf(ioLoop, m)
      BY <2>3, <3>1
    <3> QED BY <2>5, <3>1, <3>2
  <2>7. /\ numThreads_ \in Nat /\ next_ \in Nat /\ numThreads_ <= MaxPool
        /\ next_ < numThreads_ \/ (numThreads_ = 0 /\ next_ = 0)
    BY DEF Inv, Types
  <2>8. CASE numThreads_ = 0
    BY <2>3, <2>8 DEF Turns, Pool
  <2>9. CASE numThreads_ # 0
    <3>1. /\ s = next_ + 1 /\ s \in Pool
          /\ next_' = IF s = numThreads_ THEN 0 ELSE s
          /\ \A m \in Pool : m \in Loops /\ m \in Nat \ {0}
      BY <2>2, <2>3, <2>7, <2>9, PoolAssumption
         DEF NextLoop, NextIndex, Pool, Loops, Base
    <3>2. PICK t : t = NextLoop'
      OBVIOUS
    <3>3. /\ t = next_' + 1 /\ t \in Pool
      BY <2>3, <2>7, <2>9, <3>1, <3>2 DEF NextLoop, Pool
    <3>4. \A m \in Pool : Share(m) = Share(s) + (IF m <= next_ THEN 1 ELSE 0)
      BY <2>2 DEF Turns
    <3>5. \A m \in Pool : Share(m)' = Share(s) + (IF m <= s THEN 1 ELSE 0)
      BY <2>6, <2>7, <3>1, <3>4
    <3>6. \A m \in Pool : Share(m)' = Share(t)' + (IF m <= next_' THEN 1 ELSE 0)
      BY <2>6, <2>7, <3>1, <3>3, <3>5 DEF Pool
    <3>7. Pool' = Pool
      BY <2>3 DEF Pool
    <3>8. Share(NextLoop)' = Share(t)'
      BY <3>2 DEF Share
    <3> QED BY <3>6, <3>7, <3>8 DEF Turns
  <2> QED BY <2>8, <2>9
<1> QED BY <1>1, <1>2
        DEF Next, vars, acceptVars, Start, Stop, InsertConnection, PeerSends,
            PeerCloses, HandleEvent, HandleMessage, HandleReadError,
            HandleEndOfStream, HandleHup, SwapFunctors, RunFunctor,
            EndFunctors

(* getNextLoop() takes a loop that exists, and one that was given no more  *)
(* connections than any other of the pool.                                 *)
THEOREM PoolCorrect == Spec => []PoolBalanced
<1>1. Init => Turns
  <2> SUFFICES ASSUME Init, NEW l \in Pool
               PROVE  Share(l) = Share(NextLoop) + (IF l <= next_ THEN 1 ELSE 0)
    BY DEF Turns
  <2>1. l \in Nat /\ l # None /\ next_ = 0 /\ ~(l <= next_)
    BY NoneAssumption DEF Init, Pool
  <2>2. NextLoop \in Nat /\ NextLoop # None
    BY <2>1, NoneAssumption DEF NextLoop, Base
  <2>3. {c \in Conns : ioLoop[c] = l} = {} /\ {c \in Conns : ioLoop[c] = NextLoop} = {}
    BY <2>1, <2>2 DEF Init
  <2>4. Share(l) = 0 /\ Share(NextLoop) = 0
    BY <2>3, FS_EmptySet DEF Share
  <2> QED BY <2>1, <2>4
<1>2. Inv /\ Turns => PoolBalanced
  <2>0. Inv => NextLoop \in (IF numThreads_ = 0 THEN {Base} ELSE Pool)
    BY NextLoopFacts DEF Inv, Types, NextLoop, NextIndex, Pool
  <2> SUFFICES ASSUME Inv, Turns, NEW l \in Pool
               PROVE  Share(NextLoop) <= Share(l)
    BY <2>0 DEF PoolBalanced
  <2>1. NextLoop \in Loops
    BY NextLoopFacts DEF Inv
  <2>2. IsFiniteSet(Conns)
    BY FS_Interval, BoundAssumption DEF Conns
  <2>3. IsFiniteSet({c \in Conns : ioLoop[c] = NextLoop})
    BY <2>2, FS_Subset
  <2>4. Share(NextLoop) \in Nat
    BY <2>3, FS_CardinalityType DEF Share
  <2> QED BY <2>4 DEF Turns
<1> QED BY <1>1, <1>2, TurnsStep, Invariance, PTL DEF Spec

-----------------------------------------------------------------------------
(* The server's Acceptor, for any finite table of descriptors and any      *)
(* number of connections.                                                  *)

Exchange == {"accept", "close", "open"}     \* the reserve is given up

AcceptorTypes ==
    /\ pc \in {"poll", "failed", "destroyed"} \cup Exchange
    /\ idleFd_ \in Fds \cup {NoFd}
    /\ owner \in [Fds -> {"free", "acceptor", "conn", "other"}]
    /\ lost \in BOOLEAN

\* What the acceptor owns is idleFd_ and nothing else; where the handler has
\* just closed it, the number in idleFd_ is no longer the acceptor's.
OwnsIdle ==
    /\ \A f \in Fds :
          owner[f] = "acceptor" => f = idleFd_ /\ pc \in {"poll", "failed", "close"}
    /\ pc \in {"poll", "failed", "close"} /\ idleFd_ # NoFd =>
          owner[idleFd_] = "acceptor"

\* During the exchange a descriptor is free, or accepted in its place, or
\* another thread has taken one.
SlotKept ==
    /\ pc \in {"poll", "failed"} => idleFd_ # NoFd \/ lost
    /\ pc = "close" => idleFd_ # NoFd \/ Free # {} \/ lost
    /\ pc \in {"accept", "open"} => Free # {} \/ lost

AcceptorInv == AcceptorTypes /\ OwnsIdle /\ SlotKept

-----------------------------------------------------------------------------

LEMMA AcceptorInitInv == AcceptorInit => AcceptorInv
BY FdAssumption
   DEF AcceptorInit, AcceptorInv, AcceptorTypes, OwnsIdle, SlotKept, Exchange

LEMMA AcceptorNextInv == AcceptorInv /\ [AcceptorNext]_acceptorVars => AcceptorInv'
<1> SUFFICES ASSUME AcceptorInv, [AcceptorNext]_acceptorVars PROVE AcceptorInv'
  OBVIOUS
<1> USE FdAssumption
    DEF AcceptorInv, AcceptorTypes, OwnsIdle, SlotKept, Exchange, Free
<1>1. CASE Listen \/ Arrive
  BY <1>1 DEF Listen, Arrive
<1>2. CASE HandleRead \/ HandleReadFails \/ Return
  BY <1>2 DEF HandleRead, HandleReadFails, Return
<1>3. CASE CloseIdle
  BY <1>3 DEF CloseIdle, CloseFd
<1>4. CASE AcceptIdle
  BY <1>4 DEF AcceptIdle, Accepted
<1>5. CASE CloseAccepted
  BY <1>5 DEF CloseAccepted, CloseFd
<1>6. CASE OpenIdle
  BY <1>6 DEF OpenIdle
<1>7. CASE Destroy
  BY <1>7 DEF Destroy, CloseFd
<1>8. CASE OtherOpens
  BY <1>8 DEF OtherOpens
<1>9. CASE OtherCloses
  BY <1>9 DEF OtherCloses
<1>10. CASE UNCHANGED acceptorVars
  BY <1>10 DEF acceptorVars
<1> QED
  BY <1>1, <1>2, <1>3, <1>4, <1>5, <1>6, <1>7, <1>8, <1>9, <1>10
  DEF AcceptorNext, Handler

(* AcceptorInv is inductive.                                               *)
THEOREM AcceptorInvariance == AcceptorSpec => []AcceptorInv
BY AcceptorInitInv, AcceptorNextInv, PTL DEF AcceptorSpec

(* handleRead() and the destructor close only descriptors of the acceptor, *)
(* whatever the other threads open between its system calls.               *)
THEOREM ClosesOwnCorrect == AcceptorSpec => []ClosesOwn
<1>1. AcceptorInv => ClosesOwn
  BY DEF AcceptorInv, OwnsIdle, ClosesOwn
<1> QED BY <1>1, AcceptorInvariance, PTL

(* The reserve is missing only from the start or after a race in the       *)
(* exchange, and the acceptor leaks no descriptor.                         *)
THEOREM ReserveCorrect == AcceptorSpec => []ReserveKept
<1>1. AcceptorInv => ReserveKept
  BY DEF AcceptorInv, OwnsIdle, SlotKept, ReserveKept
<1> QED BY <1>1, AcceptorInvariance, PTL
=============================================================================
