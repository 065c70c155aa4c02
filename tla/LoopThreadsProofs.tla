-------------------------- MODULE LoopThreadsProofs --------------------------
(***************************************************************************)
(* Proofs about LoopThreads, for any number of threads and whatever their  *)
(* uninitialised loop_ holds.                                              *)
(***************************************************************************)
EXTENDS LoopThreads, SequenceTheorems, TLAPS

Starting == {"lock", "test", "wait", "take"}     \* startLoop(), after fork
Pointers == Threads \cup {Null, Wild}

\* The types of the pool's fields, and of the threads' fields.
PoolTypes ==
    /\ numThreads_ \in 0 .. MaxThreads /\ cur \in Nat
    /\ base \in Starting \cup {"user", "spawn", "quit", "wakeup", "join",
                               "joined"}
    /\ loops_ \in Seq(Pointers)

ThreadTypes ==
    /\ loop_ \in [Threads -> Pointers]
    /\ mutex_ \in [Threads -> {"free", "base", "thread"}]
    /\ thread \in [Threads -> {"none", "init", "publish", "notify", "loop",
                               "after", "ended"}]
    /\ quit_ \in [Threads -> BOOLEAN] /\ wakeup \in [Threads -> BOOLEAN]

TypeOK == PoolTypes /\ ThreadTypes

\* Where the base thread is in its vectors.
BaseOK ==
    /\ Len(loops_) <= numThreads_
    /\ base \in Starting \cup {"spawn"} =>
          cur = Len(loops_) + 1 /\ cur <= numThreads_ /\ started_
    /\ base \in {"quit", "wakeup"} => cur \in 1 .. Len(loops_) /\ quitCalled
    /\ ~started_ => loops_ = <<>> /\ ~quitCalled
    /\ quitCalled => base \notin Starting \cup {"spawn"}
    /\ again => quitCalled

\* start() has made all the threads of the pool when it returns, and the
\* destructor has joined the ones before cur.
JoinOK ==
    /\ base \notin Starting \cup {"spawn"} /\ loops_ # <<>> =>
          Len(loops_) = numThreads_
    /\ base = "join" =>
          /\ cur \in 1 .. numThreads_ /\ loops_ # <<>>
          /\ \A i \in Threads : i < cur => thread[i] = "ended"
    /\ base = "joined" =>
          \A i \in Threads : i <= Len(loops_) => thread[i] = "ended"

\* A thread that startLoop() has not reached does not run.
NotSpawned ==
    \A i \in Threads :
        i > Len(loops_) /\ (i = Len(loops_) + 1 => base \notin Starting) =>
            thread[i] = "none"

\* The mutex of thread i is held by who is inside its critical section.
MutexOK ==
    \A i \in Threads :
        /\ mutex_[i] = "base" <=> base \in {"test", "take"} /\ cur = i
        /\ mutex_[i] = "thread" <=> thread[i] = "notify"

\* loop_ of thread i is null, points to the loop while that exists and is
\* published, or is what it was before startLoop().
PointerOK ==
    \A i \in Threads :
        /\ loop_[i] \in {Null, Wild, i}
        /\ loop_[i] = Wild => i \in garbage
        /\ loop_[i] = i => thread[i] \in {"notify", "loop", "after"}

\* What cond_.wait() was waiting for is still true when it is used.
TakesLoop == base = "take" => loop_[cur] # Null

\* A loop ends by quit_, which is set by the loop's own code or by quit(),
\* whose first call has not reached the loops from cur on.
QuitOnce ==
    \A i \in Threads :
        /\ thread[i] \in {"after", "ended"} => quit_[i]
        /\ quit_[i] /\ i \notin selfQuit /\ ~again =>
              /\ quitCalled
              /\ base = "quit" => i < cur
              /\ base = "wakeup" => i <= cur
        /\ wakeup[i] /\ i \notin selfQuit /\ ~again =>
              /\ quitCalled
              /\ base \in {"quit", "wakeup"} => i < cur

\* What quit() has done to the loops before cur, and to that at cur.
Told(i) ==
    loops_[i] = i => quit_[i] /\ (wakeup[i] \/ thread[i] = "ended")
QuitTold ==
    /\ \A i \in DOMAIN loops_ :
          quitCalled /\ (base \in {"quit", "wakeup"} => again \/ i < cur) => Told(i)
    /\ base = "wakeup" /\ loops_[cur] = cur => quit_[cur]

TouchedOK ==
    \A t \in touched :
        /\ t \in {"quit", "wakeup"} \X Pointers
        /\ Explained(t[1], t[2])

Inv ==
    /\ TypeOK /\ BaseOK /\ JoinOK /\ NotSpawned /\ MutexOK /\ PointerOK /\ TakesLoop
    /\ LoopsReady /\ QuitOnce /\ QuitTold /\ TouchedOK

(* When the pool's destructor is through, no thread of the pool runs: none *)
(* uses its EventLoopThread, its mutex_ or its loop_ after they are gone.  *)
NoneLeftBehind ==
    base = "joined" => \A i \in Threads : thread[i] \in {"none", "ended"}

-----------------------------------------------------------------------------

LEMMA InitInv == Init => Inv
<1> SUFFICES ASSUME Init PROVE Inv
  OBVIOUS
<1> USE ThreadsAssumption, PointerAssumption DEF Init, Threads
<1>1. TypeOK
  BY DEF TypeOK, PoolTypes, ThreadTypes, Starting, Pointers
<1>2. BaseOK /\ NotSpawned /\ MutexOK /\ PointerOK /\ TakesLoop
  BY DEF BaseOK, NotSpawned, MutexOK, PointerOK, TakesLoop, Starting
<1>3. LoopsReady /\ QuitOnce /\ QuitTold /\ TouchedOK
  BY DEF LoopsReady, QuitOnce, QuitTold, Told, TouchedOK, Explained
<1>4. JoinOK
  BY DEF JoinOK
<1> QED BY <1>1, <1>2, <1>3, <1>4 DEF Inv

\* A step that touches no loop keeps the explanations.
LEMMA SameTouched ==
    ASSUME TouchedOK, UNCHANGED <<touched, again, garbage>>,
           selfQuit \subseteq selfQuit',
           \A i \in Threads : thread[i] = "ended" =>
              thread'[i] = "ended" /\ quit_'[i] = quit_[i]
              /\ wakeup'[i] = wakeup[i]
    PROVE  TouchedOK'
BY DEF TouchedOK, Explained

LEMMA StartStep == Inv /\ (Start \/ Spawn) => Inv'
<1> SUFFICES ASSUME Inv, Start \/ Spawn PROVE Inv'
  OBVIOUS
<1> USE ThreadsAssumption, PointerAssumption
    DEF Inv, Start, Spawn, poolVars, Starting, Pointers, TypeOK, PoolTypes, ThreadTypes
<1>1. PoolTypes' /\ ThreadTypes'
  OBVIOUS
<1>2. BaseOK'
  BY DEF BaseOK
<1>3. base = "spawn" => cur \in Threads /\ thread[cur] = "none"
  BY DEF BaseOK, NotSpawned, Threads
<1>4. NotSpawned'
  BY <1>3 DEF BaseOK, NotSpawned, Threads
<1>5. MutexOK'
  BY <1>3 DEF MutexOK
<1>6. PointerOK' /\ TakesLoop'
  BY <1>3 DEF PointerOK, TakesLoop
<1>7. LoopsReady'
  BY <1>3 DEF BaseOK, LoopsReady
<1>8. QuitOnce' /\ QuitTold' /\ TouchedOK'
  <2>1. QuitOnce' /\ QuitTold'
    BY <1>3 DEF BaseOK, QuitOnce, QuitTold, Told
  <2>2. /\ UNCHANGED <<touched, again, garbage, selfQuit, quit_, wakeup>>
        /\ \A i \in Threads : thread[i] = "ended" => thread'[i] = "ended"
    BY <1>3
  <2> QED BY <2>1, <2>2, SameTouched
<1>9. JoinOK'
  BY <1>3 DEF BaseOK, JoinOK
<1> QED BY <1>1, <1>2, <1>4, <1>5, <1>6, <1>7, <1>8, <1>9

LEMMA HandshakeStep == Inv /\ (Lock \/ Test \/ Wake) => Inv'
<1> SUFFICES ASSUME Inv, Lock \/ Test \/ Wake PROVE Inv'
  OBVIOUS
<1> USE ThreadsAssumption, PointerAssumption
    DEF Inv, Lock, Test, Wake, poolVars, Starting, Pointers, TypeOK, PoolTypes, ThreadTypes
<1>1. PoolTypes' /\ ThreadTypes'
  OBVIOUS
<1>2. BaseOK'
  BY DEF BaseOK
<1>3. NotSpawned' /\ MutexOK' /\ PointerOK' /\ TakesLoop'
  BY DEF BaseOK, NotSpawned, MutexOK, PointerOK, TakesLoop, Threads
<1>4. LoopsReady' /\ QuitOnce' /\ QuitTold' /\ TouchedOK'
  BY DEF BaseOK, LoopsReady, QuitOnce, QuitTold, Told, TouchedOK, Explained
<1>5. JoinOK'
  BY DEF JoinOK
<1> QED BY <1>1, <1>2, <1>3, <1>4, <1>5

LEMMA TakeStep == Inv /\ Take => Inv'
<1> SUFFICES ASSUME Inv, Take PROVE Inv'
  OBVIOUS
<1> USE ThreadsAssumption, PointerAssumption
    DEF Inv, Take, Starting, Pointers, TypeOK, PoolTypes, ThreadTypes
<1>1. cur \in Threads /\ cur = Len(loops_) + 1 /\ loop_[cur] \in Pointers
  BY DEF BaseOK, Threads
<1>2. /\ loops_' \in Seq(Pointers) /\ Len(loops_') = cur
      /\ loops_'[cur] = loop_[cur]
      /\ \A i \in 1 .. Len(loops_) : loops_'[i] = loops_[i]
  BY <1>1, AppendProperties
<1>3. TypeOK'
  BY <1>1, <1>2
<1>4. BaseOK' /\ TakesLoop'
  BY <1>1, <1>2 DEF BaseOK, TakesLoop
<1>8. NotSpawned'
  <2>1. ASSUME NEW i \in Threads, i > cur PROVE thread[i] = "none"
    <3>1. i > Len(loops_) /\ i # Len(loops_) + 1
      BY <1>1, <2>1 DEF Threads
    <3> QED BY <3>1 DEF NotSpawned
  <2> QED BY <1>2, <2>1 DEF NotSpawned
<1>5. MutexOK' /\ PointerOK'
  BY <1>1, <1>2 DEF BaseOK, MutexOK, PointerOK, Threads
<1>6. LoopsReady'
  <2>1. loop_[cur] = cur => thread[cur] \in {"loop", "after", "ended"}
    BY <1>1 DEF MutexOK, PointerOK
  <2>2. loop_[cur] = cur \/ (cur \in garbage /\ loop_[cur] = Wild)
    BY <1>1 DEF PointerOK, TakesLoop
  <2>3. DOMAIN loops_' = 1 .. cur /\ DOMAIN loops_ = 1 .. Len(loops_)
    BY <1>2
  <2>4. ASSUME NEW i \in 1 .. Len(loops_)
        PROVE  /\ loops_'[i] = i \/ (i \in garbage' /\ loops_'[i] = Wild)
               /\ loops_'[i] = i => thread'[i] \in {"loop", "after", "ended"}
    BY <1>2, <2>3, <2>4 DEF LoopsReady
  <2> QED BY <1>1, <1>2, <2>1, <2>2, <2>3, <2>4 DEF LoopsReady
<1>7. QuitOnce' /\ QuitTold' /\ TouchedOK'
  BY DEF BaseOK, QuitOnce, QuitTold, Told, TouchedOK, Explained
<1>9. JoinOK'
  BY <1>1, <1>2 DEF BaseOK, JoinOK
<1> QED BY <1>3, <1>4, <1>5, <1>6, <1>7, <1>8, <1>9

LEMMA QuitStep == Inv /\ (Quit \/ QuitLoop \/ QuitWakeup) => Inv'
<1> SUFFICES ASSUME Inv, Quit \/ QuitLoop \/ QuitWakeup PROVE Inv'
  OBVIOUS
<1> USE ThreadsAssumption, PointerAssumption
    DEF Inv, Quit, QuitLoop, QuitWakeup, poolVars, Starting, Pointers, TypeOK, PoolTypes, ThreadTypes
<1>1. loops_ # <<>> => Len(loops_) >= 1
  OBVIOUS
<1>2. base = "quit" \/ base = "wakeup" =>
         /\ cur \in Threads /\ cur \in DOMAIN loops_
         /\ loops_[cur] \in Threads => loops_[cur] = cur
  BY DEF BaseOK, LoopsReady, Threads
<1>3. TypeOK'
  <2>1. PoolTypes'
    BY <1>1
  <2>2. ThreadTypes'
    OBVIOUS
  <2> QED BY <2>1, <2>2
<1>4. BaseOK'
  BY <1>1 DEF BaseOK
<1>5. NotSpawned' /\ MutexOK' /\ PointerOK' /\ TakesLoop'
  BY DEF BaseOK, NotSpawned, MutexOK, PointerOK, TakesLoop
<1>6. LoopsReady'
  BY DEF LoopsReady
<1>7. QuitOnce'
  <2>0. \A i \in Threads : i \in Nat
    BY DEF Threads
  <2>1. CASE Quit
    BY <2>1 DEF BaseOK, QuitOnce
  <2>2. CASE QuitLoop
    <3>1. \A i \in Threads : /\ quit_'[i] => quit_[i] \/ i = cur
                             /\ quit_[i] => quit_'[i]
      BY <1>2, <2>2
    <3>2. quitCalled /\ base = "quit" /\ base' = "wakeup"
      BY <2>2 DEF BaseOK
    <3>3. UNCHANGED <<thread, selfQuit, quitCalled, again, cur, wakeup>>
          /\ cur \in Nat
      BY <2>2
    <3> HIDE DEF QuitLoop, TypeOK
    <3> QED BY <2>0, <3>1, <3>2, <3>3 DEF QuitOnce
  <2>3. CASE QuitWakeup
    <3>1. \A i \in Threads : wakeup'[i] => wakeup[i] \/ i = cur
      BY <1>2, <2>3
    <3>2. /\ UNCHANGED <<thread, selfQuit, quitCalled, again, quit_>>
          /\ base = "wakeup"
          /\ \/ base' = "user"
             \/ base' = "quit" /\ cur' = cur + 1
      BY <2>3
    <3>3. quitCalled /\ cur \in Nat
      BY <2>3 DEF BaseOK
    <3> HIDE DEF QuitWakeup, TypeOK
    <3> QED BY <2>0, <3>1, <3>2, <3>3 DEF QuitOnce
  <2> QED BY <2>1, <2>2, <2>3
<1>8. QuitTold'
  <2>0. \A i \in DOMAIN loops_ : i \in Threads /\ i \in Nat
    BY DEF BaseOK, Threads
  <2>1. CASE Quit
    <3>1. ASSUME NEW i \in DOMAIN loops_, again' \/ i < cur' PROVE Told(i)
      <4>1. i >= 1 /\ cur' = 1 /\ again' = quitCalled
        BY <2>1
      <4>2. quitCalled /\ base = "user"
        BY <2>0, <2>1, <3>1, <4>1
      <4> QED BY <4>2 DEF QuitTold
    <3>2. UNCHANGED <<loops_, quit_, wakeup, thread>> /\ base' = "quit"
      BY <2>1
    <3> HIDE DEF Quit, TypeOK
    <3> QED BY <3>1, <3>2 DEF QuitTold, Told
  <2>2. CASE QuitLoop
    <3>1. /\ UNCHANGED <<loops_, cur, again, quitCalled, wakeup, thread>>
          /\ base = "quit" /\ base' = "wakeup"
      BY <2>2
    <3>2. \A i \in Threads : quit_[i] => quit_'[i]
      BY <1>2, <2>2
    <3>3. loops_[cur] = cur => quit_'[cur]
      <4>1. CASE LoopExists(cur)
        BY <1>2, <2>2, <4>1
      <4>2. CASE loops_[cur] = cur /\ ~LoopExists(cur)
        <5>1. thread[cur] = "ended"
          BY <1>2, <2>2, <4>2 DEF LoopsReady, LoopExists
        <5> QED BY <1>2, <2>2, <3>2, <5>1 DEF QuitOnce
      <4> QED BY <4>1, <4>2
    <3> HIDE DEF QuitLoop, TypeOK
    <3> QED BY <2>0, <3>1, <3>2, <3>3 DEF QuitTold, Told
  <2>3. CASE QuitWakeup
    <3>1. /\ UNCHANGED <<loops_, again, quitCalled, quit_, thread>>
          /\ base = "wakeup" /\ base' # "wakeup" /\ cur \in Nat
          /\ \/ base' = "user" /\ cur = Len(loops_)
             \/ base' = "quit" /\ cur' = cur + 1
      BY <2>3 DEF BaseOK
    <3>2. \A i \in Threads : wakeup[i] => wakeup'[i]
      BY <1>2, <2>3
    <3>3. ASSUME loops_[cur] = cur
          PROVE  quit_[cur] /\ (wakeup'[cur] \/ thread[cur] = "ended")
      <4>1. quit_[cur]
        BY <2>3, <3>3 DEF QuitTold
      <4>2. CASE LoopExists(cur)
        BY <1>2, <2>3, <3>3, <4>1, <4>2
      <4>3. CASE ~LoopExists(cur)
        BY <1>2, <2>3, <3>3, <4>1, <4>3 DEF LoopsReady, LoopExists
      <4> QED BY <4>2, <4>3
    <3>4. \A i \in DOMAIN loops_ : i < cur \/ again => Told(i)'
      BY <2>0, <2>3, <3>1, <3>2 DEF QuitTold, Told, BaseOK
    <3>5. \A i \in DOMAIN loops_ : i <= Len(loops_)
      OBVIOUS
    <3> HIDE DEF QuitWakeup, TypeOK
    <3>6. \A i \in DOMAIN loops_ : i = cur => Told(i)'
      BY <3>1, <3>3 DEF Told
    <3> QED BY <2>0, <3>1, <3>4, <3>5, <3>6 DEF QuitTold
  <2> QED BY <2>1, <2>2, <2>3
<1>10. TouchedOK'
  <2>0. /\ \A l \in Threads : l # Wild /\ l # Null
        /\ UNCHANGED <<thread, selfQuit, garbage>> /\ (again => again')
    BY DEF Threads, BaseOK
  <2>1. ASSUME NEW t \in touched PROVE Explained(t[1], t[2])'
    <3>1. t \in {"quit", "wakeup"} \X Pointers /\ Explained(t[1], t[2])
      BY DEF TouchedOK
    <3>2. CASE ~(/\ t[1] = "wakeup" /\ t[2] \in Threads
                 /\ thread[t[2]] = "ended" /\ quit_[t[2]] /\ ~wakeup[t[2]])
      BY <2>0, <3>1, <3>2 DEF Explained, PoolTypes
    <3>3. CASE /\ t[1] = "wakeup" /\ t[2] \in Threads
               /\ thread[t[2]] = "ended" /\ quit_[t[2]] /\ ~wakeup[t[2]]
      <4>1. quit_'[t[2]] /\ ~wakeup'[t[2]]
        BY <1>2, <3>3 DEF LoopExists
      <4> QED BY <2>0, <3>3, <4>1 DEF Explained
    <3> QED BY <3>2, <3>3
  <2>2. CASE Quit
    BY <2>1, <2>2 DEF TouchedOK
  <2>3. CASE QuitLoop
    <3>1. ASSUME NEW t \in touched', t \notin touched
          PROVE  t[1] = "quit" /\ t[2] = loops_[cur]
                 /\ t \in {"quit", "wakeup"} \X Pointers
                 /\ ~(loops_[cur] \in Threads /\ LoopExists(loops_[cur]))
      BY <1>2, <2>3, <3>1
    <3>2. ASSUME ~(loops_[cur] \in Threads /\ LoopExists(loops_[cur]))
          PROVE  \/ loops_[cur] = Wild /\ garbage # {}
                 \/ loops_[cur] \in selfQuit \/ again
      <4>1. CASE loops_[cur] \in Threads
        <5>1. loops_[cur] = cur /\ thread[cur] = "ended"
          BY <1>2, <2>3, <3>2, <4>1 DEF LoopsReady, LoopExists
        <5> QED BY <1>2, <2>3, <5>1 DEF QuitOnce
      <4>2. CASE loops_[cur] \notin Threads
        BY <1>2, <2>3, <4>2 DEF LoopsReady
      <4> QED BY <4>1, <4>2
    <3>3. UNCHANGED <<again, garbage, selfQuit>>
      BY <2>3
    <3> QED BY <2>1, <3>1, <3>2, <3>3 DEF TouchedOK, Explained
  <2>4. CASE QuitWakeup
    <3>1. ASSUME NEW t \in touched', t \notin touched
          PROVE  t[1] = "wakeup" /\ t[2] = loops_[cur]
                 /\ t \in {"quit", "wakeup"} \X Pointers
                 /\ ~(loops_[cur] \in Threads /\ LoopExists(loops_[cur]))
      BY <1>2, <2>4, <3>1
    <3>2. ASSUME NEW l, l = loops_[cur], ~(l \in Threads /\ LoopExists(l))
          PROVE  Explained("wakeup", l)'
      <4>1. UNCHANGED <<again, garbage, selfQuit, thread, quit_, wakeup>>
        BY <2>4, <3>2
      <4>2. CASE l \in Threads
        <5>1. l = cur /\ thread[l] = "ended"
          BY <1>2, <2>4, <3>2, <4>2 DEF LoopsReady, LoopExists
        <5>2. quit_[l]
          BY <4>2, <5>1 DEF QuitOnce
        <5>3. l \in selfQuit \/ again \/ ~wakeup[l]
          BY <2>4, <4>2, <5>1 DEF QuitOnce
        <5> QED BY <4>1, <4>2, <5>1, <5>2, <5>3 DEF Explained
      <4>3. CASE l \notin Threads
        <5>1. l = Wild /\ garbage # {}
          BY <1>2, <2>4, <3>2, <4>3 DEF LoopsReady
        <5> QED BY <4>1, <5>1 DEF Explained
      <4> QED BY <4>2, <4>3
    <3>4. ASSUME NEW t \in touched', t \notin touched
          PROVE  Explained(t[1], t[2])'
      BY <3>1, <3>2, <3>4
    <3> QED BY <2>1, <3>1, <3>4 DEF TouchedOK
  <2> QED BY <2>2, <2>3, <2>4
<1>9. JoinOK'
  BY DEF BaseOK, JoinOK
<1> QED BY <1>3, <1>4, <1>5, <1>6, <1>7, <1>8, <1>9, <1>10

LEMMA JoinStep == Inv /\ (Destroy \/ Join) => Inv'
<1> SUFFICES ASSUME Inv, Destroy \/ Join PROVE Inv'
  OBVIOUS
<1> USE DEF Inv, Destroy, Join, poolVars, Starting, Pointers, TypeOK, PoolTypes, ThreadTypes
<1>1. TypeOK' /\ BaseOK' /\ NotSpawned'
  BY DEF BaseOK, NotSpawned
<1>2. MutexOK' /\ PointerOK' /\ TakesLoop'
  BY DEF MutexOK, PointerOK, TakesLoop
<1>3. LoopsReady' /\ QuitOnce' /\ QuitTold' /\ TouchedOK'
  BY DEF LoopsReady, QuitOnce, QuitTold, Told, TouchedOK, Explained
<1>4. JoinOK'
  <2>1. loops_ # <<>> => Len(loops_) >= 1
    OBVIOUS
  <2>2. CASE Destroy
    BY <2>1, <2>2 DEF BaseOK, JoinOK, Threads
  <2>3. CASE Join
    BY <2>1, <2>3 DEF BaseOK, JoinOK, Threads
  <2> QED BY <2>2, <2>3
<1> QED BY <1>1, <1>2, <1>3, <1>4

LEMMA ThreadLoopStep ==
    ASSUME Inv, NEW t \in Threads,
           ThreadStep(t) \/ QuitsItself(t) \/ LoopReturns(t)
    PROVE  Inv'
<1> USE PointerAssumption
    DEF Inv, ThreadStep, ThreadInit, Publish, Notify, Unpublish, QuitsItself,
        LoopReturns, poolVars, Starting, Pointers, TypeOK, PoolTypes, ThreadTypes
<1>1. PoolTypes' /\ ThreadTypes'
  <2>1. PoolTypes'
    OBVIOUS
  <2>2. ThreadTypes'
    OBVIOUS
  <2> QED BY <2>1, <2>2
<1>2. BaseOK' /\ NotSpawned'
  BY DEF BaseOK, NotSpawned
<1>3. t \notin {Null, Wild} /\ DOMAIN loops_ \subseteq Threads
      /\ (base = "take" => cur \in Threads)
  <2>1. t \notin {Null, Wild}
    BY DEF Threads
  <2>2. DOMAIN loops_ = 1 .. Len(loops_) /\ Len(loops_) \in Nat
    BY LenProperties
  <2>3. DOMAIN loops_ \subseteq Threads /\ (base = "take" => cur \in Threads)
    BY <2>2, ThreadsAssumption DEF BaseOK, Threads
  <2> QED BY <2>1, <2>3
<1>4. MutexOK'
  BY DEF MutexOK
<1>5. PointerOK'
  BY <1>3 DEF PointerOK
<1>6. TakesLoop'
  BY <1>3 DEF TakesLoop, MutexOK
<1>7. LoopsReady'
  BY <1>3 DEF LoopsReady
<1>8. QuitOnce' /\ QuitTold' /\ TouchedOK'
  <2>1. QuitOnce'
    BY DEF QuitOnce
  <2>2. QuitTold'
    <3>1. \A i \in Threads : /\ quit_[i] => quit_'[i]
                             /\ wakeup[i] => wakeup'[i]
                             /\ thread[i] = "ended" => thread'[i] = "ended"
      OBVIOUS
    <3>2. UNCHANGED <<loops_, cur, base, quitCalled, again>>
      OBVIOUS
    <3>3. base = "wakeup" => cur \in DOMAIN loops_
      BY DEF BaseOK
    <3> HIDE DEF ThreadStep, QuitsItself, LoopReturns
    <3> QED BY <1>3, <3>1, <3>2, <3>3 DEF QuitTold, Told
  <2>3. ASSUME NEW i \in Threads, thread[i] = "ended"
        PROVE  thread'[i] = "ended" /\ quit_'[i] = quit_[i]
               /\ wakeup'[i] = wakeup[i]
    BY <2>3
  <2>4. UNCHANGED <<touched, again, garbage>> /\ selfQuit \subseteq selfQuit'
    OBVIOUS
  <2> QED BY <2>1, <2>2, <2>3, <2>4, SameTouched
<1>9. JoinOK'
  BY DEF JoinOK
<1> QED BY <1>1, <1>2, <1>4, <1>5, <1>6, <1>7, <1>8, <1>9

(* Inv is inductive.                                                       *)
THEOREM Invariance == Spec => []Inv
<1>1. Inv /\ UNCHANGED vars => Inv'
  BY DEF vars, poolVars, Inv, TypeOK, PoolTypes, ThreadTypes, BaseOK, JoinOK, NotSpawned, MutexOK, PointerOK,
         TakesLoop, LoopsReady, QuitOnce, QuitTold, Told, TouchedOK, Explained
<1>2. Inv /\ [Next]_vars => Inv'
  BY <1>1, StartStep, HandshakeStep, TakeStep, QuitStep, JoinStep,
     ThreadLoopStep DEF Next, BaseStep
<1> QED BY <1>2, InitInv, PTL DEF Spec

(* start() hands out each thread's own, initialised loop, or a wild        *)
(* pointer that was in loop_ before; never null, whatever the order of the *)
(* two threads and however often cond_.wait() returns for no reason.       *)
THEOREM LoopsReadyCorrect == Spec => []LoopsReady
BY Invariance, PTL DEF Inv

(* However often quit() is called, it reaches every loop handed out, and   *)
(* it uses one that is gone only for the reasons that Explained names.     *)
THEOREM QuitCorrect == Spec => []QuitReaches
<1>1. Inv => QuitReaches
  BY DEF Inv, QuitTold, Told, TouchedOK, QuitReaches
<1> QED BY <1>1, Invariance, PTL

(* The join in ~EventLoopThread() waits for every thread of the pool.      *)
THEOREM JoinCorrect == Spec => []NoneLeftBehind
<1>1. Inv => NoneLeftBehind
  <2> SUFFICES ASSUME Inv, base = "joined", NEW i \in Threads
               PROVE  thread[i] \in {"none", "ended"}
    BY DEF NoneLeftBehind
  <2>1. CASE i <= Len(loops_)
    BY <2>1 DEF Inv, JoinOK
  <2>2. CASE i > Len(loops_)
    BY <2>2 DEF Inv, NotSpawned, Starting
  <2>3. i \in Nat /\ Len(loops_) \in Nat
    BY DEF Inv, TypeOK, PoolTypes, Threads
  <2> QED BY <2>1, <2>2, <2>3
<1> QED BY <1>1, Invariance, PTL

=============================================================================
