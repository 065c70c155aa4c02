--------------------------- MODULE EventLoopProofs ---------------------------
(***************************************************************************)
(* Proofs about EventLoop, for every set of threads and channels and every *)
(* bound on the number of functors.                                        *)
(***************************************************************************)
EXTENDS EventLoop, SequenceTheorems, TLAPS

(* What the wakeup protocol maintains at every step, not only in poll():   *)
(* outside the part of the iteration that ends in the swap of the queue, a *)
(* functor is early, or its pusher still holds mutex_, or the eventfd is   *)
(* readable.                                                               *)
Announced ==
    pc \notin {"dispatch", "handler", "drain"} /\ ~wakeupFd_ =>
        Unannounced = {}

(* While the loop thread, outside loop(), is inside queueInLoop(), the     *)
(* functor it pushed is still the last one and is recorded as early.       *)
EarlyPushed ==
    call[LoopThread] = "pushed" /\ ~looping_ =>
        /\ pendingFunctors_ # <<>>
        /\ pendingFunctors_[Len(pendingFunctors_)] \in early

\* There is a batch only inside doPendingFunctors().
BatchOK == functors # <<>> => pc \in {"run", "functor"}

Inv == TypeOK /\ FlagsOK /\ BatchOK /\ EarlyPushed /\ Announced /\ NoMissedQuit

-----------------------------------------------------------------------------

LEMMA ThreadFacts ==
    /\ LoopThread \in Threads /\ Callers \subseteq Threads
    /\ NoThread \notin Threads
    /\ \A t \in Threads : t # LoopThread => t \in Callers
BY ThreadAssumption DEF Threads

\* Init establishes the type invariant, each action preserves it.
LEMMA TypeInit == Init => TypeOK
<1> SUFFICES ASSUME Init PROVE TypeOK
  OBVIOUS
<1>1. <<>> \in Seq(Functors) /\ 0 \in 0 .. MaxFunctors
  BY BoundAssumption
<1>2. call \in [Threads -> {"none", "pushed", "quitting"}]
  BY DEF Init
<1> QED
  BY <1>1, <1>2, ThreadFacts DEF Init, TypeOK, PCs

LEMMA TypeStep == TypeOK /\ [Next]_vars => TypeOK'
<1> SUFFICES ASSUME TypeOK, [Next]_vars PROVE TypeOK'
  OBVIOUS
<1> USE ThreadFacts DEF TypeOK, PCs
<1>1. ASSUME NEW t \in Threads, QueueInLoop(t) PROVE TypeOK'
  <2>1. queued + 1 \in Functors /\ queued' \in 0 .. MaxFunctors
    BY <1>1, BoundAssumption DEF QueueInLoop, Functors
  <2>2. pendingFunctors_' \in Seq(Functors) /\ early' \in SUBSET Functors
    BY <1>1, <2>1 DEF QueueInLoop
  <2> QED BY <1>1, <2>1, <2>2 DEF QueueInLoop, loopVars
<1>2. ASSUME NEW t \in Threads, QueueWakeup(t) PROVE TypeOK'
  BY <1>2 DEF QueueWakeup, NeedsWakeup, loopVars
<1>3. ASSUME NEW t \in Threads, Quit(t) PROVE TypeOK'
  BY <1>3 DEF Quit, loopVars
<1>4. ASSUME NEW t \in Threads, QuitWakeup(t) PROVE TypeOK'
  BY <1>4 DEF QuitWakeup, loopVars
<1> USE DEF sharedVars, At
<1>5. CASE Loop
  BY <1>5 DEF Loop
<1>6. CASE Poll
  BY <1>6 DEF Poll, Channels
<1>7. CASE PollTimeout
  BY <1>7 DEF PollTimeout
<1>8. CASE CheckQuit
  BY <1>8 DEF CheckQuit
<1>9. CASE HandleWakeup
  BY <1>9 DEF HandleWakeup
<1>10. CASE HandleEvent
  BY <1>10 DEF HandleEvent
<1>11. CASE HandlerReturns \/ EndDispatch \/ FunctorReturns
  BY <1>11 DEF HandlerReturns, EndDispatch, FunctorReturns
<1>12. CASE SwapFunctors
  BY <1>12 DEF SwapFunctors
<1>13. CASE RunFunctor
  <2>1. ran' \in Seq(Functors) /\ functors' \in Seq(Functors)
    BY <1>13 DEF RunFunctor
  <2> QED BY <1>13, <2>1 DEF RunFunctor
<1>14. CASE EndFunctors
  BY <1>14 DEF EndFunctors
<1>15. CASE UNCHANGED vars
  BY <1>15 DEF vars, loopVars
<1> QED
  BY <1>1, <1>2, <1>3, <1>4, <1>5, <1>6, <1>7, <1>8, <1>9, <1>10, <1>11,
     <1>12, <1>13, <1>14, <1>15 DEF Next, LoopStep

-----------------------------------------------------------------------------
\* The conjuncts of Inv besides the types, one lemma each.

LEMMA FlagsInit == Init => FlagsOK
BY ThreadFacts DEF Init, FlagsOK

LEMMA FlagsStep == TypeOK /\ FlagsOK /\ [Next]_vars => FlagsOK'
<1> SUFFICES ASSUME TypeOK, FlagsOK, [Next]_vars PROVE FlagsOK'
  OBVIOUS
<1> USE ThreadFacts DEF TypeOK, FlagsOK
<1>1. ASSUME NEW t \in Threads, QueueInLoop(t) PROVE FlagsOK'
  BY <1>1 DEF QueueInLoop, InUserCode, loopVars
<1>2. ASSUME NEW t \in Threads, QueueWakeup(t) PROVE FlagsOK'
  BY <1>2 DEF QueueWakeup, loopVars
<1>3. ASSUME NEW t \in Threads, Quit(t) PROVE FlagsOK'
  BY <1>3 DEF Quit, InUserCode, loopVars
<1>4. ASSUME NEW t \in Threads, QuitWakeup(t) PROVE FlagsOK'
  BY <1>4 DEF QuitWakeup, loopVars
<1> USE DEF sharedVars, At
<1>5. CASE Loop \/ Poll \/ PollTimeout \/ CheckQuit
  BY <1>5 DEF Loop, Poll, PollTimeout, CheckQuit
<1>6. CASE HandleWakeup \/ HandleEvent \/ HandlerReturns \/ EndDispatch
  BY <1>6 DEF HandleWakeup, HandleEvent, HandlerReturns, EndDispatch
<1>7. CASE SwapFunctors \/ RunFunctor \/ FunctorReturns \/ EndFunctors
  BY <1>7 DEF SwapFunctors, RunFunctor, FunctorReturns, EndFunctors
<1>8. CASE UNCHANGED vars
  BY <1>8 DEF vars, loopVars
<1> QED
  BY <1>1, <1>2, <1>3, <1>4, <1>5, <1>6, <1>7, <1>8 DEF Next, LoopStep

LEMMA BatchStep == TypeOK /\ BatchOK /\ [Next]_vars => BatchOK'
<1> SUFFICES ASSUME TypeOK, BatchOK, [Next]_vars PROVE BatchOK'
  OBVIOUS
<1> USE DEF TypeOK, BatchOK, At
<1>1. CASE \E t \in Threads :
             QueueInLoop(t) \/ QueueWakeup(t) \/ Quit(t) \/ QuitWakeup(t)
  BY <1>1 DEF QueueInLoop, QueueWakeup, Quit, QuitWakeup, loopVars
<1>2. CASE Loop \/ Poll \/ PollTimeout \/ CheckQuit
  BY <1>2 DEF Loop, Poll, PollTimeout, CheckQuit
<1>3. CASE HandleWakeup \/ HandleEvent \/ HandlerReturns \/ EndDispatch
  BY <1>3 DEF HandleWakeup, HandleEvent, HandlerReturns, EndDispatch
<1>4. CASE SwapFunctors \/ RunFunctor \/ FunctorReturns \/ EndFunctors
  BY <1>4 DEF SwapFunctors, RunFunctor, FunctorReturns, EndFunctors
<1>5. CASE UNCHANGED vars
  BY <1>5 DEF vars, loopVars
<1> QED
  BY <1>1, <1>2, <1>3, <1>4, <1>5 DEF Next, LoopStep

\* While a thread holds mutex_, pendingFunctors_ and early do not change.
LEMMA EarlyStep ==
    TypeOK /\ FlagsOK /\ EarlyPushed /\ [Next]_vars => EarlyPushed'
<1> SUFFICES ASSUME TypeOK, FlagsOK, EarlyPushed, [Next]_vars
             PROVE  EarlyPushed'
  OBVIOUS
<1> USE ThreadFacts DEF TypeOK, EarlyPushed
<1>1. ASSUME NEW t \in Threads, QueueInLoop(t) PROVE EarlyPushed'
  <2>1. CASE t = LoopThread
    <3>1. /\ Len(pendingFunctors_') = Len(pendingFunctors_) + 1
          /\ pendingFunctors_'[Len(pendingFunctors_) + 1] = queued + 1
      BY <1>1 DEF QueueInLoop
    <3>2. pendingFunctors_' # <<>>
      BY <1>1 DEF QueueInLoop
    <3> QED BY <1>1, <2>1, <3>1, <3>2 DEF QueueInLoop, loopVars
  <2>2. CASE t # LoopThread
    BY <1>1, <2>2 DEF QueueInLoop, FlagsOK
  <2> QED BY <2>1, <2>2
<1>2. ASSUME NEW t \in Threads, QueueWakeup(t) \/ Quit(t) \/ QuitWakeup(t)
      PROVE  EarlyPushed'
  BY <1>2 DEF QueueWakeup, Quit, QuitWakeup, InUserCode, loopVars
<1> USE DEF sharedVars, At
<1>3. CASE Loop \/ Poll \/ PollTimeout \/ CheckQuit
  BY <1>3 DEF Loop, Poll, PollTimeout, CheckQuit
<1>4. CASE HandleWakeup \/ HandleEvent \/ HandlerReturns \/ EndDispatch
  BY <1>4 DEF HandleWakeup, HandleEvent, HandlerReturns, EndDispatch
<1>5. CASE SwapFunctors \/ RunFunctor \/ FunctorReturns \/ EndFunctors
  BY <1>5 DEF SwapFunctors, RunFunctor, FunctorReturns, EndFunctors
<1>6. CASE UNCHANGED vars
  BY <1>6 DEF vars, loopVars
<1> QED
  BY <1>1, <1>2, <1>3, <1>4, <1>5, <1>6 DEF Next, LoopStep

LEMMA AnnouncedStep ==
    /\ TypeOK /\ FlagsOK /\ EarlyPushed /\ Announced
    /\ [Next]_vars
    => Announced'
<1> SUFFICES ASSUME TypeOK, FlagsOK, EarlyPushed, Announced, [Next]_vars,
                    pc' \notin {"dispatch", "handler", "drain"}, ~wakeupFd_'
             PROVE  Unannounced' = {}
  BY DEF Announced
<1> USE ThreadFacts DEF TypeOK, Announced, Unannounced
<1>1. ASSUME NEW t \in Threads, QueueInLoop(t) PROVE Unannounced' = {}
  <2>1. Unannounced = {} /\ mutex_ = NoThread /\ mutex_' = t
    BY <1>1 DEF QueueInLoop, loopVars
  <2>2. /\ Len(pendingFunctors_') = Len(pendingFunctors_) + 1
        /\ \A i \in 1 .. Len(pendingFunctors_) :
              pendingFunctors_'[i] = pendingFunctors_[i]
    BY <1>1 DEF QueueInLoop
  <2>3. early \subseteq early'
    BY <1>1 DEF QueueInLoop
  <2> QED BY <2>1, <2>2, <2>3
<1>2. ASSUME NEW t \in Threads, QueueWakeup(t) PROVE Unannounced' = {}
  <2>1. ~wakeupFd_ /\ t = LoopThread /\ ~callingPendingFunctors_
    BY <1>2 DEF QueueWakeup, NeedsWakeup
  <2>2. pc = "idle" /\ ~looping_
    BY <1>2, <2>1 DEF QueueWakeup, FlagsOK, loopVars
  <2>3. pendingFunctors_[Len(pendingFunctors_)] \in early
    BY <1>2, <2>1, <2>2 DEF QueueWakeup, EarlyPushed
  <2> QED BY <1>2, <2>1, <2>2, <2>3 DEF QueueWakeup
<1>3. ASSUME NEW t \in Threads, Quit(t) \/ QuitWakeup(t)
      PROVE  Unannounced' = {}
  BY <1>3 DEF Quit, QuitWakeup, loopVars
<1> USE DEF sharedVars, At
<1>4. CASE Loop \/ Poll \/ PollTimeout \/ CheckQuit
  BY <1>4 DEF Loop, Poll, PollTimeout, CheckQuit
<1>5. CASE HandleWakeup \/ HandleEvent \/ HandlerReturns \/ EndDispatch
  BY <1>5 DEF HandleWakeup, HandleEvent, HandlerReturns, EndDispatch
<1>6. CASE SwapFunctors
  BY <1>6 DEF SwapFunctors
<1>7. CASE RunFunctor \/ FunctorReturns \/ EndFunctors
  BY <1>7 DEF RunFunctor, FunctorReturns, EndFunctors
<1>8. CASE UNCHANGED vars
  BY <1>8 DEF vars, loopVars
<1> QED
  BY <1>1, <1>2, <1>3, <1>4, <1>5, <1>6, <1>7, <1>8 DEF Next, LoopStep

LEMMA QuitStep ==
    TypeOK /\ FlagsOK /\ NoMissedQuit /\ [Next]_vars => NoMissedQuit'
<1> SUFFICES ASSUME TypeOK, FlagsOK, NoMissedQuit, [Next]_vars,
                    pc' = "poll", quit_', ~wakeupFd_'
             PROVE  \E t \in Callers : call'[t] = "quitting"
  BY DEF NoMissedQuit
<1> USE ThreadFacts DEF TypeOK, NoMissedQuit
<1>1. ASSUME NEW t \in Threads, QueueInLoop(t) \/ QueueWakeup(t)
      PROVE  \E u \in Callers : call'[u] = "quitting"
  BY <1>1 DEF QueueInLoop, QueueWakeup, InUserCode, loopVars
<1>2. ASSUME NEW t \in Threads, Quit(t) \/ QuitWakeup(t)
      PROVE  \E u \in Callers : call'[u] = "quitting"
  BY <1>2 DEF Quit, QuitWakeup, InUserCode, loopVars
<1> USE DEF sharedVars, At
<1>3. CASE Loop \/ Poll \/ PollTimeout \/ CheckQuit
  BY <1>3 DEF Loop, Poll, PollTimeout, CheckQuit
<1>4. CASE HandleWakeup \/ HandleEvent \/ HandlerReturns \/ EndDispatch
  BY <1>4 DEF HandleWakeup, HandleEvent, HandlerReturns, EndDispatch
<1>5. CASE SwapFunctors \/ RunFunctor \/ FunctorReturns \/ EndFunctors
  BY <1>5 DEF SwapFunctors, RunFunctor, FunctorReturns, EndFunctors
<1>6. CASE UNCHANGED vars
  BY <1>6 DEF vars, loopVars
<1> QED
  BY <1>1, <1>2, <1>3, <1>4, <1>5, <1>6 DEF Next, LoopStep

(* Inv is inductive: it holds initially and every step of every thread     *)
(* preserves it.                                                           *)
THEOREM Invariance == Spec => []Inv
<1>1. Init => Inv
  <2>1. Init => BatchOK /\ EarlyPushed /\ Announced /\ NoMissedQuit
    BY ThreadFacts
    DEF Init, BatchOK, EarlyPushed, Announced, Unannounced, NoMissedQuit
  <2> QED BY <2>1, TypeInit, FlagsInit DEF Inv
<1>2. Inv /\ [Next]_vars => Inv'
  BY TypeStep, FlagsStep, BatchStep, EarlyStep, AnnouncedStep, QuitStep
  DEF Inv
<1> QED BY <1>1, <1>2, PTL DEF Spec

(* The type invariant of the loop, with the agreement of looping_,         *)
(* callingPendingFunctors_ and mutex_ with what the threads are doing.     *)
THEOREM StateCorrect == Spec => []StateOK
BY Invariance, PTL DEF Inv, StateOK

(* queueInLoop() never loses a wakeup: with any number of threads, the     *)
(* loop thread never sleeps in poll() on a functor nobody will announce.   *)
THEOREM WakeupCorrect == Spec => []NoLostWakeup
<1>1. Inv => NoLostWakeup
  BY DEF Inv, Announced, NoLostWakeup
<1> QED BY <1>1, Invariance, PTL

(* quit() is never missed by a sleeping loop thread.                       *)
THEOREM QuitCorrect == Spec => []NoMissedQuit
BY Invariance, PTL DEF Inv

-----------------------------------------------------------------------------
\* Sequences: what pushing at the end of the queue and running from the
\* front of the batch do to the concatenation of the two.

LEMMA ConcatAppend ==
    ASSUME NEW S, NEW s \in Seq(S), NEW t \in Seq(S), NEW e \in S
    PROVE  s \o Append(t, e) = Append(s \o t, e)
OBVIOUS

LEMMA ConcatAssoc ==
    \A s, t, u \in Seq(Functors) : (s \o t) \o u = s \o (t \o u)
BY ConcatAssociative

LEMMA AppendHeadTail ==
    ASSUME NEW S, NEW s \in Seq(S), NEW t \in Seq(S), t # <<>>
    PROVE  Append(s, Head(t)) \o Tail(t) = s \o t
OBVIOUS

LEMMA HeadTailConcat ==
    ASSUME NEW S, NEW s \in Seq(S), NEW t \in Seq(S), s # <<>>
    PROVE  Head(s \o t) = Head(s) /\ Tail(s \o t) = Tail(s) \o t
OBVIOUS

LEMMA UpToAppend ==
    ASSUME NEW n \in Nat
    PROVE  [i \in 1 .. n + 1 |-> i] = Append([i \in 1 .. n |-> i], n + 1)
OBVIOUS

\* What the steps do to the batch followed by the queue, as one list.
LEMMA PushTasks ==
    ASSUME TypeOK, NEW t \in Threads, QueueInLoop(t)
    PROVE  /\ queued + 1 \in Functors
           /\ functors' \o pendingFunctors_'
                = Append(functors \o pendingFunctors_, queued + 1)
           /\ ran' = ran /\ queued' = queued + 1
<1>1. queued + 1 \in Functors
  BY BoundAssumption DEF TypeOK, QueueInLoop, Functors
<1> QED
  BY <1>1, ConcatAppend DEF TypeOK, QueueInLoop, loopVars

LEMMA SwapTasks ==
    ASSUME TypeOK, BatchOK, SwapFunctors
    PROVE  functors' \o pendingFunctors_' = functors \o pendingFunctors_
<1>1. functors = <<>>
  BY DEF BatchOK, SwapFunctors, At
<1>2. functors' = pendingFunctors_ /\ pendingFunctors_' = <<>>
  BY DEF SwapFunctors
<1> QED BY <1>1, <1>2, ConcatEmptySeq DEF TypeOK

LEMMA RunTasks ==
    ASSUME TypeOK, RunFunctor
    PROVE  /\ functors \o pendingFunctors_ # <<>>
           /\ ran' = Append(ran, Head(functors \o pendingFunctors_))
           /\ functors' \o pendingFunctors_'
                = Tail(functors \o pendingFunctors_)
<1>1. functors # <<>> /\ functors \in Seq(Functors)
      /\ pendingFunctors_ \in Seq(Functors)
  BY DEF TypeOK, RunFunctor
<1>2. functors \o pendingFunctors_ # <<>>
  BY <1>1, ConcatEqualIffEmpty
<1> QED BY <1>1, <1>2, HeadTailConcat DEF RunFunctor

\* The steps that touch neither the queue, nor the batch, nor the history.
OtherStep ==
    \/ \E t \in Threads : QueueWakeup(t) \/ Quit(t) \/ QuitWakeup(t)
    \/ Loop \/ Poll \/ PollTimeout \/ CheckQuit
    \/ HandleWakeup \/ HandleEvent \/ HandlerReturns \/ EndDispatch
    \/ FunctorReturns \/ EndFunctors

LEMMA OtherTasks ==
    OtherStep => UNCHANGED <<functors, pendingFunctors_, ran, queued>>
BY DEF OtherStep, QueueWakeup, Quit, QuitWakeup, Loop, Poll, PollTimeout,
       CheckQuit, HandleWakeup, HandleEvent, HandlerReturns, EndDispatch,
       FunctorReturns, EndFunctors, loopVars, sharedVars

LEMMA NextCases ==
    Next => \/ \E t \in Threads : QueueInLoop(t)
            \/ SwapFunctors \/ RunFunctor \/ OtherStep
BY DEF Next, LoopStep, OtherStep

(* Every functor runs at most once and in the order in which the calls of  *)
(* queueInLoop() took mutex_; none disappears in the swap.                 *)
THEOREM FifoCorrect == Spec => []FifoExactlyOnce
<1> DEFINE tasks == functors \o pendingFunctors_
           UpTo(n) == [i \in 1 .. n |-> i]
           Fifo == ran \o tasks = UpTo(queued)
<1>1. TypeOK => (FifoExactlyOnce <=> Fifo)
  <2> SUFFICES ASSUME TypeOK PROVE FifoExactlyOnce <=> Fifo
    OBVIOUS
  <2>1. (ran \o functors) \o pendingFunctors_ = ran \o tasks
    <3>1. /\ ran \in Seq(Functors) /\ functors \in Seq(Functors)
          /\ pendingFunctors_ \in Seq(Functors)
      BY DEF TypeOK
    <3> QED BY <3>1, ConcatAssoc
  <2> QED BY <2>1 DEF FifoExactlyOnce
<1>2. Init => Fifo
  BY DEF Init
<1>3. Inv /\ Fifo /\ [Next]_vars => Fifo'
  <2> SUFFICES ASSUME TypeOK, BatchOK, Fifo, [Next]_vars PROVE Fifo'
    BY DEF Inv
  <2>1. tasks \in Seq(Functors) /\ ran \in Seq(Functors) /\ queued \in Nat
    BY BoundAssumption, ConcatProperties DEF TypeOK
  <2>2. ASSUME NEW t \in Threads, QueueInLoop(t) PROVE Fifo'
    <3>1. tasks' = Append(tasks, queued + 1) /\ ran' = ran
          /\ queued' = queued + 1 /\ queued + 1 \in Functors
      BY <2>2, PushTasks
    <3>2. UpTo(queued + 1) = Append(UpTo(queued), queued + 1)
      BY <2>1, UpToAppend
    <3> HIDE DEF tasks, UpTo
    <3>3. ran \o Append(tasks, queued + 1) = Append(ran \o tasks, queued + 1)
      BY <2>1, <3>1, ConcatAppend
    <3> QED BY <3>1, <3>2, <3>3
  <2>3. CASE SwapFunctors
    BY <2>3, SwapTasks DEF SwapFunctors, sharedVars
  <2>4. CASE RunFunctor
    <3>1. tasks # <<>> /\ ran' = Append(ran, Head(tasks))
          /\ tasks' = Tail(tasks) /\ queued' = queued
      BY <2>4, RunTasks DEF RunFunctor, sharedVars
    <3> HIDE DEF tasks, UpTo
    <3>2. tasks \in Seq(Functors) /\ ran \in Seq(Functors) /\ tasks # <<>>
      BY <2>1, <3>1
    <3>3. Append(ran, Head(tasks)) \o Tail(tasks) = ran \o tasks
      BY <3>2, AppendHeadTail
    <3> QED BY <3>1, <3>3
  <2>5. CASE OtherStep
    BY <2>5, OtherTasks
  <2>6. CASE UNCHANGED vars
    BY <2>6 DEF vars, loopVars
  <2> QED BY <2>2, <2>3, <2>4, <2>5, <2>6, NextCases
<1>4. Inv => TypeOK
  BY DEF Inv
<1> HIDE DEF Fifo
<1> QED BY <1>1, <1>2, <1>3, <1>4, Invariance, PTL DEF Spec

(* Spec implements the executor FunctorQueue: what the threads and the     *)
(* loop do to the queue is giving it a task, running its first task,       *)
(* opening or closing it, or nothing.                                      *)
THEOREM QueueRefinement == Spec => RefinesQueue
<1>1. Init => FQ!Init
  BY DEF Init, FQ!Init
<1>2. Inv /\ [Next]_vars => [FQ!Next]_(FQ!vars)
  <2> SUFFICES ASSUME TypeOK, FlagsOK, BatchOK, [Next]_vars
               PROVE  FQ!Next \/ UNCHANGED FQ!vars
    BY DEF Inv
  <2> USE DEF FQ!vars
  <2>1. ASSUME NEW t \in Threads, QueueInLoop(t) PROVE FQ!Submit
    BY <2>1, PushTasks DEF FQ!Submit, QueueInLoop, loopVars
  <2>2. CASE SwapFunctors
    BY <2>2, SwapTasks DEF SwapFunctors, sharedVars
  <2>3. CASE RunFunctor
    <3>1. FQ!Execute
      BY <2>3, RunTasks DEF FQ!Execute, RunFunctor, sharedVars
    <3> QED BY <3>1 DEF FQ!Next
  <2>4. CASE OtherStep
    <3>1. UNCHANGED <<functors \o pendingFunctors_, ran>>
      BY <2>4, OtherTasks
    <3>2. (looping_ /\ ~quit_) \in BOOLEAN /\ (looping_ /\ ~quit_)' \in BOOLEAN
      OBVIOUS
    <3> QED BY <3>1, <3>2 DEF FQ!Next, FQ!OpenOrClose
  <2>5. CASE UNCHANGED vars
    BY <2>5 DEF vars, loopVars
  <2> QED BY <2>1, <2>2, <2>3, <2>4, <2>5, NextCases DEF FQ!Next
<1> QED BY <1>1, <1>2, Invariance, PTL DEF Spec, RefinesQueue, FQ!Spec

=============================================================================
