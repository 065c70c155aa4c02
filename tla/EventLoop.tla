------------------------------ MODULE EventLoop ------------------------------
(***************************************************************************)
(* EventLoop (src/CEventLoop/EventLoop.cc): one loop thread that polls,    *)
(* handles the active channels and runs the functors that any thread may   *)
(* queue, and the other threads that call queueInLoop() and quit().        *)
(*                                                                         *)
(* The hard part is the sleep in ::poll: a functor pushed, or a quit       *)
(* requested, while the loop thread is on its way into poll must wake it   *)
(* up through the eventfd, and the byte that does so must not be consumed  *)
(* by an iteration that does not look at the queue.                        *)
(*                                                                         *)
(* A functor is the number of the queueInLoop() call that pushed it.  What *)
(* handlers and functors do is user code: the model lets it call           *)
(* queueInLoop() and quit() any number of times.                           *)
(***************************************************************************)
EXTENDS Naturals, Sequences

CONSTANTS
    LoopThread,      \* the thread that constructed the loop (threadId_)
    Callers,         \* the other threads that hold a pointer to the loop
    IoChannels,      \* the registered channels other than wakeupChannel_
    WakeupChannel,   \* wakeupChannel_, reading the eventfd
    NoThread,        \* mutex_ is free
    MaxFunctors      \* bound: queueInLoop() calls in a behaviour

ASSUME ThreadAssumption ==
    /\ LoopThread \notin Callers
    /\ NoThread \notin Callers \cup {LoopThread}
ASSUME ChannelAssumption == WakeupChannel \notin IoChannels
ASSUME BoundAssumption == MaxFunctors \in Nat

Threads  == Callers \cup {LoopThread}
Channels == IoChannels \cup {WakeupChannel}
Functors == 1 .. MaxFunctors

VARIABLES
    pc,                       \* where the loop thread is
    quit_, looping_,
    activeChannels_,          \* what is left to handle of the last poll
    mutex_,                   \* its holder, or NoThread
    pendingFunctors_,
    functors,                 \* the local batch of doPendingFunctors()
    callingPendingFunctors_,
    wakeupFd_,                \* the eventfd's counter is not zero
    call,                     \* the unfinished part of each thread's call
    queued,                   \* history: functors pushed so far
    ran,                      \* history: functors executed, in order
    early                     \* history: functors the loop thread pushed
                              \*          while it was not in loop()

loopVars == <<pc, looping_, activeChannels_, functors,
              callingPendingFunctors_, ran>>
vars == <<loopVars, quit_, mutex_, pendingFunctors_, wakeupFd_, call,
          queued, early>>

\* Every place where the loop thread can be between two steps.  "idle" is
\* outside loop(); "handler" and "functor" are inside user code.
PCs == {"idle", "check", "poll", "dispatch", "handler", "drain",
        "run", "functor"}

Init ==
    /\ pc = "idle"
    /\ quit_ = FALSE /\ looping_ = FALSE
    /\ activeChannels_ = {}
    /\ mutex_ = NoThread
    /\ pendingFunctors_ = <<>> /\ functors = <<>>
    /\ callingPendingFunctors_ = FALSE
    /\ wakeupFd_ = FALSE
    /\ call = [t \in Threads |-> "none"]
    /\ queued = 0 /\ ran = <<>> /\ early = {}

-----------------------------------------------------------------------------
(* Calls that any thread may make.                                         *)

\* Thread t runs code that may call into the loop.
InUserCode(t) ==
    /\ call[t] = "none"
    /\ t = LoopThread => pc \in {"idle", "handler", "functor"}

\* queueInLoop(), first half: lock mutex_ and push the functor.
QueueInLoop(t) ==
    /\ InUserCode(t)
    /\ mutex_ = NoThread
    /\ queued < MaxFunctors
    /\ mutex_' = t
    /\ queued' = queued + 1
    /\ pendingFunctors_' = Append(pendingFunctors_, queued + 1)
    /\ early' = IF t = LoopThread /\ ~looping_
                THEN early \cup {queued + 1} ELSE early
    /\ call' = [call EXCEPT ![t] = "pushed"]
    /\ UNCHANGED <<loopVars, quit_, wakeupFd_>>

\* The condition under which queueInLoop() calls wakeup().
NeedsWakeup_onlyOtherThreads(t) == t # LoopThread
NeedsWakeup_onlyWhileCalling(t) == callingPendingFunctors_
NeedsWakeup(t) == t # LoopThread \/ callingPendingFunctors_

\* queueInLoop(), second half: wakeup() if needed, then unlock.
QueueWakeup(t) ==
    /\ call[t] = "pushed"
    /\ wakeupFd_' = (wakeupFd_ \/ NeedsWakeup(t))
    /\ mutex_' = NoThread
    /\ call' = [call EXCEPT ![t] = "none"]
    /\ UNCHANGED <<loopVars, quit_, pendingFunctors_, queued, early>>

\* quit(), first half: set quit_; only another thread goes on to wakeup().
Quit_noWakeup(t) ==
    /\ InUserCode(t)
    /\ quit_' = TRUE
    /\ UNCHANGED <<loopVars, mutex_, pendingFunctors_, wakeupFd_, call,
                   queued, early>>
Quit(t) ==
    /\ InUserCode(t)
    /\ quit_' = TRUE
    /\ call' = [call EXCEPT ![t] = IF t = LoopThread THEN "none"
                                                     ELSE "quitting"]
    /\ UNCHANGED <<loopVars, mutex_, pendingFunctors_, wakeupFd_, queued,
                   early>>

\* quit(), second half: wakeup().
QuitWakeup(t) ==
    /\ call[t] = "quitting"
    /\ wakeupFd_' = TRUE
    /\ call' = [call EXCEPT ![t] = "none"]
    /\ UNCHANGED <<loopVars, quit_, mutex_, pendingFunctors_, queued, early>>

-----------------------------------------------------------------------------
(* The loop thread.  None of its own steps is enabled while it is inside a *)
(* call of its own.                                                        *)

At(p) == pc = p /\ call[LoopThread] = "none"

sharedVars == <<quit_, mutex_, call, queued, early>>

\* loop(): assert(!looping_), looping_ = true.  quit_ is not reset: a quit()
\* that comes before loop() is not lost.
Loop_resetsQuit ==
    /\ At("idle")
    /\ looping_' = TRUE
    /\ quit_' = FALSE
    /\ pc' = "check"
    /\ UNCHANGED <<mutex_, call, queued, early, activeChannels_,
                   pendingFunctors_, functors, callingPendingFunctors_,
                   wakeupFd_, ran>>
Loop ==
    /\ At("idle")
    /\ looping_' = TRUE
    /\ pc' = "check"
    /\ UNCHANGED <<sharedVars, activeChannels_, pendingFunctors_, functors,
                   callingPendingFunctors_, wakeupFd_, ran>>

\* while (!quit_): leave loop(), or clear the active channels and poll.
CheckQuit ==
    /\ At("check")
    /\ pc' = IF quit_ THEN "idle" ELSE "poll"
    /\ looping_' = ~quit_
    /\ activeChannels_' = {}
    /\ UNCHANGED <<sharedVars, pendingFunctors_, functors,
                   callingPendingFunctors_, wakeupFd_, ran>>

\* ::poll returns with a nonempty set of active channels.  The eventfd is
\* level triggered; whether the others are ready is up to the environment.
Poll ==
    /\ At("poll")
    /\ \E io \in SUBSET IoChannels :
          activeChannels_' = io \cup (IF wakeupFd_ THEN {WakeupChannel} ELSE {})
    /\ activeChannels_' # {}
    /\ pc' = "dispatch"
    /\ UNCHANGED <<sharedVars, looping_, pendingFunctors_, functors,
                   callingPendingFunctors_, wakeupFd_, ran>>

\* ::poll times out after 5 s or is interrupted; either needs that nothing
\* is ready.
PollTimeout_skipsQueue ==
    /\ At("poll")
    /\ ~wakeupFd_
    /\ activeChannels_' = {}
    /\ pc' = "check"
    /\ UNCHANGED <<sharedVars, looping_, pendingFunctors_, functors,
                   callingPendingFunctors_, wakeupFd_, ran>>
PollTimeout ==
    /\ At("poll")
    /\ ~wakeupFd_
    /\ activeChannels_' = {}
    /\ pc' = "dispatch"
    /\ UNCHANGED <<sharedVars, looping_, pendingFunctors_, functors,
                   callingPendingFunctors_, wakeupFd_, ran>>

\* handleEvent() of the wakeup channel: handleRead() empties the eventfd.
HandleWakeup ==
    /\ At("dispatch")
    /\ WakeupChannel \in activeChannels_
    /\ activeChannels_' = activeChannels_ \ {WakeupChannel}
    /\ wakeupFd_' = FALSE
    /\ UNCHANGED <<sharedVars, pc, looping_, pendingFunctors_, functors,
                   callingPendingFunctors_, ran>>

\* handleEvent() of any other channel: user code runs until HandlerReturns.
HandleEvent ==
    /\ At("dispatch")
    /\ \E c \in activeChannels_ \ {WakeupChannel} :
          activeChannels_' = activeChannels_ \ {c}
    /\ pc' = "handler"
    /\ UNCHANGED <<sharedVars, looping_, pendingFunctors_, functors,
                   callingPendingFunctors_, wakeupFd_, ran>>

HandlerReturns ==
    /\ At("handler")
    /\ pc' = "dispatch"
    /\ UNCHANGED <<sharedVars, looping_, activeChannels_, pendingFunctors_,
                   functors, callingPendingFunctors_, wakeupFd_, ran>>

EndDispatch ==
    /\ At("dispatch")
    /\ activeChannels_ = {}
    /\ pc' = "drain"
    /\ UNCHANGED <<sharedVars, looping_, activeChannels_, pendingFunctors_,
                   functors, callingPendingFunctors_, wakeupFd_, ran>>

\* doPendingFunctors(): swap the batch out under mutex_, then set
\* callingPendingFunctors_.  The flag is only ever read by the loop thread
\* (queueInLoop() tests it second), so setting it in this step is exact.
SwapFunctors_copies ==
    /\ At("drain")
    /\ mutex_ = NoThread
    /\ functors' = pendingFunctors_
    /\ callingPendingFunctors_' = TRUE
    /\ pc' = "run"
    /\ UNCHANGED <<sharedVars, looping_, activeChannels_, pendingFunctors_,
                   wakeupFd_, ran>>
SwapFunctors ==
    /\ At("drain")
    /\ mutex_ = NoThread
    /\ functors' = pendingFunctors_
    /\ pendingFunctors_' = <<>>
    /\ callingPendingFunctors_' = TRUE
    /\ pc' = "run"
    /\ UNCHANGED <<sharedVars, looping_, activeChannels_, wakeupFd_, ran>>

\* for (auto& functor : functors) functor();
RunFunctor ==
    /\ At("run")
    /\ functors # <<>>
    /\ ran' = Append(ran, Head(functors))
    /\ functors' = Tail(functors)
    /\ pc' = "functor"
    /\ UNCHANGED <<sharedVars, looping_, activeChannels_, pendingFunctors_,
                   callingPendingFunctors_, wakeupFd_>>

FunctorReturns ==
    /\ At("functor")
    /\ pc' = "run"
    /\ UNCHANGED <<sharedVars, looping_, activeChannels_, pendingFunctors_,
                   functors, callingPendingFunctors_, wakeupFd_, ran>>

EndFunctors_keepsFlag ==
    /\ At("run")
    /\ functors = <<>>
    /\ pc' = "check"
    /\ UNCHANGED <<sharedVars, looping_, activeChannels_, pendingFunctors_,
                   functors, callingPendingFunctors_, wakeupFd_, ran>>
EndFunctors ==
    /\ At("run")
    /\ functors = <<>>
    /\ callingPendingFunctors_' = FALSE
    /\ pc' = "check"
    /\ UNCHANGED <<sharedVars, looping_, activeChannels_, pendingFunctors_,
                   functors, wakeupFd_, ran>>

-----------------------------------------------------------------------------

LoopStep ==
    \/ CheckQuit
    \/ HandleWakeup \/ HandleEvent \/ HandlerReturns \/ EndDispatch
    \/ SwapFunctors \/ RunFunctor \/ FunctorReturns \/ EndFunctors

Next ==
    \/ \E t \in Threads :
          QueueInLoop(t) \/ QueueWakeup(t) \/ Quit(t) \/ QuitWakeup(t)
    \/ Loop
    \/ Poll
    \/ PollTimeout
    \/ LoopStep

Spec == Init /\ [][Next]_vars

(* A thread inside queueInLoop() or quit() finishes the call; the loop     *)
(* thread goes on, user code returns, and poll() returns once the eventfd  *)
(* is readable.  Nobody has to call loop(), queueInLoop() or quit(), and   *)
(* no other channel ever has to become ready.                              *)
Fairness ==
    /\ \A t \in Threads : WF_vars(QueueWakeup(t)) /\ WF_vars(QuitWakeup(t))
    /\ WF_vars(LoopStep)
    /\ WF_vars(wakeupFd_ /\ Poll)

\* Without the poll timeout: what the eventfd alone guarantees.
FairSpec == Spec /\ Fairness

-----------------------------------------------------------------------------
(* Safety.                                                                 *)

TypeOK ==
    /\ pc \in PCs
    /\ quit_ \in BOOLEAN /\ looping_ \in BOOLEAN
    /\ activeChannels_ \in SUBSET Channels
    /\ mutex_ \in Threads \cup {NoThread}
    /\ pendingFunctors_ \in Seq(Functors) /\ functors \in Seq(Functors)
    /\ callingPendingFunctors_ \in BOOLEAN
    /\ wakeupFd_ \in BOOLEAN
    /\ call \in [Threads -> {"none", "pushed", "quitting"}]
    /\ queued \in 0 .. MaxFunctors
    /\ ran \in Seq(Functors)
    /\ early \in SUBSET Functors

(* The flags agree with where the threads are: looping_ and                *)
(* callingPendingFunctors_ say exactly which part of loop() the loop       *)
(* thread is in, mutex_ is held by the one thread inside queueInLoop(),    *)
(* and the loop thread never waits in quit().                              *)
FlagsOK ==
    /\ looping_ <=> pc # "idle"
    /\ callingPendingFunctors_ <=> pc \in {"run", "functor"}
    /\ \A t \in Threads : call[t] = "pushed" <=> mutex_ = t
    /\ call[LoopThread] # "none" =>
          /\ call[LoopThread] = "pushed"
          /\ pc \in {"idle", "handler", "functor"}

(* The type invariant: types, and flags that agree with the threads.       *)
StateOK == TypeOK /\ FlagsOK

\* Functors of pendingFunctors_ that a sleeping loop thread would not hear
\* of: pushed neither before loop() by the loop thread itself, nor by a
\* thread that still holds mutex_ and is about to call wakeup().
Unannounced ==
    {i \in DOMAIN pendingFunctors_ :
        /\ pendingFunctors_[i] \notin early
        /\ ~ (mutex_ # NoThread /\ i = Len(pendingFunctors_))}

(* No lost wakeup.  Whenever the loop thread is in poll() and the eventfd  *)
(* is not readable, no functor is left waiting for it: queueInLoop() calls *)
(* wakeup() exactly where it must.  The one exception is a functor the     *)
(* loop thread queues before it calls loop(): it waits for the timeout.    *)
NoLostWakeup == pc = "poll" /\ ~wakeupFd_ => Unannounced = {}

(* No missed quit.  When quit_ is set while the loop thread is in poll()   *)
(* and the eventfd is not readable, the thread that set it is still inside *)
(* quit(), about to call wakeup().                                         *)
NoMissedQuit ==
    pc = "poll" /\ quit_ /\ ~wakeupFd_ =>
        \E t \in Callers : call[t] = "quitting"

(* Every functor is run at most once and in the order of the pushes, none  *)
(* is lost between the queue and the batch: what ran, what is left of the  *)
(* batch and what is pending make up the functors queued, in order.        *)
FifoExactlyOnce ==
    ran \o functors \o pendingFunctors_ = [n \in 1 .. queued |-> n]

-----------------------------------------------------------------------------
(* Liveness.                                                               *)

HasRun(f) == \E i \in DOMAIN ran : ran[i] = f

(* Under FairSpec: a functor queued from another thread, or by the loop    *)
(* thread in loop(), is run or the loop is told to quit.  poll()'s timeout *)
(* is not needed for it.                                                   *)
DeliveredByWakeup ==
    \A f \in Functors :
        (f <= queued /\ f \notin early /\ looping_) ~> (HasRun(f) \/ quit_)

(* Under FairSpec: after quit(), from whatever thread and even before      *)
(* loop(), the loop thread stops sleeping in poll() for good.              *)
QuitEndsLoop == quit_ ~> [](pc # "poll")

-----------------------------------------------------------------------------
(* The loop as an executor: a queue of tasks, served in order while it is  *)
(* open (FunctorQueue).                                                    *)

FQ == INSTANCE FunctorQueue
        WITH Tasks <- Functors,
             tasks <- functors \o pendingFunctors_,
             done  <- ran,
             open  <- looping_ /\ ~quit_

(* The loop implements the executor's safety part.                         *)
RefinesQueue == FQ!Spec

(* Under FairSpec: if poll()'s timeout of 5 s also fires as time passes,   *)
(* the loop keeps the executor's promise that while it is open the next    *)
(* task is run.  This covers the functors queued before loop(), which only *)
(* the timeout brings to light.                                            *)
ServedWithTimeout == WF_vars(PollTimeout) => FQ!Progress
=============================================================================
