----------------------------- MODULE LoopThreads -----------------------------
(***************************************************************************)
(* EventLoopThread and EventLoopThreadPool (src/CEventLoop): the pool's    *)
(* user (the base thread) starts the threads one by one and waits for each *)
(* to publish its EventLoop, a local variable of threadFunc(); it later    *)
(* quits the loops and destroys the pool, which joins the threads.         *)
(*                                                                         *)
(* A pointer to an EventLoop is a thread's number, Null, or Wild: loop_    *)
(* has no initialiser and holds whatever was in memory.  The loop itself   *)
(* is taken for what EventLoop.tla shows: once quit_ is set and the eventfd*)
(* is written, loop() returns.                                             *)
(***************************************************************************)
EXTENDS Naturals, Sequences

CONSTANTS
    MaxThreads,     \* bound: numThreads_
    Null, Wild

ASSUME ThreadsAssumption == MaxThreads \in Nat \ {0}
ASSUME PointerAssumption ==
    /\ Null # Wild
    /\ Null \notin 1 .. MaxThreads /\ Wild \notin 1 .. MaxThreads

Threads == 1 .. MaxThreads

VARIABLES
    numThreads_, started_,
    base,           \* where the base thread is
    cur,            \* the thread it is starting, quitting or joining
    loops_,
    loop_,          \* of each EventLoopThread
    mutex_,         \* of each EventLoopThread: "free", "base" or "thread"
    notified,       \* cond_ of each: a notify_all() since the wait began
    thread,         \* where each thread is
    quit_,          \* of each thread's EventLoop
    wakeup,         \* its eventfd is readable
    quitCalled,     \* history: EventLoopThreadPool::quit() was called
    again,          \* history: it was called more than once
    garbage,        \* history: the threads whose loop_ was not null at first
    selfQuit,       \* history: the threads whose own code called quit()
    touched         \* history: what was done to a loop that did not exist

poolVars == <<numThreads_, started_, loops_, quitCalled, again, garbage>>
vars == <<poolVars, base, cur, loop_, mutex_, notified, thread, quit_,
          wakeup, selfQuit, touched>>

Init ==
    /\ numThreads_ \in 0 .. MaxThreads
    /\ started_ = FALSE /\ base = "user" /\ cur = 0 /\ loops_ = <<>>
    /\ loop_ \in [Threads -> {Null, Wild}]
    /\ garbage = {i \in Threads : loop_[i] # Null}
    /\ mutex_ = [i \in Threads |-> "free"]
    /\ notified = [i \in Threads |-> FALSE]
    /\ thread = [i \in Threads |-> "none"]
    /\ quit_ = [i \in Threads |-> FALSE]
    /\ wakeup = [i \in Threads |-> FALSE]
    /\ quitCalled = FALSE /\ again = FALSE /\ selfQuit = {} /\ touched = {}

\* The EventLoop of thread i exists.
LoopExists(i) == thread[i] \in {"init", "publish", "notify", "loop", "after"}

-----------------------------------------------------------------------------
(* The base thread: start().                                               *)

\* start(), once (it asserts so).
Start ==
    /\ base = "user" /\ ~started_
    /\ started_' = TRUE
    /\ IF numThreads_ = 0 THEN base' = base /\ cur' = cur
                          ELSE base' = "spawn" /\ cur' = 1
    /\ UNCHANGED <<numThreads_, loops_, quitCalled, again, garbage, loop_,
                   mutex_, notified, thread, quit_, wakeup, selfQuit, touched>>

\* startLoop(): the new thread runs.
Spawn ==
    /\ base = "spawn"
    /\ thread' = [thread EXCEPT ![cur] = "init"]
    /\ base' = "lock"
    /\ UNCHANGED <<poolVars, cur, loop_, mutex_, notified, quit_, wakeup,
                   selfQuit, touched>>

\* unique_lock lock(mutex_); also when cond_.wait() returns.
Lock ==
    /\ base = "lock" /\ mutex_[cur] = "free"
    /\ mutex_' = [mutex_ EXCEPT ![cur] = "base"]
    /\ base' = "test"
    /\ UNCHANGED <<poolVars, cur, loop_, notified, thread, quit_, wakeup,
                   selfQuit, touched>>

\* while (loop_ == nullptr) cond_.wait(lock): test, and unlock and wait in
\* one step.
Test ==
    /\ base = "test"
    /\ IF loop_[cur] = Null
       THEN /\ mutex_' = [mutex_ EXCEPT ![cur] = "free"]
            /\ notified' = [notified EXCEPT ![cur] = FALSE]
            /\ base' = "wait"
       ELSE /\ base' = "take"
            /\ UNCHANGED <<mutex_, notified>>
    /\ UNCHANGED <<poolVars, cur, loop_, thread, quit_, wakeup, selfQuit, touched>>

\* cond_.wait() returns: notified, or for no reason at all.
Wake_testsOnce ==
    /\ base = "wait" /\ mutex_[cur] = "free"
    /\ base' = "take"
    /\ UNCHANGED <<poolVars, cur, loop_, mutex_, notified, thread, quit_,
                   wakeup, selfQuit, touched>>
Wake ==
    /\ base = "wait"
    /\ base' = "lock"
    /\ UNCHANGED <<poolVars, cur, loop_, mutex_, notified, thread, quit_,
                   wakeup, selfQuit, touched>>

\* loop = loop_; unlock; loops_.push_back(); the next thread.
Take ==
    /\ base = "take"
    /\ loops_' = Append(loops_, loop_[cur])
    /\ mutex_' = [mutex_ EXCEPT ![cur] = "free"]
    /\ IF cur < numThreads_ THEN base' = "spawn" /\ cur' = cur + 1
                            ELSE base' = "user" /\ cur' = cur
    /\ UNCHANGED <<numThreads_, started_, quitCalled, again, garbage, loop_,
                   notified, thread, quit_, wakeup, selfQuit, touched>>

-----------------------------------------------------------------------------
(* The base thread: quit() and the destructor.                             *)

\* quit(), any number of times, also on loops that are gone; with no loops
\* it does nothing.  For each loop, quit_ = true ...
Quit ==
    /\ base = "user" /\ loops_ # <<>>
    /\ quitCalled' = TRUE /\ again' = quitCalled
    /\ base' = "quit" /\ cur' = 1
    /\ UNCHANGED <<numThreads_, started_, loops_, garbage, loop_, mutex_,
                   notified, thread, quit_, wakeup, selfQuit, touched>>

QuitLoop ==
    /\ base = "quit"
    /\ LET l == loops_[cur]
       IN IF l \in Threads /\ LoopExists(l)
          THEN quit_' = [quit_ EXCEPT ![l] = TRUE] /\ UNCHANGED touched
          ELSE touched' = touched \cup {<<"quit", l>>} /\ UNCHANGED quit_
    /\ base' = "wakeup"
    /\ UNCHANGED <<poolVars, cur, loop_, mutex_, notified, thread, wakeup,
                   selfQuit>>

\* ... and wakeup(): the loop may have ended in between, and its thread
\* have destroyed it.
QuitWakeup_forgotten ==
    /\ base = "wakeup"
    /\ IF cur < Len(loops_) THEN base' = "quit" /\ cur' = cur + 1
                            ELSE base' = "user" /\ cur' = cur
    /\ UNCHANGED <<poolVars, loop_, mutex_, notified, thread, quit_, wakeup,
                   selfQuit, touched>>
QuitWakeup ==
    /\ base = "wakeup"
    /\ LET l == loops_[cur]
       IN IF l \in Threads /\ LoopExists(l)
          THEN wakeup' = [wakeup EXCEPT ![l] = TRUE] /\ UNCHANGED touched
          ELSE touched' = touched \cup {<<"wakeup", l>>} /\ UNCHANGED wakeup
    /\ IF cur < Len(loops_) THEN base' = "quit" /\ cur' = cur + 1
                            ELSE base' = "user" /\ cur' = cur
    /\ UNCHANGED <<poolVars, loop_, mutex_, notified, thread, quit_, selfQuit>>

\* ~EventLoopThreadPool(), with or without a quit() before (TcpServer never
\* calls it): ~EventLoopThread() joins each thread.
Destroy ==
    /\ base = "user"
    /\ base' = IF loops_ = <<>> THEN "joined" ELSE "join"
    /\ cur' = 1
    /\ UNCHANGED <<poolVars, loop_, mutex_, notified, thread, quit_, wakeup,
                   selfQuit, touched>>

Join ==
    /\ base = "join"
    /\ thread[cur] = "ended"
    /\ IF cur < numThreads_ THEN base' = base /\ cur' = cur + 1
                            ELSE base' = "joined" /\ cur' = cur
    /\ UNCHANGED <<poolVars, loop_, mutex_, notified, thread, quit_, wakeup,
                   selfQuit, touched>>

-----------------------------------------------------------------------------
(* Thread i: threadFunc().                                                 *)

\* EventLoop loop; callback_(&loop).
ThreadInit(i) ==
    /\ thread[i] = "init"
    /\ thread' = [thread EXCEPT ![i] = "publish"]
    /\ UNCHANGED <<poolVars, base, cur, loop_, mutex_, notified, quit_,
                   wakeup, selfQuit, touched>>

\* Lock, and loop_ = &loop.
Publish(i) ==
    /\ thread[i] = "publish" /\ mutex_[i] = "free"
    /\ mutex_' = [mutex_ EXCEPT ![i] = "thread"]
    /\ loop_' = [loop_ EXCEPT ![i] = i]
    /\ thread' = [thread EXCEPT ![i] = "notify"]
    /\ UNCHANGED <<poolVars, base, cur, notified, quit_, wakeup, selfQuit, touched>>

\* cond_.notify_all(), and unlock.
Notify_forgotten(i) ==
    /\ thread[i] = "notify"
    /\ mutex_' = [mutex_ EXCEPT ![i] = "free"]
    /\ thread' = [thread EXCEPT ![i] = "loop"]
    /\ UNCHANGED <<poolVars, base, cur, loop_, notified, quit_, wakeup,
                   selfQuit, touched>>
Notify(i) ==
    /\ thread[i] = "notify"
    /\ notified' = [notified EXCEPT ![i] = TRUE]
    /\ mutex_' = [mutex_ EXCEPT ![i] = "free"]
    /\ thread' = [thread EXCEPT ![i] = "loop"]
    /\ UNCHANGED <<poolVars, base, cur, loop_, quit_, wakeup, selfQuit, touched>>

\* callback_, a functor or a handler of the loop calls quit().  The loop
\* thread then needs no wakeup() to see it; wakeup stands for that here.
QuitsItself(i) ==
    /\ thread[i] \in {"init", "loop"}
    /\ quit_' = [quit_ EXCEPT ![i] = TRUE]
    /\ wakeup' = [wakeup EXCEPT ![i] = TRUE]
    /\ selfQuit' = selfQuit \cup {i}
    /\ UNCHANGED <<poolVars, base, cur, loop_, mutex_, notified, thread,
                   touched>>

\* loop.loop() returns: quit_ is tested when poll() returns, which may
\* happen without the eventfd.
LoopReturns_onTimeout(i) ==
    /\ thread[i] = "loop"
    /\ thread' = [thread EXCEPT ![i] = "after"]
    /\ UNCHANGED <<poolVars, base, cur, loop_, mutex_, notified, quit_,
                   wakeup, selfQuit, touched>>
LoopReturns(i) ==
    /\ thread[i] = "loop" /\ quit_[i]
    /\ thread' = [thread EXCEPT ![i] = "after"]
    /\ UNCHANGED <<poolVars, base, cur, loop_, mutex_, notified, quit_,
                   wakeup, selfQuit, touched>>

\* Lock, loop_ = nullptr, unlock; loop is destroyed and the thread ends.
Unpublish(i) ==
    /\ thread[i] = "after" /\ mutex_[i] = "free"
    /\ loop_' = [loop_ EXCEPT ![i] = Null]
    /\ thread' = [thread EXCEPT ![i] = "ended"]
    /\ UNCHANGED <<poolVars, base, cur, mutex_, notified, quit_, wakeup,
                   selfQuit, touched>>

BaseStep ==
    \/ Spawn \/ Lock \/ Test \/ Take \/ QuitLoop \/ QuitWakeup \/ Join

ThreadStep(i) == ThreadInit(i) \/ Publish(i) \/ Notify(i) \/ Unpublish(i)

Next ==
    \/ Start \/ Quit \/ Destroy \/ Wake \/ BaseStep
    \/ \E i \in Threads : ThreadStep(i) \/ QuitsItself(i) \/ LoopReturns(i)

Spec == Init /\ [][Next]_vars

(* Threads that can go on do so; a waiting thread that was notified wakes  *)
(* up, and a loop whose eventfd is readable tests quit_.  A thread gets a  *)
(* mutex that is free time and again, spurious wakeups of the other thread *)
(* notwithstanding.  These and poll timeouts may happen and need not.      *)
Fairness ==
    /\ WF_vars(BaseStep)
    /\ WF_vars(Wake /\ notified[cur])
    /\ \A i \in Threads :
          SF_vars(ThreadStep(i)) /\ WF_vars(wakeup[i] /\ LoopReturns(i))

FairSpec == Spec /\ Fairness

-----------------------------------------------------------------------------
(* Safety.                                                                 *)

(* start() hands out the threads' own loops, each after its thread has     *)
(* initialised it, and never a null pointer.  The exception is a thread    *)
(* whose uninitialised loop_ was not null: its loop may be a wild pointer. *)
LoopsReady ==
    \A i \in DOMAIN loops_ :
        /\ loops_[i] = i \/ (i \in garbage /\ loops_[i] = Wild)
        /\ loops_[i] = i => thread[i] \in {"loop", "after", "ended"}

\* Why a loop handed out may be gone, or was never one, when quit() uses it.
\* A loop may leave poll() for some other event as soon as quit_ is set, so
\* the wakeup() that follows can come too late even in the first quit().
Explained(op, l) ==
    \/ l = Wild /\ garbage # {}
    \/ l \in selfQuit \/ again
    \/ /\ op = "wakeup" /\ l \in Threads
       /\ thread[l] = "ended" /\ quit_[l] /\ ~wakeup[l]

(* When quit() is through, every loop that start() handed out has quit_    *)
(* set, and was woken up unless it has ended already.  quit() uses a loop  *)
(* that is gone only if the loop's own code ended it, if quit() was called *)
(* before, or, in wakeup() alone, if the loop saw the quit_ just set on    *)
(* some other event.                                                       *)
QuitReaches ==
    /\ quitCalled /\ base \notin {"quit", "wakeup"} =>
          \A i \in DOMAIN loops_ :
              loops_[i] = i => quit_[i] /\ (wakeup[i] \/ thread[i] = "ended")
    /\ \A t \in touched : Explained(t[1], t[2])

-----------------------------------------------------------------------------
(* Liveness.                                                               *)

(* Under FairSpec: startLoop() returns, however the two threads are        *)
(* scheduled, unless the new thread's own code quits the loop at once: it  *)
(* may then be gone before startLoop() looks, and the wait has no end.     *)
StartReturns ==
    \A i \in Threads :
        base = "lock" /\ cur = i ~> base \in {"take", "user"} \/ i \in selfQuit

(* Under FairSpec: after quit() the destructor joins all threads, provided *)
(* that start() handed out their loops.  Without quit() nothing ends them. *)
JoinEnds ==
    base = "join" /\ quitCalled /\ garbage = {} ~> base = "joined"

=============================================================================
