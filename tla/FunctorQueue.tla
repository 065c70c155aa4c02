---------------------------- MODULE FunctorQueue ----------------------------
(***************************************************************************)
(* What EventLoop promises the callers of queueInLoop(): an executor that  *)
(* runs the tasks it is given one at a time, each once, in the order in    *)
(* which they were given, and that keeps doing so while it is open (after  *)
(* loop() is called and before quit() is).                                 *)
(***************************************************************************)
EXTENDS Sequences

CONSTANT Tasks

VARIABLES
    tasks,   \* given and not yet run
    done,    \* run, in order
    open     \* the executor must make progress

vars == <<tasks, done, open>>

Init == tasks = <<>> /\ done = <<>> /\ open = FALSE

Submit ==
    /\ \E t \in Tasks : tasks' = Append(tasks, t)
    /\ UNCHANGED <<done, open>>

Execute ==
    /\ tasks # <<>>
    /\ done' = Append(done, Head(tasks))
    /\ tasks' = Tail(tasks)
    /\ UNCHANGED open

OpenOrClose ==
    /\ open' = ~open
    /\ UNCHANGED <<tasks, done>>

Next == Submit \/ Execute \/ OpenOrClose

Spec == Init /\ [][Next]_vars

\* An open executor with tasks runs the next one.
Progress == WF_vars(open /\ Execute)
=============================================================================
