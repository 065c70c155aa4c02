----------------------------- MODULE InterestSet -----------------------------
(***************************************************************************)
(* What Poller promises its EventLoop: a map from the registered channels  *)
(* to the events they want, in which an operation on one channel touches   *)
(* the entry of that channel only.                                         *)
(***************************************************************************)
EXTENDS Functions

CONSTANTS Channels, Events

VARIABLES
    wanted,       \* what each channel wants to be polled for
    interest      \* registered channel -> events it is polled for

vars == <<wanted, interest>>

Init ==
    /\ wanted \in [Channels -> SUBSET Events]
    /\ interest = << >>

\* A channel is created or destroyed; what it then wants is not specified.
Create(c) ==
    /\ c \notin DOMAIN interest
    /\ \E e \in SUBSET Events : wanted' = [wanted EXCEPT ![c] = e]
    /\ UNCHANGED interest

\* A channel is registered, or changes what it wants.
Set(c, e) ==
    /\ wanted' = [wanted EXCEPT ![c] = e]
    /\ interest' = [d \in DOMAIN interest \cup {c} |->
                       IF d = c THEN e ELSE interest[d]]

\* A channel is removed.
Remove(c) ==
    /\ c \in DOMAIN interest
    /\ interest' = Restrict(interest, DOMAIN interest \ {c})
    /\ UNCHANGED wanted

Next ==
    \E c \in Channels :
        Create(c) \/ Remove(c) \/ \E e \in SUBSET Events : Set(c, e)

Spec == Init /\ [][Next]_vars
=============================================================================
