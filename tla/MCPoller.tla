------------------------------ MODULE MCPoller ------------------------------
(* Poller for TLC: channels and descriptors are interchangeable.           *)
EXTENDS Poller, TLC

Symmetry == Permutations(Channels) \cup Permutations(Fds)
=============================================================================
