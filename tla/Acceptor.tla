------------------------------ MODULE Acceptor ------------------------------
(***************************************************************************)
(* Acceptor (src/CEventLoop/Acceptor.cc): the handler of the listening     *)
(* socket, which must get a connection out of the kernel's queue even when *)
(* the process has no free descriptor: it then gives up a descriptor it    *)
(* holds in reserve, accepts and closes the connection, and opens the      *)
(* reserve again.  Each of the four system calls is a step, and the other  *)
(* threads of the process open and close descriptors in between.           *)
(***************************************************************************)
EXTENDS Naturals, FiniteSets

CONSTANTS
    Fds,            \* the descriptors the process may have open
    NoFd,           \* -1
    MaxArrivals     \* bound: connections made by peers

ASSUME FdAssumption == IsFiniteSet(Fds) /\ NoFd \notin Fds
ASSUME ArrivalAssumption == MaxArrivals \in Nat

VARIABLES
    listening,
    hasCallback,    \* newConnectionCallback_ is set
    pc,             \* where handleRead() is
    idleFd_,
    owner,          \* of each descriptor: "free", "acceptor", "conn",
                    \* or "other" (the rest of the process)
    backlog,        \* connections in the kernel's queue
    arrived, taken, \* history: connections made, and taken off the queue
    lost            \* history: the reserve could not be opened at first, or
                    \* another thread took a descriptor while it was given up

acceptorVars == <<listening, hasCallback, pc, idleFd_, owner, backlog,
                  arrived, taken, lost>>

\* The acceptor, after its constructor, which does not look whether open()
\* gave it the reserve.
AcceptorInit ==
    /\ listening = FALSE /\ hasCallback \in BOOLEAN
    /\ pc = "poll"
    /\ idleFd_ \in Fds \cup {NoFd}
    /\ owner \in {o \in [Fds -> {"free", "acceptor", "other"}] :
                    \A f \in Fds : o[f] = "acceptor" <=> f = idleFd_}
    /\ backlog = 0 /\ arrived = 0 /\ taken = 0
    /\ lost = (idleFd_ = NoFd)

Free == {f \in Fds : owner[f] = "free"}

-----------------------------------------------------------------------------
(* System calls of the acceptor.  Closing -1 does nothing.                 *)

CloseFd(f) == IF f = NoFd THEN owner ELSE [owner EXCEPT ![f] = "free"]

\* accept() for user u, the result f.  It is -1 without a descriptor or a
\* connection, and may be -1 for other reasons (ECONNABORTED, ENFILE, EINTR).
Accepted(f, u) ==
    \/ /\ f \in Free /\ backlog > 0
       /\ owner' = [owner EXCEPT ![f] = u]
       /\ backlog' = backlog - 1 /\ taken' = taken + 1
    \/ f = NoFd /\ UNCHANGED <<owner, backlog, taken>>

-----------------------------------------------------------------------------
(* Acceptor.                                                               *)

Listen ==
    /\ pc = "poll" /\ ~listening
    /\ listening' = TRUE
    /\ UNCHANGED <<hasCallback, pc, idleFd_, owner, backlog, arrived, taken,
                   lost>>

\* handleRead(), accept() succeeds: the connection is handed to the server,
\* or closed when nobody wants it.
HandleRead ==
    /\ pc = "poll" /\ listening /\ backlog > 0
    /\ \E f \in Free :
          owner' = [owner EXCEPT ![f] = IF hasCallback THEN "conn" ELSE "free"]
    /\ backlog' = backlog - 1 /\ taken' = taken + 1
    /\ UNCHANGED <<listening, hasCallback, pc, idleFd_, arrived, lost>>

\* accept() fails, and errno is not EMFILE when it is tested, after two log
\* lines: the connection stays in the queue.
HandleReadFails ==
    /\ pc = "poll" /\ listening /\ backlog > 0
    /\ pc' = "failed"
    /\ UNCHANGED <<listening, hasCallback, idleFd_, owner, backlog, arrived,
                   taken, lost>>

\* handleRead() returns; the listening socket is still readable.
Return ==
    /\ pc = "failed"
    /\ pc' = "poll"
    /\ UNCHANGED <<listening, hasCallback, idleFd_, owner, backlog, arrived,
                   taken, lost>>

\* accept() fails with EMFILE, and errno still says so: close the reserve.
CloseIdle_forgotten ==
    /\ pc = "poll" /\ listening /\ backlog > 0
    /\ Free = {}
    /\ pc' = "accept"
    /\ UNCHANGED <<listening, hasCallback, idleFd_, owner, backlog, arrived,
                   taken, lost>>
CloseIdle ==
    /\ pc = "poll" /\ listening /\ backlog > 0
    /\ Free = {}
    /\ owner' = CloseFd(idleFd_)
    /\ pc' = "accept"
    /\ UNCHANGED <<listening, hasCallback, idleFd_, backlog, arrived, taken,
                   lost>>

\* idleFd_ = accept()
AcceptIdle_unassigned ==
    /\ pc = "accept"
    /\ \E f \in Fds \cup {NoFd} : Accepted(f, "acceptor")
    /\ pc' = "close"
    /\ UNCHANGED <<listening, hasCallback, idleFd_, arrived, lost>>
AcceptIdle ==
    /\ pc = "accept"
    /\ \E f \in Fds \cup {NoFd} : Accepted(f, "acceptor") /\ idleFd_' = f
    /\ pc' = "close"
    /\ UNCHANGED <<listening, hasCallback, arrived, lost>>

\* close(idleFd_)
CloseAccepted ==
    /\ pc = "close"
    /\ owner' = CloseFd(idleFd_)
    /\ pc' = "open"
    /\ UNCHANGED <<listening, hasCallback, idleFd_, backlog, arrived, taken,
                   lost>>

\* idleFd_ = open("/dev/null")
OpenIdle_forgotten ==
    /\ pc = "open"
    /\ idleFd_' = NoFd /\ UNCHANGED owner
    /\ pc' = "poll"
    /\ UNCHANGED <<listening, hasCallback, backlog, arrived, taken, lost>>
OpenIdle ==
    /\ pc = "open"
    /\ IF Free = {}
       THEN idleFd_' = NoFd /\ UNCHANGED owner
       ELSE \E f \in Free : /\ idleFd_' = f
                            /\ owner' = [owner EXCEPT ![f] = "acceptor"]
    /\ pc' = "poll"
    /\ UNCHANGED <<listening, hasCallback, backlog, arrived, taken, lost>>

\* ~Acceptor(), in the loop thread: out of the poller, close the reserve.
Destroy ==
    /\ pc = "poll"
    /\ pc' = "destroyed"
    /\ owner' = CloseFd(idleFd_) /\ idleFd_' = NoFd
    /\ listening' = FALSE
    /\ UNCHANGED <<hasCallback, backlog, arrived, taken, lost>>

-----------------------------------------------------------------------------
(* The peers, and the other threads.                                       *)

Arrive ==
    /\ listening /\ arrived < MaxArrivals
    /\ arrived' = arrived + 1 /\ backlog' = backlog + 1
    /\ UNCHANGED <<listening, hasCallback, pc, idleFd_, owner, taken, lost>>

OtherOpens ==
    /\ \E f \in Free : owner' = [owner EXCEPT ![f] = "other"]
    /\ lost' = (lost \/ pc \in {"accept", "close", "open"})
    /\ UNCHANGED <<listening, hasCallback, pc, idleFd_, backlog, arrived,
                   taken>>

OtherCloses ==
    /\ \E f \in Fds : /\ owner[f] \in {"other", "conn"}
                      /\ owner' = [owner EXCEPT ![f] = "free"]
    /\ UNCHANGED <<listening, hasCallback, pc, idleFd_, backlog, arrived,
                   taken, lost>>

-----------------------------------------------------------------------------

Handler ==
    \/ HandleRead \/ HandleReadFails \/ Return
    \/ CloseIdle \/ AcceptIdle \/ CloseAccepted \/ OpenIdle

AcceptorNext ==
    Listen \/ Handler \/ Destroy \/ Arrive \/ OtherOpens \/ OtherCloses

AcceptorSpec == AcceptorInit /\ [][AcceptorNext]_acceptorVars

(* The loop calls the handler while the listening socket is readable, and  *)
(* the handler goes on.  Nobody has to close a descriptor.                 *)
AcceptorFairSpec == AcceptorSpec /\ WF_acceptorVars(Handler)

-----------------------------------------------------------------------------

(* The acceptor closes only descriptors of its own.  While the handler     *)
(* gives up the reserve its number may go to another thread; outside the   *)
(* exchange and before each close(), idleFd_ is the acceptor's or -1.      *)
ClosesOwn ==
    pc \in {"poll", "failed", "close"} /\ idleFd_ # NoFd =>
        owner[idleFd_] = "acceptor"

(* The reserve is missing only if the constructor did not get it, or to    *)
(* another thread that opens a descriptor in the middle of the exchange;   *)
(* no descriptor of the acceptor is leaked.                                *)
ReserveKept ==
    /\ pc = "poll" /\ idleFd_ = NoFd => lost
    /\ \A f \in Fds : owner[f] = "acceptor" => f = idleFd_

\* accept() has just failed with no lack of descriptors to show for it, or
\* with its EMFILE overwritten.
AcceptErrs ==
    pc = "failed" \/ (pc = "close" /\ idleFd_ = NoFd /\ Free # {})

(* Under AcceptorFairSpec: every connection that arrives is taken off the  *)
(* queue, accepted or turned away, while there is an acceptor and the      *)
(* reserve is not lost, unless accept() keeps failing for other reasons    *)
(* than EMFILE or errno keeps being overwritten before it is tested.       *)
(* Otherwise the listening socket stays readable and the loop spins.       *)
ConnectionsTaken ==
    <>[]~AcceptErrs =>
        \A n \in 1 .. MaxArrivals :
            arrived = n ~> (taken >= n \/ lost \/ pc = "destroyed")
=============================================================================
