------------------------------- MODULE Poller -------------------------------
(***************************************************************************)
(* Poller (src/CEventLoop/Poller.cc) and the part of Channel that talks to *)
(* it.  A registered channel remembers in index_ its place in the array    *)
(* pollfds_ that is handed to ::poll; removing a channel moves the last    *)
(* entry into the hole, so the index_ of another channel must follow.      *)
(* channels_ maps a ready descriptor back to its channel.                  *)
(*                                                                         *)
(* All of it happens in the loop thread: in the handlers of a dispatch, in *)
(* the pending functors or between two calls of loop().  Of the users of   *)
(* channels (Connector, Acceptor, TcpConnection, EventLoop) the guards     *)
(* take only that a descriptor is open while a channel is made for it, and *)
(* that a channel is taken out of the poller before it is destroyed and    *)
(* not updated after that.  WHEN a channel is removed or destroyed is      *)
(* open: a handler may do it to its own channel or to one still to come.   *)
(***************************************************************************)
EXTENDS Integers, Sequences, Functions

CONSTANTS
    Channels,      \* the addresses at which Channel objects can live
    Fds,           \* file descriptors
    Events,        \* poll events a channel can ask for: "IN", "OUT"
    NoChannel      \* currentActiveChannel_ = nullptr

ASSUME NoChannelAssumption == NoChannel \notin Channels
ASSUME EventsAssumption == {"IN", "OUT"} \subseteq Events

VARIABLES
    pollfds_,               \* the array for ::poll: <<[fd, events], ...>>
    channels_,              \* fd -> channel
    fd_, events_, index_,   \* the fields of each channel; index_ is 0-based
    life,                   \* history of each channel, see Lives
    activeChannels_,        \* what the last ::poll reported, until clear()
    rest,                   \* those of them that the loop has yet to handle
    currentActiveChannel_,
    dispatching,            \* between ::poll and doPendingFunctors()
    freed,                  \* history: destroyed with their turn not over
    undefined               \* the program used a destroyed channel

chanVars == <<fd_, events_, index_, life>>
dispatchVars == <<activeChannels_, rest, currentActiveChannel_, dispatching>>
ubVars == <<freed, undefined>>
vars == <<pollfds_, channels_, chanVars, dispatchVars, ubVars>>

\* "none": no object; "fresh": constructed; "added": registered with the
\* poller; "removed": taken out by remove(); "released": its user has also
\* given its descriptor away (Connector) or closed it (Acceptor).
Lives == {"none", "fresh", "added", "removed", "released"}

Init ==
    /\ pollfds_ = << >> /\ channels_ = << >>
    /\ fd_ \in [Channels -> Fds] /\ events_ = [c \in Channels |-> {}]
    /\ index_ = [c \in Channels |-> -1]
    /\ life = [c \in Channels |-> "none"]
    /\ activeChannels_ = {} /\ rest = {}
    /\ currentActiveChannel_ = NoChannel /\ dispatching = FALSE
    /\ freed = {} /\ undefined = FALSE

Added == {c \in Channels : life[c] = "added"}

-----------------------------------------------------------------------------
(* Channel objects.                                                        *)

\* Channel(loop, fd).  events_ is not initialised: it holds anything.  The
\* descriptor is open, so no other channel holds it unless it released it.
NewChannel(c, fd) ==
    /\ life[c] = "none"
    /\ \A d \in Channels : life[d] \in {"fresh", "added", "removed"} =>
                              fd_[d] # fd
    /\ \E garbage \in SUBSET Events :
          events_' = [events_ EXCEPT ![c] = garbage]
    /\ fd_' = [fd_ EXCEPT ![c] = fd]
    /\ index_' = [index_ EXCEPT ![c] = -1]
    /\ life' = [life EXCEPT ![c] = "fresh"]
    /\ UNCHANGED <<pollfds_, channels_, dispatchVars, ubVars>>

\* The user of a removed channel gives its descriptor away: Connector hands
\* it to a new TcpConnection, Acceptor's socket closes it.  TcpConnection
\* never does, because it never closes its descriptor.
Release(c) ==
    /\ life[c] = "removed"
    /\ life' = [life EXCEPT ![c] = "released"]
    /\ UNCHANGED <<pollfds_, channels_, fd_, events_, index_, dispatchVars,
                   ubVars>>

\* The reported channels whose turn is not over: those still to come, and
\* the one whose handleEvent() has not returned.
Pending == {c \in Channels : c \in rest \/ c = currentActiveChannel_}

\* The channel is destroyed, after it was removed if it ever was registered.
\* Its fields are no more; they get the values they have in Init.
Delete(c) ==
    /\ life[c] \in {"fresh", "removed", "released"}
    /\ life' = [life EXCEPT ![c] = "none"]
    /\ events_' = [events_ EXCEPT ![c] = {}]
    /\ index_' = [index_ EXCEPT ![c] = -1]
    /\ freed' = freed \cup ({c} \cap Pending)
    /\ UNCHANGED <<pollfds_, channels_, fd_, dispatchVars, undefined>>

-----------------------------------------------------------------------------
(* Registration.                                                           *)

\* updateChannel() of a channel with no index: append an entry.
AddEntry(c, e) ==
    /\ index_[c] < 0
    /\ pollfds_' = Append(pollfds_, [fd |-> fd_[c], events |-> e])
    /\ index_' = [index_ EXCEPT ![c] = Len(pollfds_)]
    /\ channels_' = [f \in DOMAIN channels_ \cup {fd_[c]} |->
                        IF f = fd_[c] THEN c ELSE channels_[f]]

\* updateChannel() of a channel with an index: overwrite the entry there.
SetEntry_atEnd(c, e) ==
    /\ index_[c] >= 0
    /\ pollfds_' = [pollfds_ EXCEPT ![Len(pollfds_)].events = e]
    /\ UNCHANGED <<index_, channels_>>
SetEntry(c, e) ==
    /\ index_[c] >= 0
    /\ pollfds_' = [pollfds_ EXCEPT
                       ![index_[c] + 1] = [fd |-> fd_[c], events |-> e]]
    /\ UNCHANGED <<index_, channels_>>

\* The caller stores e in events_ and calls updateChannel().  No caller does
\* so after it removed the channel, whose index_ is then stale.
UpdateChannel(c, e) ==
    /\ life[c] \in {"fresh", "added"}
    /\ events_' = [events_ EXCEPT ![c] = e]
    /\ AddEntry(c, e) \/ SetEntry(c, e)
    /\ life' = [life EXCEPT ![c] = "added"]
    /\ UNCHANGED <<fd_, dispatchVars, ubVars>>

enableReading(c) == UpdateChannel(c, events_[c] \cup {"IN"})
enableWriting(c) == UpdateChannel(c, events_[c] \cup {"OUT"})
disableAll(c)    == UpdateChannel(c, {})

\* removeChannel(), in pieces: channels_ without the entry at idx; the array
\* with its last entry moved to idx; and index_ following that entry.
Erased(idx) ==
    Restrict(channels_, DOMAIN channels_ \ {pollfds_[idx + 1].fd})

Filled(idx) ==
    SubSeq([pollfds_ EXCEPT ![idx + 1] = pollfds_[Len(pollfds_)]],
           1, Len(pollfds_) - 1)

Reindexed_forgotten(idx) == index_
Reindexed(idx) ==
    IF idx = Len(pollfds_) - 1
    THEN index_
    ELSE [index_ EXCEPT ![channels_[pollfds_[Len(pollfds_)].fd]] = idx]

\* removeChannel(): nothing if the descriptor is not registered, which is so
\* for a second remove(); the removed channel's own index_ stays as it is.
RemoveChannel(c) ==
    /\ life[c] \in {"added", "removed"}
    /\ \/ /\ fd_[c] \notin DOMAIN channels_
          /\ UNCHANGED <<pollfds_, channels_, index_>>
       \/ /\ fd_[c] \in DOMAIN channels_
          /\ channels_' = Erased(index_[c])
          /\ pollfds_' = Filled(index_[c])
          /\ index_' = Reindexed(index_[c])
    /\ life' = [life EXCEPT ![c] = "removed"]
    /\ UNCHANGED <<fd_, events_, dispatchVars, ubVars>>

-----------------------------------------------------------------------------
(* Polling and dispatching.                                                *)

PolledFds == {pollfds_[i].fd : i \in DOMAIN pollfds_}

\* clear(), then ::poll reports some of the entries (POLLHUP and POLLERR even
\* for an entry with no events) and fillActiveChannels() looks their channels
\* up; it asserts that each is in channels_.  The list's order is left open.
Poll_uncleared ==
    /\ ~dispatching
    /\ \E ready \in SUBSET PolledFds :
          activeChannels_' = activeChannels_ \cup {channels_[f] : f \in ready}
    /\ rest' = activeChannels_'
    /\ dispatching' = TRUE
    /\ UNCHANGED <<pollfds_, channels_, chanVars, currentActiveChannel_, ubVars>>
Poll ==
    /\ ~dispatching
    /\ \E ready \in SUBSET PolledFds :
          activeChannels_' = {channels_[f] : f \in ready}
    /\ rest' = activeChannels_'
    /\ dispatching' = TRUE
    /\ UNCHANGED <<pollfds_, channels_, chanVars, currentActiveChannel_, ubVars>>

\* What the pointer c in the loop leads to is not the channel ::poll reported:
\* it was destroyed, even if another was constructed there since, whose
\* activeEvents_ nobody has set.
Dangling(c) == c # NoChannel /\ (life[c] = "none" \/ c \in freed)

\* handleEvent() of the current channel returns, which writes its
\* activeEvents_, and that of the next one starts, which reads them.
HandleEvent ==
    /\ dispatching
    /\ \E c \in rest :
          /\ currentActiveChannel_' = c
          /\ rest' = rest \ {c}
          /\ undefined' = (Dangling(currentActiveChannel_) \/ Dangling(c))
    /\ UNCHANGED <<pollfds_, channels_, chanVars, activeChannels_, dispatching,
                   freed>>

\* The last one returns: the pending functors run, until the next Poll.
EndDispatch ==
    /\ dispatching /\ rest = {}
    /\ undefined' = Dangling(currentActiveChannel_)
    /\ currentActiveChannel_' = NoChannel
    /\ dispatching' = FALSE
    /\ UNCHANGED <<pollfds_, channels_, chanVars, activeChannels_, rest, freed>>

-----------------------------------------------------------------------------

\* Nothing is said of the program after it used a destroyed channel.
Next ==
    /\ ~undefined
    /\ \/ \E c \in Channels :
             \/ \E fd \in Fds : NewChannel(c, fd)
             \/ Release(c) \/ Delete(c)
             \/ enableReading(c) \/ enableWriting(c) \/ disableAll(c)
             \/ RemoveChannel(c)
       \/ Poll \/ HandleEvent \/ EndDispatch

Spec == Init /\ [][Next]_vars

-----------------------------------------------------------------------------

TypeOK ==
    /\ pollfds_ \in Seq([fd : Fds, events : SUBSET Events])
    /\ DOMAIN channels_ \subseteq Fds
    /\ \A f \in DOMAIN channels_ : channels_[f] \in Channels
    /\ fd_ \in [Channels -> Fds]
    /\ events_ \in [Channels -> SUBSET Events]
    /\ index_ \in [Channels -> Int]
    /\ life \in [Channels -> Lives]
    /\ activeChannels_ \subseteq Channels /\ rest \subseteq Channels
    /\ currentActiveChannel_ \in Channels \cup {NoChannel}
    /\ dispatching \in BOOLEAN
    /\ freed \subseteq Channels /\ undefined \in BOOLEAN

(* The array and the channels agree, whatever was added, moved by the      *)
(* removal of another channel, or removed twice: the entry at its index_   *)
(* is the channel's own, with the events it asked for, and it has no other *)
(* one; there is no entry without a channel.                               *)
IndexesAgree ==
    /\ \A c \in Added :
          /\ index_[c] \in 0 .. Len(pollfds_) - 1
          /\ pollfds_[index_[c] + 1] = [fd |-> fd_[c], events |-> events_[c]]
    /\ \A i \in DOMAIN pollfds_ :
          \E c \in Added : index_[c] = i - 1
    /\ \A c, d \in Added : c # d => fd_[c] # fd_[d] /\ index_[c] # index_[d]

(* channels_ is exactly the registered channels, by their descriptors: the *)
(* assert in fillActiveChannels() never fails, and no freed or removed     *)
(* channel can be found.                                                   *)
MapAgrees ==
    /\ DOMAIN channels_ = {fd_[c] : c \in Added}
    /\ \A c \in Added : channels_[fd_[c]] = c

(* After any sequence of updateChannel() and removeChannel(), the array,   *)
(* the map and the channels' own indexes describe the same registrations.  *)
RegistrationAgrees == IndexesAgree /\ MapAgrees

(* The loop keeps bare pointers to the channels ::poll reported.  It uses  *)
(* a destroyed one only if a handler of the same dispatch destroyed a      *)
(* channel that was reported and whose own turn was not over; and then it  *)
(* always does, before the dispatch ends.  Removing such a channel without *)
(* destroying it, destroying one that was not reported or that has had its *)
(* turn, and everything the pending functors do, is safe.                  *)
DispatchSafe ==
    /\ undefined => freed # {}
    /\ ~dispatching => (freed # {} => undefined)

-----------------------------------------------------------------------------

\* Poller as a map from channels to events.
IS == INSTANCE InterestSet
        WITH wanted   <- events_,
             interest <- [c \in {channels_[f] : f \in DOMAIN channels_} |->
                             pollfds_[index_[c] + 1].events]

(* Registering, changing or removing a channel changes what that channel   *)
(* is polled for, to what it asked for, and nothing about any other one.   *)
RefinesInterestSet == IS!Spec
=============================================================================
