---------------------------- MODULE PollerProofs ----------------------------
(***************************************************************************)
(* Proofs about Poller, for any number of channels and descriptors.        *)
(***************************************************************************)
EXTENDS Poller, SequenceTheorems, TLAPS

\* No two channels that still own their descriptor own the same one.
Owning == {"fresh", "added", "removed"}
FdsDistinct ==
    \A c, d \in Channels :
        c # d /\ life[c] \in Owning /\ life[d] \in Owning => fd_[c] # fd_[d]

\* index_ < 0 is how updateChannel() recognises a channel not yet added.
FreshIndex ==
    \A c \in Channels : life[c] = "fresh" => index_[c] = -1

\* Nothing is pending outside a dispatch; a pending channel that is gone was
\* destroyed while it was pending; and as long as the loop has not run into
\* one, the channels so destroyed are all still pending.
DispatchOK ==
    /\ ~dispatching => rest = {} /\ currentActiveChannel_ = NoChannel
    /\ \A c \in Pending : life[c] = "none" => c \in freed
    /\ freed \subseteq Pending \/ undefined
    /\ freed # {} \/ ~undefined

Inv ==
    /\ TypeOK /\ FdsDistinct /\ FreshIndex /\ DispatchOK
    /\ IndexesAgree /\ MapAgrees

Entry == [fd : Fds, events : SUBSET Events]

-----------------------------------------------------------------------------

LEMMA InitInv ==
    ASSUME Init PROVE Inv
<1> USE NoChannelAssumption DEF Init
<1>1. TypeOK
  <2>1. pollfds_ \in Seq([fd : Fds, events : SUBSET Events])
    OBVIOUS
  <2>2. DOMAIN channels_ = {}
    OBVIOUS
  <2>3. index_ \in [Channels -> Int] /\ life \in [Channels -> Lives]
        /\ events_ \in [Channels -> SUBSET Events]
    BY DEF Lives
  <2>4. /\ activeChannels_ \subseteq Channels /\ rest \subseteq Channels
        /\ dispatching \in BOOLEAN
        /\ currentActiveChannel_ \in Channels \cup {NoChannel}
        /\ freed \subseteq Channels /\ undefined \in BOOLEAN
    OBVIOUS
  <2>5. fd_ \in [Channels -> Fds]
    OBVIOUS
  <2> HIDE DEF Init
  <2> QED BY <2>1, <2>2, <2>3, <2>4, <2>5 DEF TypeOK
<1>2. Added = {} /\ FdsDistinct /\ FreshIndex
  BY DEF Added, FdsDistinct, Owning, FreshIndex
<1>3. IndexesAgree /\ MapAgrees
  BY <1>2 DEF IndexesAgree, MapAgrees
<1>4. DispatchOK
  BY DEF DispatchOK, Pending
<1> QED BY <1>1, <1>2, <1>3, <1>4 DEF Inv

\* A step outside the dispatch loop that destroys nothing keeps DispatchOK.
LEMMA NothingDestroyed ==
    ASSUME Inv, UNCHANGED <<dispatchVars, ubVars>>,
           \A d \in Channels : life'[d] = "none" => life[d] = "none"
    PROVE  DispatchOK'
<1>1. Pending' = Pending /\ Pending \subseteq Channels
  BY DEF Pending, dispatchVars
<1> QED BY <1>1 DEF Inv, DispatchOK, dispatchVars, ubVars

\* A step that touches only a channel c which is not registered, before or
\* after, leaves the array and the map in agreement.
LEMMA OutsideStep ==
    ASSUME Inv, NEW c \in Channels, life[c] # "added", life'[c] # "added",
           UNCHANGED <<pollfds_, channels_>>, life' \in [Channels -> Lives],
           \A d \in Channels : d # c =>
              /\ fd_'[d] = fd_[d] /\ events_'[d] = events_[d]
              /\ index_'[d] = index_[d] /\ life'[d] = life[d]
    PROVE  IndexesAgree' /\ MapAgrees'
<1>1. Added' = Added /\ c \notin Added
  BY DEF Added
<1>2. \A d \in Added : /\ fd_'[d] = fd_[d] /\ events_'[d] = events_[d]
                       /\ index_'[d] = index_[d]
  BY <1>1 DEF Added
<1>3. IndexesAgree'
  BY <1>1, <1>2 DEF Inv, IndexesAgree
<1>4. MapAgrees'
  BY <1>1, <1>2 DEF Inv, MapAgrees
<1> QED BY <1>3, <1>4

LEMMA NewChannelStep ==
    ASSUME Inv, NEW c \in Channels, NEW fd \in Fds, NewChannel(c, fd)
    PROVE  Inv'
<1> USE DEF NewChannel, TypeOK, Lives
<1>1. TypeOK'
  BY DEF Inv, dispatchVars, ubVars
<1>2. FdsDistinct' /\ FreshIndex'
  BY DEF Inv, FdsDistinct, FreshIndex, Owning
<1>3. DispatchOK'
  <2>1. \A d \in Channels : life'[d] = "none" => life[d] = "none"
    BY DEF Inv
  <2> QED BY <2>1, NothingDestroyed
<1>4. IndexesAgree' /\ MapAgrees'
  <2>1. \A d \in Channels : d # c =>
              /\ fd_'[d] = fd_[d] /\ events_'[d] = events_[d]
              /\ index_'[d] = index_[d] /\ life'[d] = life[d]
    BY DEF Inv
  <2>2. life[c] # "added" /\ life'[c] # "added"
    BY DEF Inv
  <2> QED BY <1>1, <2>1, <2>2, OutsideStep
<1> QED BY <1>1, <1>2, <1>3, <1>4 DEF Inv

LEMMA ReleaseDeleteStep ==
    ASSUME Inv, NEW c \in Channels, Release(c) \/ Delete(c)
    PROVE  Inv'
<1> USE DEF Release, Delete, TypeOK, Lives
<1>1. TypeOK'
  <2>1. CASE Release(c)
    BY <2>1 DEF Inv, dispatchVars, ubVars
  <2>2. CASE Delete(c)
    <3>1. /\ freed' \subseteq Channels /\ index_' \in [Channels -> Int]
          /\ events_' \in [Channels -> SUBSET Events]
          /\ life' \in [Channels -> Lives]
      BY <2>2 DEF Inv, Pending
    <3> QED BY <2>2, <3>1 DEF Inv, dispatchVars
  <2> QED BY <2>1, <2>2
<1>2. FdsDistinct' /\ FreshIndex'
  BY DEF Inv, FdsDistinct, FreshIndex, Owning
<1>3. DispatchOK'
  <2>1. CASE Release(c)
    <3>1. \A d \in Channels : life'[d] = "none" => life[d] = "none"
      BY <2>1 DEF Inv
    <3> QED BY <2>1, <3>1, NothingDestroyed
  <2>2. CASE Delete(c)
    <3>1. Pending' = Pending /\ freed' = freed \cup ({c} \cap Pending)
      BY <2>2 DEF Pending, dispatchVars
    <3>2. \A d \in Channels : life'[d] = "none" => d = c \/ life[d] = "none"
      BY <2>2 DEF Inv
    <3>3. \A d \in Pending : life'[d] = "none" => d \in freed'
      BY <3>1, <3>2 DEF Inv, DispatchOK, Pending
    <3> QED BY <2>2, <3>1, <3>3 DEF Inv, DispatchOK, dispatchVars
  <2> QED BY <2>1, <2>2
<1>4. IndexesAgree' /\ MapAgrees'
  <2>1. \A d \in Channels : d # c =>
              /\ fd_'[d] = fd_[d] /\ events_'[d] = events_[d]
              /\ index_'[d] = index_[d] /\ life'[d] = life[d]
    BY DEF Inv
  <2>2. life[c] # "added" /\ life'[c] # "added"
    BY DEF Inv
  <2> QED BY <1>1, <2>1, <2>2, OutsideStep
<1> QED BY <1>1, <1>2, <1>3, <1>4 DEF Inv

LEMMA PollStep ==
    ASSUME Inv, ~undefined, Poll \/ HandleEvent \/ EndDispatch
    PROVE  Inv'
<1> USE NoChannelAssumption DEF Inv, TypeOK, chanVars
<1>1. UNCHANGED <<pollfds_, channels_, chanVars>> /\ Added' = Added
  BY DEF Poll, HandleEvent, EndDispatch, Added
<1>2. \A f \in PolledFds : f \in DOMAIN channels_ /\ channels_[f] \in Added
  <2> SUFFICES ASSUME NEW i \in DOMAIN pollfds_
               PROVE  /\ pollfds_[i].fd \in DOMAIN channels_
                      /\ channels_[pollfds_[i].fd] \in Added
    BY DEF PolledFds
  <2>1. PICK c \in Added : index_[c] = i - 1
    BY DEF IndexesAgree
  <2>2. pollfds_[i].fd = fd_[c]
    <3>1. i \in Int /\ i - 1 + 1 = i
      OBVIOUS
    <3>2. pollfds_[index_[c] + 1] = [fd |-> fd_[c], events |-> events_[c]]
      BY DEF IndexesAgree
    <3> QED BY <2>1, <3>1, <3>2
  <2> QED BY <2>2 DEF MapAgrees
<1>3. TypeOK' /\ DispatchOK'
  <2>1. CASE Poll
    <3>1. activeChannels_' \subseteq Added /\ rest' = activeChannels_'
      BY <1>2, <2>1 DEF Poll
    <3>2. freed = {} /\ freed' = {} /\ undefined' = undefined
      BY <2>1 DEF Poll, DispatchOK, Pending, ubVars
    <3>3. \A c \in Pending' : life'[c] # "none"
      BY <1>1, <2>1, <3>1 DEF Poll, DispatchOK, Pending, Added
    <3>4. TypeOK'
      BY <1>1, <2>1, <3>1, <3>2 DEF Poll, Added
    <3> QED BY <2>1, <3>2, <3>3, <3>4 DEF Poll, DispatchOK
  <2>2. CASE HandleEvent
    <3>1. PICK c \in rest :
             /\ currentActiveChannel_' = c /\ rest' = rest \ {c}
             /\ undefined' = (Dangling(currentActiveChannel_) \/ Dangling(c))
      BY <2>2 DEF HandleEvent
    <3>2. freed' = freed /\ dispatching' = dispatching /\ dispatching
      BY <2>2 DEF HandleEvent
    <3>3. Pending' = rest /\ Pending' \subseteq Pending
      BY <3>1 DEF Pending
    <3>4. \A d \in Pending : Dangling(d) => d \in freed
      BY DEF DispatchOK, Dangling
    <3>5. Dangling(currentActiveChannel_) => currentActiveChannel_ \in freed
      BY <3>4 DEF Dangling, Pending
    <3>6. freed # {} \/ ~undefined'
      BY <3>1, <3>4, <3>5 DEF Pending
    <3>7. freed \subseteq Pending' \/ undefined'
      <4>1. CASE currentActiveChannel_ \in freed
        BY <3>1, <4>1 DEF Dangling
      <4>2. CASE currentActiveChannel_ \notin freed
        BY <3>3, <4>2 DEF DispatchOK, Pending
      <4> QED BY <4>1, <4>2
    <3>8. TypeOK'
      BY <1>1, <2>2, <3>1, <3>2 DEF HandleEvent
    <3> QED BY <1>1, <3>2, <3>3, <3>6, <3>7, <3>8 DEF DispatchOK
  <2>3. CASE EndDispatch
    <3>1. /\ rest' = {} /\ rest = {} /\ currentActiveChannel_' = NoChannel
          /\ freed' = freed
          /\ undefined' = Dangling(currentActiveChannel_)
      BY <2>3 DEF EndDispatch
    <3>2. Pending' = {}
      BY <3>1 DEF Pending
    <3>3. Pending \subseteq {currentActiveChannel_}
      BY <3>1 DEF Pending
    <3>4. Dangling(currentActiveChannel_) => currentActiveChannel_ \in freed
      BY DEF Dangling, DispatchOK, Pending
    <3>5. freed = {} \/ Dangling(currentActiveChannel_)
      BY <3>3 DEF DispatchOK, Dangling
    <3>6. TypeOK'
      <4>1. undefined' \in BOOLEAN
        BY <3>1 DEF Dangling
      <4> QED BY <1>1, <2>3, <3>1, <4>1 DEF EndDispatch
    <3> QED BY <3>1, <3>2, <3>4, <3>5, <3>6 DEF DispatchOK
  <2> QED BY <2>1, <2>2, <2>3
<1>4. FdsDistinct' /\ FreshIndex'
  BY <1>1 DEF FdsDistinct, FreshIndex
<1>5. IndexesAgree' /\ MapAgrees'
  BY <1>1 DEF IndexesAgree, MapAgrees, Added
<1> QED BY <1>3, <1>4, <1>5

-----------------------------------------------------------------------------
\* What IndexesAgree says, spelled out for the array's arithmetic.
LEMMA AddedFacts ==
    ASSUME Inv
    PROVE  /\ Len(pollfds_) \in Nat /\ DOMAIN pollfds_ = 1 .. Len(pollfds_)
           /\ pollfds_ \in Seq(Entry)
           /\ \A d \in Added :
                 /\ d \in Channels /\ life[d] = "added"
                 /\ index_[d] \in Int /\ index_[d] >= 0
                 /\ index_[d] + 1 \in 1 .. Len(pollfds_)
                 /\ pollfds_[index_[d] + 1]
                      = [fd |-> fd_[d], events |-> events_[d]]
           /\ \A i \in 1 .. Len(pollfds_) : \E d \in Added : index_[d] + 1 = i
           /\ \A b, d \in Added :
                 b # d => fd_[b] # fd_[d] /\ index_[b] # index_[d]
<1>1. /\ Len(pollfds_) \in Nat /\ DOMAIN pollfds_ = 1 .. Len(pollfds_)
      /\ pollfds_ \in Seq(Entry)
  BY DEF Inv, TypeOK, Entry
<1>2. \A d \in Added : d \in Channels /\ life[d] = "added"
  BY DEF Added
<1>3. ASSUME NEW d \in Added
      PROVE  /\ index_[d] \in Int /\ index_[d] >= 0
             /\ index_[d] + 1 \in 1 .. Len(pollfds_)
             /\ pollfds_[index_[d] + 1]
                  = [fd |-> fd_[d], events |-> events_[d]]
  <2>1. index_[d] \in 0 .. Len(pollfds_) - 1
    BY DEF Inv, IndexesAgree
  <2> QED BY <1>1, <2>1 DEF Inv, IndexesAgree
<1>4. ASSUME NEW i \in 1 .. Len(pollfds_)
      PROVE  \E d \in Added : index_[d] + 1 = i
  <2>1. PICK d \in Added : index_[d] = i - 1
    BY <1>1 DEF Inv, IndexesAgree
  <2> QED BY <1>1, <1>3, <2>1
<1>5. \A b, d \in Added : b # d => fd_[b] # fd_[d] /\ index_[b] # index_[d]
  BY DEF Inv, IndexesAgree
<1> QED BY <1>1, <1>2, <1>3, <1>4, <1>5

\* updateChannel().

LEMMA AddEntryStep ==
    ASSUME Inv, NEW c \in Channels, NEW e \in SUBSET Events,
           UpdateChannel(c, e), AddEntry(c, e)
    PROVE  /\ Inv' /\ Added' = Added \cup {c} /\ c \notin Added
           /\ index_'[c] = Len(pollfds_)
           /\ \A d \in Added : index_'[d] = index_[d]
           /\ \A i \in 1 .. Len(pollfds_) : pollfds_'[i] = pollfds_[i]
<1> DEFINE entry == [fd |-> fd_[c], events |-> e]
           n == Len(pollfds_)
<1>1. /\ n \in Nat /\ entry \in Entry /\ pollfds_' = Append(pollfds_, entry)
      /\ pollfds_ \in Seq(Entry)
  BY DEF Inv, TypeOK, Entry, AddEntry
<1>2. /\ pollfds_' \in Seq(Entry) /\ Len(pollfds_') = n + 1
      /\ pollfds_'[n + 1] = entry
      /\ \A i \in 1 .. n : pollfds_'[i] = pollfds_[i]
  BY <1>1
<1>3. c \notin Added /\ life[c] = "fresh"
  <2>1. index_[c] < 0
    BY DEF AddEntry
  <2>2. ASSUME c \in Added PROVE FALSE
    <3>1. index_[c] \in Int /\ index_[c] >= 0
      BY <2>2, AddedFacts
    <3> QED BY <2>1, <3>1
  <2> QED BY <2>2 DEF UpdateChannel, Added
<1>4. Added' = Added \cup {c}
  BY DEF Inv, TypeOK, UpdateChannel, Added
<1>5. /\ index_'[c] = n
      /\ \A d \in Channels : d # c => index_'[d] = index_[d]
      /\ events_'[c] = e
      /\ \A d \in Channels : d # c => events_'[d] = events_[d]
      /\ fd_' = fd_
  BY DEF Inv, TypeOK, UpdateChannel, AddEntry
<1>6. TypeOK'
  <2>1. pollfds_' \in Seq([fd : Fds, events : SUBSET Events])
    BY <1>2 DEF Entry
  <2>2. /\ DOMAIN channels_' \subseteq Fds
        /\ \A f \in DOMAIN channels_' : channels_'[f] \in Channels
    BY DEF Inv, TypeOK, AddEntry
  <2>3. index_' \in [Channels -> Int]
    BY <1>1 DEF Inv, TypeOK, AddEntry
  <2> QED BY <2>1, <2>2, <2>3
      DEF Inv, TypeOK, UpdateChannel, dispatchVars, ubVars, Lives
<1>7. FdsDistinct' /\ FreshIndex'
  BY <1>3, <1>5 DEF Inv, TypeOK, FdsDistinct, FreshIndex, Owning, UpdateChannel
<1>8. DispatchOK'
  <2>1. \A d \in Channels : life'[d] = "none" => life[d] = "none"
    BY <1>3 DEF Inv, TypeOK, UpdateChannel
  <2> QED BY <2>1, NothingDestroyed DEF UpdateChannel
<1>9. IndexesAgree'
  <2> USE <1>4 DEF Inv, IndexesAgree
  <2>1. \A d \in Added : d # c /\ d \in Channels /\ index_[d] \in 0 .. n - 1
    BY <1>3 DEF Added
  <2>2. ASSUME NEW d \in Added'
        PROVE  /\ index_'[d] \in 0 .. Len(pollfds_') - 1
               /\ pollfds_'[index_'[d] + 1]
                    = [fd |-> fd_'[d], events |-> events_'[d]]
    <3>1. CASE d = c
      BY <3>1, <1>1, <1>2, <1>5
    <3>2. CASE d # c
      <4>1. d \in Added /\ index_'[d] = index_[d] /\ index_[d] + 1 \in 1 .. n
        BY <3>2, <2>1, <1>1, <1>5
      <4>2. pollfds_'[index_[d] + 1] = pollfds_[index_[d] + 1]
        BY <4>1, <1>2
      <4>3. events_'[d] = events_[d] /\ fd_'[d] = fd_[d]
        BY <3>2, <2>1, <4>1, <1>5
      <4>4. index_'[d] \in 0 .. Len(pollfds_') - 1
        BY <4>1, <2>1, <1>1, <1>2
      <4> QED BY <4>1, <4>2, <4>3, <4>4
    <3> QED BY <3>1, <3>2
  <2>3. ASSUME NEW i \in DOMAIN pollfds_'
        PROVE  \E d \in Added' : index_'[d] = i - 1
    <3>1. i \in 1 .. n + 1
      BY <1>2
    <3>2. CASE i = n + 1
      BY <3>2, <1>1, <1>5
    <3>3. CASE i # n + 1
      <4>1. i \in DOMAIN pollfds_
        BY <3>1, <3>3, <1>1
      <4>2. PICK d \in Added : index_[d] = i - 1
        BY <4>1
      <4> QED BY <4>2, <2>1, <1>5
    <3> QED BY <3>2, <3>3
  <2>4. \A b, d \in Added' :
           b # d => fd_'[b] # fd_'[d] /\ index_'[b] # index_'[d]
    BY <2>1, <1>1, <1>3, <1>5 DEF FdsDistinct, Owning, Added
  <2> QED BY <2>2, <2>3, <2>4
<1>10. MapAgrees'
  <2>1. \A d \in Added : fd_[d] # fd_[c] /\ d \in Channels
    BY <1>3 DEF Inv, FdsDistinct, Owning, Added
  <2> QED BY <1>4, <1>5, <2>1 DEF Inv, MapAgrees, AddEntry
<1> QED
  BY <1>2, <1>3, <1>4, <1>5, <1>6, <1>7, <1>8, <1>9, <1>10 DEF Inv, Added

LEMMA SetEntryStep ==
    ASSUME Inv, NEW c \in Channels, NEW e \in SUBSET Events,
           UpdateChannel(c, e), SetEntry(c, e)
    PROVE  /\ Inv' /\ Added' = Added /\ c \in Added
           /\ \A d \in Added :
                 pollfds_'[index_[d] + 1].events =
                    IF d = c THEN e ELSE pollfds_[index_[d] + 1].events
<1> DEFINE entry == [fd |-> fd_[c], events |-> e]
           n == Len(pollfds_)
           k == index_[c] + 1
<1>1. life[c] = "added" /\ c \in Added
  BY DEF Inv, FreshIndex, UpdateChannel, SetEntry, Added
<1>2. /\ n \in Nat /\ entry \in Entry /\ k \in 1 .. n
      /\ pollfds_' = [pollfds_ EXCEPT ![k] = entry] /\ pollfds_ \in Seq(Entry)
  BY <1>1, AddedFacts DEF Inv, TypeOK, Entry, SetEntry
<1>3. /\ pollfds_' \in Seq(Entry) /\ Len(pollfds_') = n
      /\ \A i \in 1 .. n :
            pollfds_'[i] = IF i = k THEN entry ELSE pollfds_[i]
  BY <1>2
<1>4. Added' = Added /\ UNCHANGED <<life, fd_, index_, channels_, dispatchVars, ubVars>>
  BY <1>1 DEF Inv, TypeOK, UpdateChannel, SetEntry, Added
<1>5. \A d \in Channels : events_'[d] = IF d = c THEN e ELSE events_[d]
  BY DEF Inv, TypeOK, UpdateChannel
<1>6. TypeOK'
  <2>1. pollfds_' \in Seq([fd : Fds, events : SUBSET Events])
    BY <1>3 DEF Entry
  <2> QED BY <2>1, <1>4 DEF Inv, TypeOK, UpdateChannel, dispatchVars, ubVars
<1>7. FdsDistinct' /\ FreshIndex' /\ DispatchOK' /\ MapAgrees'
  <2>1. DispatchOK'
    BY <1>4, NothingDestroyed
  <2> QED BY <1>4, <2>1 DEF Inv, FdsDistinct, FreshIndex, MapAgrees
<1>8. \A d \in Added : /\ index_[d] + 1 \in 1 .. n /\ d \in Channels
                       /\ index_[d] + 1 = k <=> d = c
  <2> SUFFICES ASSUME NEW d \in Added
               PROVE  /\ index_[d] + 1 \in 1 .. n /\ d \in Channels
                      /\ index_[d] + 1 = k <=> d = c
    OBVIOUS
  <2>1. /\ index_[d] + 1 \in 1 .. n /\ d \in Channels
        /\ index_[d] \in Int /\ index_[c] \in Int
        /\ d # c => index_[d] # index_[c]
    BY <1>1, AddedFacts
  <2> QED BY <2>1
<1>9. IndexesAgree'
  <2>1. \A d \in Added : pollfds_'[index_[d] + 1]
                           = [fd |-> fd_[d], events |-> events_'[d]]
    BY <1>3, <1>5, <1>8 DEF Inv, IndexesAgree
  <2> QED BY <1>2, <1>3, <1>4, <2>1 DEF Inv, IndexesAgree
<1> QED BY <1>1, <1>3, <1>4, <1>6, <1>7, <1>8, <1>9 DEF Inv

-----------------------------------------------------------------------------
\* removeChannel().

\* Moving the last element of a sequence to place k and dropping the end.
LEMMA FilledSeq ==
    ASSUME NEW S, NEW s \in Seq(S), NEW k \in 1 .. Len(s)
    PROVE  LET t == SubSeq([s EXCEPT ![k] = s[Len(s)]], 1, Len(s) - 1)
           IN  /\ t \in Seq(S) /\ Len(t) = Len(s) - 1
               /\ \A i \in 1 .. Len(s) - 1 :
                     t[i] = IF i = k THEN s[Len(s)] ELSE s[i]
<1> DEFINE u == [s EXCEPT ![k] = s[Len(s)]]
<1>1. /\ u \in Seq(S) /\ Len(u) = Len(s) /\ Len(s) \in Nat \ {0}
      /\ \A i \in 1 .. Len(s) : u[i] = IF i = k THEN s[Len(s)] ELSE s[i]
  OBVIOUS
<1> HIDE DEF u
<1>2. /\ SubSeq(u, 1, Len(s) - 1) \in Seq(S)
      /\ Len(SubSeq(u, 1, Len(s) - 1)) = Len(s) - 1
      /\ \A i \in 1 .. Len(s) - 1 : SubSeq(u, 1, Len(s) - 1)[i] = u[i]
  BY <1>1
<1> QED BY <1>1, <1>2 DEF u

\* A second remove() finds nothing: no other channel has its descriptor.
LEMMA RemovedNotFound ==
    ASSUME Inv, NEW c \in Channels,
           life[c] \in {"added", "removed"}
    PROVE  c \in Added <=> fd_[c] \in DOMAIN channels_
<1>1. ASSUME fd_[c] \in DOMAIN channels_ PROVE c \in Added
  <2>1. PICK b \in Added : fd_[b] = fd_[c]
    BY <1>1 DEF Inv, MapAgrees
  <2>2. b = c
    BY <2>1 DEF Inv, FdsDistinct, Owning, Added
  <2> QED BY <2>2
<1>2. ASSUME c \in Added PROVE fd_[c] \in DOMAIN channels_
  BY <1>2 DEF Inv, MapAgrees
<1> QED BY <1>1, <1>2

\* Where the entries of the other channels are after a removal.
LEMMA RemovedEntries ==
    ASSUME Inv, NEW c \in Channels, RemoveChannel(c), c \in Added
    PROVE  /\ Added' = Added \ {c}
           /\ pollfds_' \in Seq(Entry) /\ Len(pollfds_') = Len(pollfds_) - 1
           /\ index_' \in [Channels -> Int]
           /\ DOMAIN channels_' = DOMAIN channels_ \ {fd_[c]}
           /\ \A f \in DOMAIN channels_' : channels_'[f] = channels_[f]
           /\ \A d \in Added' :
                 /\ index_'[d] \in 0 .. Len(pollfds_') - 1
                 /\ pollfds_'[index_'[d] + 1] = pollfds_[index_[d] + 1]
                 /\ index_'[d] = index_[d] \/ index_'[d] = index_[c]
           /\ \A b, d \in Added' : b # d => index_'[b] # index_'[d]
           /\ \A i \in 1 .. Len(pollfds_') :
                 \E d \in Added' : index_'[d] = i - 1
<1> DEFINE n == Len(pollfds_)
           k == index_[c] + 1
<1>1. /\ n \in Nat /\ n >= 1 /\ k \in 1 .. n /\ pollfds_ \in Seq(Entry)
      /\ index_[c] \in Int /\ k - 1 = index_[c]
  <2>1. /\ n \in Nat /\ k \in 1 .. n /\ pollfds_ \in Seq(Entry)
        /\ index_[c] \in Int
    BY AddedFacts
  <2> QED BY <2>1
<1>2. /\ channels_' = Erased(index_[c]) /\ pollfds_' = Filled(index_[c])
      /\ index_' = Reindexed(index_[c])
  BY RemovedNotFound DEF RemoveChannel
<1>3. Added' = Added \ {c}
  BY DEF RemoveChannel, Inv, TypeOK, Added
<1>4. PICK l \in Added : index_[l] + 1 = n
  BY <1>1, AddedFacts
<1>5. /\ l \in Channels /\ index_[l] \in Int
      /\ pollfds_[n].fd = fd_[l] /\ channels_[pollfds_[n].fd] = l
  <2>1. /\ l \in Channels /\ index_[l] \in Int
        /\ pollfds_[index_[l] + 1] = [fd |-> fd_[l], events |-> events_[l]]
    BY AddedFacts
  <2> QED BY <1>4, <2>1 DEF Inv, MapAgrees
<1>6. pollfds_[k].fd = fd_[c]
  <2>1. pollfds_[k] = [fd |-> fd_[c], events |-> events_[c]]
    BY AddedFacts
  <2> QED BY <2>1
<1>7. /\ pollfds_' \in Seq(Entry) /\ Len(pollfds_') = n - 1
      /\ \A i \in 1 .. n - 1 :
            pollfds_'[i] = IF i = k THEN pollfds_[n] ELSE pollfds_[i]
  BY <1>1, <1>2, FilledSeq DEF Filled
<1>8. /\ DOMAIN channels_' = DOMAIN channels_ \ {fd_[c]}
      /\ \A f \in DOMAIN channels_' : channels_'[f] = channels_[f]
  BY <1>2, <1>6 DEF Erased, Restrict
<1>9. index_' = IF k = n THEN index_ ELSE [index_ EXCEPT ![l] = k - 1]
  <2>1. index_[c] = n - 1 <=> k = n
    BY <1>1
  <2>2. index_' = IF index_[c] = n - 1 THEN index_
                  ELSE [index_ EXCEPT ![l] = index_[c]]
    BY <1>2, <1>5 DEF Reindexed
  <2> QED BY <1>1, <2>1, <2>2
<1>10. k = n <=> l = c
  <2>1. l # c => index_[l] # index_[c]
    BY AddedFacts
  <2> QED BY <1>1, <1>4, <1>5, <2>1
<1>11. \A d \in Added' :
          /\ d \in Added /\ d # c
          /\ index_'[d] = IF d = l THEN k - 1 ELSE index_[d]
  <2> SUFFICES ASSUME NEW d \in Added'
               PROVE  index_'[d] = IF d = l THEN k - 1 ELSE index_[d]
    BY <1>3
  <2>1. d \in Channels /\ d # c /\ index_ \in [Channels -> Int]
    BY <1>3 DEF Added, Inv, TypeOK
  <2> QED BY <1>9, <1>10, <2>1
<1>12. \A d \in Added' : d # l => index_[d] + 1 \in 1 .. n - 1
                                /\ index_[d] + 1 # k /\ index_[d] \in Int
  <2> SUFFICES ASSUME NEW d \in Added', d # l
               PROVE  index_[d] + 1 \in 1 .. n - 1
                      /\ index_[d] + 1 # k /\ index_[d] \in Int
    OBVIOUS
  <2>1. d \in Added /\ d # c
    BY <1>11
  <2>2. /\ index_[d] \in Int /\ index_[d] + 1 \in 1 .. n
        /\ index_[d] # index_[c] /\ index_[d] # index_[l]
    BY <2>1, AddedFacts
  <2> QED BY <1>1, <1>4, <1>5, <2>2
<1>13. ASSUME NEW d \in Added'
       PROVE  /\ index_'[d] \in 0 .. Len(pollfds_') - 1
              /\ pollfds_'[index_'[d] + 1] = pollfds_[index_[d] + 1]
              /\ index_'[d] = index_[d] \/ index_'[d] = index_[c]
  <2>1. CASE d = l
    <3>1. k \in 1 .. n - 1 /\ index_'[d] = k - 1
      BY <2>1, <1>1, <1>10, <1>11
    <3>2. k - 1 = index_[c] /\ k - 1 + 1 = k /\ k - 1 \in 0 .. n - 2
      BY <1>1, <3>1
    <3>3. pollfds_'[k] = pollfds_[n]
      BY <3>1, <1>7
    <3>4. index_'[d] + 1 = k /\ index_[d] + 1 = n
      BY <2>1, <3>1, <3>2, <1>4
    <3>5. index_'[d] = index_[c] /\ index_'[d] \in 0 .. Len(pollfds_') - 1
      BY <3>1, <3>2, <1>1, <1>7
    <3> QED BY <3>3, <3>4, <3>5
  <2>2. CASE d # l
    <3>1. index_[d] + 1 \in 1 .. n - 1 /\ index_[d] + 1 # k
          /\ index_[d] \in Int /\ index_'[d] = index_[d]
      BY <2>2, <1>11, <1>12
    <3>2. pollfds_'[index_[d] + 1] = pollfds_[index_[d] + 1]
      BY <3>1, <1>7
    <3>3. index_[d] \in 0 .. n - 2
      BY <3>1, <1>1
    <3> QED BY <3>1, <3>2, <3>3, <1>1, <1>7
  <2> QED BY <2>1, <2>2
<1>14. ASSUME NEW b \in Added', NEW d \in Added', b # d
       PROVE  index_'[b] # index_'[d]
  <2>1. b # l /\ d # l => index_[b] # index_[d]
    BY <1>11, <1>14, AddedFacts
  <2> QED BY <2>1, <1>1, <1>11, <1>12, <1>14
<1>15. ASSUME NEW i \in 1 .. Len(pollfds_')
       PROVE  \E d \in Added' : index_'[d] = i - 1
  <2>1. i \in 1 .. n - 1
    BY <1>7
  <2>2. CASE i = k
    <3>1. l \in Added'
      BY <2>1, <2>2, <1>1, <1>3, <1>10
    <3> QED BY <2>2, <3>1, <1>11
  <2>3. CASE i # k
    <3>1. PICK d \in Added : index_[d] + 1 = i
      BY <2>1, <1>1, AddedFacts
    <3>2. index_[d] \in Int
      BY AddedFacts
    <3>3. d # c /\ d # l
      BY <2>1, <2>3, <3>1, <1>1, <1>4
    <3> QED BY <2>1, <3>1, <3>2, <3>3, <1>3, <1>11
  <2> QED BY <2>2, <2>3
<1>16. index_' \in [Channels -> Int]
  BY <1>1, <1>5, <1>9 DEF Inv, TypeOK
<1> HIDE DEF n, k
<1> QED BY <1>3, <1>7, <1>8, <1>13, <1>14, <1>15, <1>16 DEF n

LEMMA RemoveChannelStep ==
    ASSUME Inv, NEW c \in Channels, RemoveChannel(c)
    PROVE  Inv'
<1> USE DEF RemoveChannel
<1>1. fd_' = fd_ /\ events_' = events_
      /\ life' = [life EXCEPT ![c] = "removed"]
      /\ life[c] \in {"added", "removed"}
  OBVIOUS
<1>2. FdsDistinct'
  BY <1>1 DEF Inv, TypeOK, FdsDistinct, Owning
<1>3. DispatchOK' /\ UNCHANGED <<dispatchVars, ubVars>>
  <2>1. \A d \in Channels : life'[d] = "none" => life[d] = "none"
    BY <1>1 DEF Inv, TypeOK
  <2> QED BY <2>1, NothingDestroyed
<1>4. CASE c \notin Added
  <2>1. UNCHANGED <<pollfds_, channels_, index_>>
    BY <1>4, RemovedNotFound
  <2>2. life' = life /\ Added' = Added
    BY <1>1, <1>4 DEF Added, Inv, TypeOK
  <2>3. TypeOK' /\ FreshIndex'
    BY <1>1, <1>3, <2>1, <2>2
    DEF Inv, TypeOK, FreshIndex, dispatchVars, ubVars
  <2>4. IndexesAgree' /\ MapAgrees'
    BY <1>1, <2>1, <2>2 DEF Inv, IndexesAgree, MapAgrees
  <2> QED BY <1>2, <1>3, <2>3, <2>4 DEF Inv
<1>5. CASE c \in Added
  <2>1. /\ Added' = Added \ {c}
        /\ pollfds_' \in Seq(Entry)
        /\ index_' \in [Channels -> Int]
        /\ DOMAIN channels_' = DOMAIN channels_ \ {fd_[c]}
        /\ \A f \in DOMAIN channels_' : channels_'[f] = channels_[f]
    BY <1>5, RemovedEntries
  <2>2. TypeOK'
    <3>1. pollfds_' \in Seq([fd : Fds, events : SUBSET Events])
      BY <2>1 DEF Entry
    <3> QED BY <1>1, <1>3, <2>1, <3>1
        DEF Inv, TypeOK, Lives, dispatchVars, ubVars
  <2>3. FreshIndex'
    <3>1. \A d \in Channels : life[d] = "fresh" => index_'[d] = index_[d]
      <4>1. PICK l \in Added : index_[l] + 1 = Len(pollfds_)
        <5>1. Len(pollfds_) \in 1 .. Len(pollfds_)
          <6>1. Len(pollfds_) \in Nat /\ index_[c] + 1 \in 1 .. Len(pollfds_)
            BY <1>5, AddedFacts
          <6>2. index_[c] + 1 \in Int
            BY <6>1
          <6> QED BY <6>1, <6>2
        <5> QED BY <5>1, AddedFacts
      <4>2. channels_[pollfds_[Len(pollfds_)].fd] = l
        <5>1. pollfds_[index_[l] + 1] = [fd |-> fd_[l], events |-> events_[l]]
          BY AddedFacts
        <5> QED BY <4>1, <5>1 DEF Inv, MapAgrees
      <4>3. index_' = Reindexed(index_[c])
        BY <1>5, RemovedNotFound
      <4> QED BY <4>2, <4>3 DEF Reindexed, Added, Inv, TypeOK
    <3> QED BY <1>1, <3>1 DEF Inv, TypeOK, FreshIndex
  <2>4. MapAgrees'
    <3>1. \A d \in Added' : d \in Added /\ d \in Channels /\ fd_[d] # fd_[c]
      BY <2>1, <1>5, AddedFacts
    <3> QED BY <1>1, <1>5, <2>1, <3>1 DEF Inv, MapAgrees
  <2>5. IndexesAgree'
    <3>1. ASSUME NEW d \in Added'
          PROVE  /\ index_'[d] \in 0 .. Len(pollfds_') - 1
                 /\ pollfds_'[index_'[d] + 1]
                      = [fd |-> fd_'[d], events |-> events_'[d]]
      <4>1. d \in Added
        BY <2>1
      <4>2. /\ index_'[d] \in 0 .. Len(pollfds_') - 1
            /\ pollfds_'[index_'[d] + 1] = pollfds_[index_[d] + 1]
        BY <1>5, RemovedEntries
      <4>3. pollfds_[index_[d] + 1] = [fd |-> fd_[d], events |-> events_[d]]
        BY <4>1, AddedFacts
      <4> QED BY <1>1, <4>2, <4>3
    <3>2. \A i \in 1 .. Len(pollfds_') : \E d \in Added' : index_'[d] = i - 1
      BY <1>5, RemovedEntries
    <3>3. \A b, d \in Added' : b # d => index_'[b] # index_'[d]
      BY <1>5, RemovedEntries
    <3>4. \A b, d \in Added' : b # d => fd_'[b] # fd_'[d]
      BY <1>1, <2>1, AddedFacts
    <3>5. DOMAIN pollfds_' = 1 .. Len(pollfds_')
      BY <2>1
    <3> QED BY <3>1, <3>2, <3>3, <3>4, <3>5 DEF IndexesAgree
  <2> QED BY <1>2, <1>3, <2>2, <2>3, <2>4, <2>5 DEF Inv
<1> QED BY <1>4, <1>5

-----------------------------------------------------------------------------

LEMMA UpdateCases ==
    ASSUME NEW c \in Channels, Inv,
           enableReading(c) \/ enableWriting(c) \/ disableAll(c)
    PROVE  \E e \in SUBSET Events : UpdateChannel(c, e)
BY EventsAssumption
DEF enableReading, enableWriting, disableAll, Inv, TypeOK

LEMMA UpdateStep ==
    ASSUME Inv, NEW c \in Channels, NEW e \in SUBSET Events,
           UpdateChannel(c, e)
    PROVE  Inv' /\ Added' = Added \cup {c}
<1>1. AddEntry(c, e) \/ SetEntry(c, e)
  BY DEF UpdateChannel
<1> QED BY <1>1, AddEntryStep, SetEntryStep

LEMMA NextStep == Inv /\ [Next]_vars => Inv'
<1> SUFFICES ASSUME Inv, [Next]_vars PROVE Inv'
  OBVIOUS
<1>1. ASSUME NEW c \in Channels, NEW fd \in Fds, NewChannel(c, fd)
      PROVE  Inv'
  BY <1>1, NewChannelStep
<1>2. ASSUME NEW c \in Channels, Release(c) \/ Delete(c) PROVE Inv'
  BY <1>2, ReleaseDeleteStep
<1>3. ASSUME NEW c \in Channels,
             enableReading(c) \/ enableWriting(c) \/ disableAll(c)
      PROVE  Inv'
  BY <1>3, UpdateCases, UpdateStep
<1>4. ASSUME NEW c \in Channels, RemoveChannel(c) PROVE Inv'
  BY <1>4, RemoveChannelStep
<1>5. CASE ~undefined /\ (Poll \/ HandleEvent \/ EndDispatch)
  BY <1>5, PollStep
<1>6. CASE UNCHANGED vars
  <2> USE <1>6 DEF vars, chanVars, dispatchVars, ubVars, Inv
  <2>1. TypeOK' /\ FdsDistinct'
    BY DEF TypeOK, FdsDistinct, Owning
  <2>2. FreshIndex' /\ DispatchOK'
    BY DEF FreshIndex, DispatchOK, Pending
  <2>3. IndexesAgree' /\ MapAgrees'
    BY DEF IndexesAgree, MapAgrees, Added
  <2> QED BY <2>1, <2>2, <2>3
<1> QED BY <1>1, <1>2, <1>3, <1>4, <1>5, <1>6 DEF Next

(* Inv is inductive.                                                       *)
THEOREM Invariance == Spec => []Inv
BY InitInv, NextStep, PTL DEF Spec

(* However channels come and go, index_ always leads to the channel's own  *)
(* entry of the array, and channels_ leads back from the descriptor: the   *)
(* swap in removeChannel() and the early return of a second remove() are   *)
(* right for any number of channels.                                       *)
THEOREM RegistrationCorrect == Spec => []RegistrationAgrees
BY Invariance, PTL DEF Inv, RegistrationAgrees

(* Whatever the handlers and the functors do with channels, the loop uses  *)
(* a destroyed one exactly in the dispatches in which a handler destroyed  *)
(* a reported channel whose turn was not over.                             *)
THEOREM DispatchCorrect == Spec => []DispatchSafe
<1>1. ASSUME Inv PROVE DispatchSafe
  <2>1. ~dispatching => Pending = {}
    BY <1>1, NoChannelAssumption DEF Inv, DispatchOK, Pending
  <2> QED BY <1>1, <2>1 DEF Inv, DispatchOK, DispatchSafe
<1> QED BY <1>1, Invariance, PTL

\* Under Inv the interest map is what the registered channels asked for.
LEMMA InterestIsWanted ==
    ASSUME Inv
    PROVE  /\ {channels_[f] : f \in DOMAIN channels_} = Added
           /\ \A c \in Added : pollfds_[index_[c] + 1].events = events_[c]
<1>1. {channels_[f] : f \in DOMAIN channels_} = Added
  BY DEF Inv, MapAgrees
<1>2. ASSUME NEW c \in Added
      PROVE  pollfds_[index_[c] + 1].events = events_[c]
  <2>1. pollfds_[index_[c] + 1] = [fd |-> fd_[c], events |-> events_[c]]
    BY AddedFacts
  <2> QED BY <2>1
<1> QED BY <1>1, <1>2

(* Poller implements InterestSet: every operation changes what its own     *)
(* channel is polled for, to what that channel wants, and nothing else.    *)
THEOREM InterestRefinement == Spec => RefinesInterestSet
<1> DEFINE interest == [c \in {channels_[f] : f \in DOMAIN channels_} |->
                           pollfds_[index_[c] + 1].events]
           wanted == [c \in Added |-> events_[c]]
<1>1. Inv => interest = wanted
  BY InterestIsWanted
<1>2. Init => IS!Init
  <2> SUFFICES ASSUME Init PROVE IS!Init
    OBVIOUS
  <2>1. Inv /\ Added = {}
    BY InitInv DEF Init, Added
  <2>2. interest = << >>
    BY <1>1, <2>1
  <2>3. events_ \in [Channels -> SUBSET Events]
    BY <2>1 DEF Inv, TypeOK
  <2> QED BY <2>2, <2>3 DEF IS!Init
<1>3. Inv /\ [Next]_vars => [IS!Next]_(IS!vars)
  <2> SUFFICES ASSUME Inv, [Next]_vars
               PROVE  IS!Next \/ UNCHANGED <<events_, interest>>
    BY DEF IS!vars
  <2>1. Inv' /\ interest = wanted /\ interest' = wanted'
    <3>1. Inv'
      BY NextStep
    <3>2. (\A c \in Added : pollfds_[index_[c] + 1].events = events_[c])'
          /\ ({channels_[f] : f \in DOMAIN channels_} = Added)'
      BY <3>1, InterestIsWanted, PTL
    <3> QED BY <1>1, <3>1, <3>2
  <2>2. ASSUME NEW c \in Channels, NEW fd \in Fds, NewChannel(c, fd)
        PROVE  IS!Create(c)
    <3>1. c \notin Added /\ Added' = Added
          /\ \A d \in Added : events_'[d] = events_[d]
      BY <2>2 DEF NewChannel, Added, Inv, TypeOK
    <3>2. interest' = interest
      BY <2>1, <3>1
    <3> QED BY <2>1, <2>2, <3>1, <3>2 DEF NewChannel, IS!Create
  <2>3. ASSUME NEW c \in Channels, Release(c) \/ Delete(c)
        PROVE  IS!Create(c) \/ UNCHANGED <<events_, interest>>
    <3>1. CASE Release(c)
      BY <2>1, <3>1 DEF Release, Added, Inv, TypeOK
    <3>2. CASE Delete(c)
      <4>1. c \notin Added /\ Added' = Added
            /\ \A d \in Added : events_'[d] = events_[d]
        BY <3>2 DEF Delete, Added, Inv, TypeOK
      <4>2. interest' = interest
        BY <2>1, <4>1
      <4> QED BY <2>1, <3>2, <4>1, <4>2 DEF Delete, IS!Create
    <3> QED BY <2>3, <3>1, <3>2
  <2>4. ASSUME NEW c \in Channels, NEW e \in SUBSET Events,
               UpdateChannel(c, e)
        PROVE  IS!Set(c, e)
    <3>1. Added' = Added \cup {c}
      BY <2>4, UpdateStep
    <3>2. events_' = [events_ EXCEPT ![c] = e]
      BY <2>4 DEF UpdateChannel
    <3>3. interest' = [d \in DOMAIN interest \cup {c} |->
                          IF d = c THEN e ELSE interest[d]]
      BY <2>1, <3>1, <3>2 DEF Inv, TypeOK, Added
    <3> QED BY <3>2, <3>3 DEF IS!Set
  <2>5. ASSUME NEW c \in Channels, RemoveChannel(c)
        PROVE  IS!Remove(c) \/ UNCHANGED <<events_, interest>>
    <3>1. events_' = events_
      BY <2>5 DEF RemoveChannel
    <3>2. CASE c \in Added
      <4>1. Added' = Added \ {c}
        BY <2>5, <3>2, RemovedEntries
      <4> QED BY <2>1, <3>1, <3>2, <4>1 DEF IS!Remove, IS!Restrict
    <3>3. CASE c \notin Added
      <4>1. Added' = Added
        BY <2>5, <3>3 DEF RemoveChannel, Added, Inv, TypeOK
      <4> QED BY <2>1, <3>1, <4>1
    <3> QED BY <3>2, <3>3
  <2>6. CASE Poll \/ HandleEvent \/ EndDispatch \/ UNCHANGED vars
    BY <2>6 DEF Poll, HandleEvent, EndDispatch, vars, chanVars
  <2> QED BY <2>2, <2>3, <2>4, <2>5, <2>6, UpdateCases DEF Next, IS!Next
<1> QED BY <1>2, <1>3, Invariance, PTL DEF Spec, RefinesInterestSet, IS!Spec

=============================================================================
