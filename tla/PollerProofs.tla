---------------------------- MODULE PollerProofs ----------------------------
(***************************************************************************)
(* Proofs about Poller, for any channels of either kind, any descriptors   *)
(* and any first size of the vector of events.                             *)
(*                                                                         *)
(* AskedIsWatched is not inductive alone.  It needs to know who may be in  *)
(* fd_channel_map_ (Entries), that live channels have different            *)
(* descriptors and that only a lapsed channel asks for nothing (Owners),   *)
(* and, for the asserts, what can be among the channels that one poll has  *)
(* reported (Handled).                                                     *)
(***************************************************************************)
EXTENDS Poller, TLAPS

\* Types of everything that the other parts speak of.
Types ==
  /\ life \in [Channels -> {"new", "alive", "removed", "dead"}]
  /\ fd \in [Channels -> Fds \union {None}]
  /\ events \in [Channels -> SUBSET Events]
  /\ lapsed \subseteq Channels
  /\ fdMap \in [Fds -> Channels \union {None}]
  /\ epoll \in [Fds -> [chan : Channels \union {None}, events : SUBSET Events]]
  /\ active \subseteq Channels
  /\ handling \in Channels \union {None}
  /\ pc \in {"poll", "events", "functions"}

\* Descriptors and wishes of the owners.  A channel that was taken out has
\* lapsed and left nothing in the map.
Owners ==
  /\ \A c \in Alive : fd[c] \in Fds
  /\ \A c, d \in Alive : fd[c] = fd[d] => c = d
  /\ \A c \in lapsed : life[c] # "new"
  /\ \A c \in Alive : events[c] = {} => c \in lapsed
  /\ \A c \in Channels :
       life[c] = "removed" => c \in lapsed /\ fdMap[fd[c]] = None

\* A map entry belongs to a channel that is alive or to a UdpServer that is
\* dead; the kernel watches no descriptor that nobody owns.
Entries ==
  \A f \in Fds :
    /\ fdMap[f] # None =>
         /\ fd[fdMap[f]] = f
         /\ \/ life[fdMap[f]] = "alive"
            \/ fdMap[f] \in UdpChannels /\ life[fdMap[f]] = "dead"
    /\ f \notin {fd[c] : c \in Alive} => epoll[f] = Unwatched

\* A channel that was reported and waits for its handler is not taken out
\* before, unless it is deleted with a UdpServer.
Handled ==
  /\ handling # None => handling \notin active
  /\ pc # "events" => active = {} /\ handling = None
  /\ \A c \in active : \/ life[c] = "alive"
                       \/ c \in UdpChannels /\ life[c] = "dead"

IInv == Types /\ Owners /\ Entries /\ Handled /\ AskedIsWatched /\ NoAssertFails

-----------------------------------------------------------------------------
(* The steps of the loop.                                                  *)

USE PollerAssumption DEF Channels, Alive

\* The invariant holds at the start.
LEMMA InitInv == Init => IInv
<1> SUFFICES ASSUME Init PROVE IInv
  OBVIOUS
<1> USE DEF Init
<1>1. Types
  BY DEF Types, Watch, Unwatched, Events
<1>2. Owners /\ Entries /\ Handled /\ AskedIsWatched /\ NoAssertFails
  BY DEF Owners, Entries, Handled, AskedIsWatched, NoAssertFails
<1> QED BY <1>1, <1>2 DEF IInv

\* What the kernel reports is alive and is in the map, so that no assert of
\* poll() fails.
LEMMA PollStep == IInv /\ Poll => IInv'
<1> SUFFICES ASSUME IInv, Poll PROVE IInv'
  OBVIOUS
<1> USE DEF IInv
<1>0. /\ UNCHANGED <<life, fd, events, lapsed, fdMap, epoll, handling>>
      /\ pc = "poll" /\ pc' = "events"
  BY DEF Poll, chanVars, pollVars
<1>1. PICK fs \in SUBSET ReadyFds :
        /\ active' = {epoll[f].chan : f \in fs}
        /\ fault' = fault
            \union {"poll: dead" : f \in {g \in fs : epoll[g].chan \notin Alive}}
            \union {"poll: not in map" :
                       f \in {g \in fs : fdMap[g] # epoll[g].chan}}
  BY DEF Poll
<1>2. ASSUME NEW f \in fs
      PROVE  /\ epoll[f].chan \in Channels
             /\ life[epoll[f].chan] = "alive"
             /\ fdMap[f] = epoll[f].chan
  <2>1. f \in Fds /\ Reported(f) # {}
    BY DEF ReadyFds
  <2>0. epoll[f] # Unwatched
    <3>1. PICK e : e \in epoll[f].events
      BY <2>1 DEF Reported
    <3>2. Unwatched.events = {}
      BY DEF Unwatched, Watch
    <3> QED BY <3>1, <3>2
  <2>2. PICK c \in Alive : fd[c] = f
    BY <2>1, <2>0 DEF Entries
  <2>3. epoll[f] = Watch(c, events[c]) /\ c \notin lapsed /\ ~LeftBehind(f)
    BY <2>0, <2>1, <2>2 DEF AskedIsWatched
  <2>4. life[c] = "alive" /\ epoll[f].chan = c
    BY <2>3 DEF Owners, Watch
  <2> QED BY <2>2, <2>3, <2>4 DEF AskedIsWatched
<1>3. fault' = fault
  <2>1. {g \in fs : epoll[g].chan \notin Alive} = {}
    BY <1>2
  <2>2. {g \in fs : fdMap[g] # epoll[g].chan} = {}
    BY <1>2
  <2> QED BY <1>1, <2>1, <2>2
<1>r. \A c \in active' : c \in Channels /\ life[c] = "alive"
  <2> SUFFICES ASSUME NEW c \in active'
               PROVE  c \in Channels /\ life[c] = "alive"
    OBVIOUS
  <2>1. PICK f \in fs : c = epoll[f].chan
    BY <1>1
  <2> QED BY <1>2, <2>1
<1>4. Types'
  BY <1>0, <1>r DEF Types
<1>5. Owners' /\ Entries'
  BY <1>0 DEF Owners, Entries
<1>6. AskedIsWatched'
  BY <1>0 DEF AskedIsWatched, LeftBehind
<1>7. Handled'
  BY <1>0, <1>r DEF Handled
<1>8. NoAssertFails'
  BY <1>0, <1>3 DEF NoAssertFails
<1> QED BY <1>4, <1>5, <1>6, <1>7, <1>8

\* Steps of the loop that leave channels, map and epoll set alone.
LEMMA LoopSteps ==
  ASSUME IInv, UNCHANGED <<chanVars, pollVars>>,
         fault' = fault \/ \E c \in UdpChannels : life[c] = "dead",
         active' \subseteq active, handling' \in active \union {handling, None},
         handling' # None => handling' \notin active',
         pc' \in {"poll", "events", "functions"},
         pc' # "events" => active' = {} /\ handling' = None
  PROVE  IInv'
<1> USE DEF IInv, chanVars, pollVars
<1>1. Types'
  BY DEF Types
<1>2. Owners' /\ Entries'
  BY DEF Owners, Entries
<1>3. Handled'
  BY DEF Handled
<1>4. AskedIsWatched'
  BY DEF AskedIsWatched, LeftBehind
<1>5. NoAssertFails'
  BY DEF NoAssertFails
<1> QED BY <1>1, <1>2, <1>3, <1>4, <1>5

\* handleEvent only meets a dead channel if it was a UdpServer's.
LEMMA HandleEventStep ==
  ASSUME IInv, NEW c \in Channels, HandleEvent(c)
  PROVE  IInv'
<1>1. c \in active /\ pc = "events" /\ handling = None
  BY DEF HandleEvent
<1>2. c \notin Alive => c \in UdpChannels /\ life[c] = "dead"
  BY <1>1 DEF IInv, Handled
<1>3. /\ UNCHANGED <<chanVars, pollVars, pc>> /\ active' = active \ {c}
      /\ handling' \in {c, handling}
      /\ c \in Alive => fault' = fault
  BY DEF HandleEvent
<1> QED BY <1>1, <1>2, <1>3, LoopSteps

\* The rest of an iteration.
LEMMA OtherLoopSteps ==
  ASSUME IInv, PollNothing \/ EndEvent \/ EndEvents \/ EndFunctions
  PROVE  IInv'
<1>1. UNCHANGED <<chanVars, pollVars, fault>> /\ active' = active
  BY DEF PollNothing, EndEvent, EndEvents, EndFunctions
<1>2. /\ handling' \in {handling, None}
      /\ handling' # None => handling' \notin active'
      /\ pc' \in {"poll", "events", "functions"}
      /\ pc' # "events" => active' = {} /\ handling' = None
  BY DEF PollNothing, EndEvent, EndEvents, EndFunctions, IInv, Handled, Types
<1> QED BY <1>1, <1>2, LoopSteps

\* Readiness of descriptors is no part of the invariant.
LEMMA HappensStep ==
  ASSUME IInv, NEW c \in Channels, NEW e \in Events, Happens(c, e)
  PROVE  IInv'
<1>1. UNCHANGED <<chanVars, pollVars, active, handling, pc, fault>>
  BY DEF Happens, loopVars
<1> QED BY <1>1, LoopSteps DEF IInv, Handled, Types

-----------------------------------------------------------------------------
(* What owners do.                                                         *)

\* update_channel for a channel whose descriptor is in nobody else's hands.
LEMMA UpdateEffect ==
  ASSUME IInv, NEW c \in Channels, NEW f \in Fds, NEW evs \in SUBSET Events,
         fdMap[f] \in {None, c} \/ LeftBehind(f),
         UpdateChannel(c, f, evs)
  PROVE  /\ events' = [events EXCEPT ![c] = evs]
         /\ fdMap' = [fdMap EXCEPT ![f] = IF @ = None THEN c ELSE @]
         /\ \/ fdMap[f] = None
               /\ epoll' = [epoll EXCEPT ![f] = Watch(c, evs)]
            \/ fdMap[f] # None
               /\ epoll' = [epoll EXCEPT ![f] =
                    IF evs = {} \/ @ = Unwatched THEN Unwatched ELSE Watch(c, evs)]
         /\ fdMap[f] \in Alive \union {None} => fault' = fault
<1>1. fdMap \in [Fds -> Channels \union {None}]
  BY DEF IInv, Types
<1>2. CASE fdMap[f] = None
  BY <1>2 DEF UpdateChannel
<1>3. CASE fdMap[f] # None
  <2>1. fdMap' = fdMap
    BY <1>3 DEF UpdateChannel
  <2>2. fdMap[f] \in Alive => fault' = fault
    BY <1>3 DEF UpdateChannel
  <2>3. epoll' = [epoll EXCEPT ![f] =
                    IF evs = {} \/ @ = Unwatched THEN Unwatched ELSE Watch(c, evs)]
    BY <1>3 DEF UpdateChannel
  <2>4. events' = [events EXCEPT ![c] = evs]
    BY <1>3 DEF UpdateChannel
  <2>5. fdMap' = [fdMap EXCEPT ![f] = IF @ = None THEN c ELSE @]
    BY <1>1, <1>3, <2>1
  <2> QED BY <1>3, <2>2, <2>3, <2>4, <2>5
<1> QED BY <1>2, <1>3

\* enableWrite, disableWrite and disableAll.
LEMMA ChangeStep ==
  ASSUME IInv, NEW c \in Channels, NEW evs \in SUBSET Events, Change(c, evs),
         evs = {} => lapsed' = lapsed \union {c}
  PROVE  IInv'
<1> DEFINE f == fd[c]
<1> USE DEF IInv
<1>1. /\ c \in Alive /\ life[c] = "alive" /\ f \in Fds
      /\ fdMap[f] = c \/ LeftBehind(f)
  BY DEF Change, Owners, AskedIsWatched
<1>2. /\ UpdateChannel(c, f, evs)
      /\ UNCHANGED <<life, fd, active, handling, pc>>
      /\ lapsed' = IF evs = {} THEN lapsed \union {c} ELSE lapsed
  BY DEF Change, loopVars
<1>3. /\ events' = [events EXCEPT ![c] = evs]
      /\ fdMap' = fdMap
      /\ epoll' = [epoll EXCEPT ![f] =
                    IF evs = {} \/ @ = Unwatched THEN Unwatched ELSE Watch(c, evs)]
      /\ fdMap[f] = c => fault' = fault
  <2>1. fdMap[f] # None
    BY <1>1 DEF LeftBehind
  <2> HIDE DEF f
  <2> QED BY <1>1, <1>2, <2>1, UpdateEffect DEF Types
<1>4. \A d \in Alive : fd[d] = f => d = c
  BY <1>1 DEF Owners
<1> HIDE DEF f
<1>5. Types'
  <2>1. Watch(c, evs) \in [chan : Channels \union {None}, events : SUBSET Events]
    BY DEF Watch
  <2>2. Unwatched \in [chan : Channels \union {None}, events : SUBSET Events]
    BY DEF Watch, Unwatched
  <2>3. epoll' \in [Fds -> [chan : Channels \union {None}, events : SUBSET Events]]
    BY <1>1, <1>3, <2>1, <2>2 DEF Types
  <2> QED BY <1>1, <1>2, <1>3, <2>3 DEF Types
<1>6. Owners'
  BY <1>1, <1>2, <1>3 DEF Owners, Types
<1>7. Entries'
  <2>1. f = fd[c]
    BY DEF f
  <2> QED BY <1>1, <1>2, <1>3, <2>1 DEF Entries, Types
<1>8. Handled'
  BY <1>2 DEF Handled
<1>9. AskedIsWatched'
  <2>1. \A g \in Fds : LeftBehind(g)' <=> LeftBehind(g)
    BY <1>2, <1>3 DEF LeftBehind
  <2> SUFFICES ASSUME NEW d \in Alive
               PROVE  /\ life[d] = "alive" => fdMap[fd[d]] = d \/ LeftBehind(fd[d])
                      /\ epoll'[fd[d]] =
                           IF events'[d] = {} \/ d \in lapsed' \/ LeftBehind(fd[d])
                           THEN Unwatched ELSE Watch(d, events'[d])
    BY <1>2, <1>3, <2>1 DEF AskedIsWatched, Owners
  <2>2. life[d] = "alive" => fdMap[fd[d]] = d \/ LeftBehind(fd[d])
    BY DEF AskedIsWatched
  <2>3. epoll[fd[d]] = IF events[d] = {} \/ d \in lapsed \/ LeftBehind(fd[d])
                       THEN Unwatched ELSE Watch(d, events[d])
    BY DEF AskedIsWatched
  <2>4. CASE d # c
    <3>1. epoll'[fd[d]] = epoll[fd[d]] /\ events'[d] = events[d]
      BY <1>3, <1>4, <2>4 DEF Types, Owners
    <3> QED BY <1>2, <2>2, <2>3, <2>4, <3>1
  <2>5. CASE d = c
    <3>1. events'[c] = evs /\ f = fd[c]
      BY <1>3 DEF Types, f
    <3>2. epoll'[f] = IF evs = {} \/ epoll[f] = Unwatched THEN Unwatched
                                                          ELSE Watch(c, evs)
      BY <1>1, <1>3 DEF Types
    <3>3. Watch(c, events[c]) # Unwatched
      BY DEF Watch, Unwatched
    <3>4. events[c] = {} => c \in lapsed
      BY <1>1 DEF Owners
    <3> QED BY <1>2, <2>2, <2>3, <2>5, <3>1, <3>2, <3>3, <3>4
  <2> QED BY <2>4, <2>5
<1>10. NoAssertFails'
  <2>1. CASE fdMap[f] = c
    BY <1>2, <1>3, <2>1 DEF NoAssertFails
  <2>2. CASE LeftBehind(f)
    <3>1. fdMap[f] \in UdpChannels /\ life[fdMap[f]] = "dead"
      BY <1>1, <2>2 DEF LeftBehind, Entries
    <3> QED BY <1>2, <3>1 DEF NoAssertFails
  <2> QED BY <1>1, <2>1, <2>2
<1> QED BY <1>5, <1>6, <1>7, <1>8, <1>9, <1>10

\* What a new owner finds on its descriptor.
LEMMA FreeDescriptor ==
  ASSUME IInv, NEW f \in Fds, f \notin {fd[d] : d \in Alive}
  PROVE  /\ epoll[f] = Unwatched
         /\ fdMap[f] = None \/ LeftBehind(f)
<1>1. fdMap[f] # None => fdMap[f] \in Channels /\ fd[fdMap[f]] = f
  BY DEF IInv, Types, Entries
<1>2. fdMap[f] # None => fdMap[f] \in UdpChannels \ Alive
  BY <1>1 DEF IInv, Entries
<1> QED BY <1>2 DEF IInv, Entries, LeftBehind

\* A new owner starts reading on a descriptor nobody has.
LEMMA StartStep ==
  ASSUME IInv, NEW c \in Channels, NEW f \in Fds, Start(c, f)
  PROVE  IInv'
<1> USE DEF IInv
<1>1. /\ life[c] = "new" /\ c \notin lapsed
      /\ \A d \in Alive : fd[d] # f
      /\ epoll[f] = Unwatched
      /\ fdMap[f] = None \/ LeftBehind(f)
  BY FreeDescriptor DEF Start, Owners
<1>2. /\ UpdateChannel(c, f, {"in"})
      /\ life' = [life EXCEPT ![c] = "alive"]
      /\ fd' = [fd EXCEPT ![c] = f]
      /\ UNCHANGED <<lapsed, active, handling, pc>>
  BY DEF Start, loopVars
<1>3. /\ events' = [events EXCEPT ![c] = {"in"}]
      /\ fdMap' = [fdMap EXCEPT ![f] = IF @ = None THEN c ELSE @]
      /\ epoll' = [epoll EXCEPT ![f] = IF fdMap[f] = None THEN Watch(c, {"in"})
                                                          ELSE Unwatched]
      /\ fdMap[f] = None => fault' = fault
  BY <1>1, <1>2, UpdateEffect DEF Events
<1>4. Alive' = Alive \union {c} /\ c \notin Alive
  BY <1>1, <1>2 DEF Types
<1>5. Types'
  <2>1. Watch(c, {"in"}) \in [chan : Channels \union {None}, events : SUBSET Events]
    BY DEF Watch, Events
  <2>2. Unwatched \in [chan : Channels \union {None}, events : SUBSET Events]
    BY DEF Watch, Unwatched
  <2>3. epoll' \in [Fds -> [chan : Channels \union {None}, events : SUBSET Events]]
    BY <1>3, <2>1, <2>2 DEF Types
  <2> QED BY <1>2, <1>3, <2>3 DEF Types, Events
<1>6. Owners'
  BY <1>1, <1>2, <1>3 DEF Owners, Types
<1>7. Entries'
  <2> SUFFICES ASSUME NEW g \in Fds
               PROVE  /\ fdMap'[g] # None =>
                           /\ fd'[fdMap'[g]] = g
                           /\ \/ life'[fdMap'[g]] = "alive"
                              \/ /\ fdMap'[g] \in UdpChannels
                                 /\ life'[fdMap'[g]] = "dead"
                      /\ g \notin {fd'[d] : d \in Alive'} => epoll'[g] = Unwatched
    BY DEF Entries
  <2>1. CASE g = f
    <3>1. fd'[c] = f
      BY <1>2 DEF Types
    <3>2. CASE fdMap[f] = None
      BY <1>2, <1>3, <1>4, <2>1, <3>1, <3>2 DEF Types
    <3>3. CASE LeftBehind(f)
      <4>1. fdMap'[g] = fdMap[f] /\ fdMap[f] # c
        BY <1>1, <1>3, <1>4, <2>1, <3>3 DEF LeftBehind, Types, Entries
      <4> QED BY <1>2, <1>4, <2>1, <3>1, <3>3, <4>1 DEF LeftBehind, Types, Entries
    <3> QED BY <1>1, <3>2, <3>3
  <2>2. CASE g # f
    <3>1. fdMap'[g] = fdMap[g] /\ epoll'[g] = epoll[g]
      BY <1>3, <2>2 DEF Types
    <3>2. fdMap[g] # None => fdMap[g] # c
      BY <1>1 DEF Entries
    <3> QED BY <1>2, <1>4, <3>1, <3>2 DEF Types, Entries
  <2> QED BY <2>1, <2>2
<1>8. Handled'
  BY <1>1, <1>2 DEF Handled, Types
<1>9. AskedIsWatched'
  <2> SUFFICES ASSUME NEW d \in Alive'
               PROVE  /\ life'[d] = "alive" => fdMap'[fd'[d]] = d \/ LeftBehind(fd[d])'
                      /\ epoll'[fd'[d]] =
                           IF events'[d] = {} \/ d \in lapsed' \/ LeftBehind(fd[d])'
                           THEN Unwatched ELSE Watch(d, events'[d])
    BY DEF AskedIsWatched
  <2>1. CASE d = c
    <3>1. fd'[d] = f /\ events'[d] = {"in"} /\ d \notin lapsed'
      BY <1>1, <1>2, <1>3, <2>1 DEF Types
    <3>2. CASE fdMap[f] = None
      <4>1. fdMap'[f] = c /\ epoll'[f] = Watch(c, {"in"}) /\ c \in Alive'
        BY <1>3, <1>4, <3>2 DEF Types
      <4>2. ~LeftBehind(f)'
        BY <4>1 DEF LeftBehind
      <4> QED BY <2>1, <3>1, <4>1, <4>2 DEF LeftBehind
    <3>3. CASE LeftBehind(f)
      <4>1. fdMap'[f] = fdMap[f] /\ epoll'[f] = Unwatched /\ fdMap[f] # c
        BY <1>1, <1>3, <3>3 DEF Types, LeftBehind, Entries
      <4>2. LeftBehind(f)'
        BY <1>4, <3>3, <4>1 DEF LeftBehind
      <4> QED BY <2>1, <3>1, <4>1, <4>2 DEF LeftBehind
    <3> QED BY <1>1, <3>2, <3>3
  <2>2. CASE d # c
    <3>1. /\ d \in Alive /\ life'[d] = life[d] /\ fd'[d] = fd[d] /\ fd[d] # f
          /\ fd[d] \in Fds /\ events'[d] = events[d]
      BY <1>1, <1>2, <1>3, <1>4, <2>2 DEF Types, Owners
    <3>2. fdMap'[fd[d]] = fdMap[fd[d]] /\ epoll'[fd[d]] = epoll[fd[d]]
      BY <1>3, <3>1 DEF Types
    <3>3. LeftBehind(fd[d])' <=> LeftBehind(fd[d])
      <4>1. fdMap[fd[d]] # c
        BY <1>1, <3>1 DEF Entries, Types
      <4> QED BY <1>4, <3>1, <3>2, <4>1 DEF LeftBehind
    <3> QED BY <1>2, <3>1, <3>2, <3>3 DEF AskedIsWatched
  <2> QED BY <2>1, <2>2
<1>10. NoAssertFails'
  <2>1. CASE fdMap[f] = None
    BY <1>1, <1>2, <1>3, <2>1 DEF NoAssertFails, Types
  <2>2. CASE LeftBehind(f)
    <3>1. fdMap[f] \in UdpChannels /\ life[fdMap[f]] = "dead"
      BY <2>2 DEF LeftBehind, Entries
    <3> QED BY <1>1, <1>2, <3>1 DEF NoAssertFails, Types
  <2> QED BY <1>1, <2>1, <2>2
<1> QED BY <1>5, <1>6, <1>7, <1>8, <1>9, <1>10

\* un_register: the map loses the entry, the kernel watched nothing anyway.
LEMMA UnRegisterStep ==
  ASSUME IInv, NEW c \in Channels, UnRegister(c)
  PROVE  IInv'
<1> DEFINE f == fd[c]
<1> USE DEF IInv
<1>1. /\ c \in Alive /\ c \in TcpChannels /\ c \in lapsed /\ f \in Fds
      /\ epoll[f] = Unwatched
      /\ c \notin active
  BY DEF UnRegister, Owners, AskedIsWatched, Handled
<1>2. /\ RemoveChannel(c)
      /\ life' = [life EXCEPT ![c] = "removed"]
      /\ UNCHANGED <<fd, events, lapsed, active, handling, pc>>
  BY DEF UnRegister, loopVars
<1>3. fdMap' = [fdMap EXCEPT ![f] = None] /\ epoll' = epoll
  BY <1>1, <1>2 DEF RemoveChannel, pollVars, Types
<1>4. fdMap[f] \in {None, c} \/ LeftBehind(f)
  BY <1>1 DEF Owners, AskedIsWatched
<1>5. \A d \in Alive : fd[d] = f => d = c
  BY <1>1 DEF Owners
<1>6. Alive' = Alive /\ f = fd[c]
  BY <1>1, <1>2 DEF Types
<1>7. Types'
  BY <1>2, <1>3 DEF Types
<1>8. Owners'
  BY <1>1, <1>2, <1>3, <1>5, <1>6 DEF Owners, Types
<1>9. Entries'
  BY <1>1, <1>2, <1>3, <1>6 DEF Entries, Types
<1>10. Handled'
  BY <1>1, <1>2 DEF Handled, Types
<1>11. AskedIsWatched'
  <2> SUFFICES ASSUME NEW d \in Alive
               PROVE  /\ life'[d] = "alive" =>
                           fdMap'[fd[d]] = d \/ LeftBehind(fd[d])'
                      /\ epoll[fd[d]] =
                           IF events[d] = {} \/ d \in lapsed \/ LeftBehind(fd[d])'
                           THEN Unwatched ELSE Watch(d, events[d])
    BY <1>2, <1>3, <1>6 DEF AskedIsWatched
  <2>1. CASE d = c
    BY <1>1, <1>2, <2>1 DEF Types
  <2>2. CASE d # c
    <3>1. fd[d] # f /\ fd[d] \in Fds /\ life'[d] = life[d]
      BY <1>2, <1>5, <2>2 DEF Types, Owners
    <3>2. fdMap'[fd[d]] = fdMap[fd[d]]
      BY <1>3, <3>1 DEF Types
    <3>3. LeftBehind(fd[d])' <=> LeftBehind(fd[d])
      BY <1>2, <1>6, <3>2 DEF LeftBehind
    <3> QED BY <3>1, <3>2, <3>3 DEF AskedIsWatched
  <2> QED BY <2>1, <2>2
<1>12. NoAssertFails'
  <2>1. fdMap[f] \in {None, c} => fault' = fault
    BY <1>2 DEF RemoveChannel
  <2>2. LeftBehind(f) => fdMap[f] \in UdpChannels /\ life[fdMap[f]] = "dead"
    BY <1>1 DEF LeftBehind, Entries
  <2>3. \A d \in UdpChannels : life[d] = "dead" => life'[d] = "dead"
    BY <1>1, <1>2 DEF Types
  <2> QED BY <1>4, <2>1, <2>2, <2>3 DEF NoAssertFails
<1> QED BY <1>7, <1>8, <1>9, <1>10, <1>11, <1>12

\* The end of an owner, which leaves a UdpServer's entry in the map.
LEMMA DeleteStep ==
  ASSUME IInv, NEW c \in Channels, Delete(c)
  PROVE  IInv'
<1> DEFINE f == fd[c]
<1> USE DEF IInv
<1>1. /\ c \in Alive /\ f \in Fds
      /\ c \in TcpChannels => life[c] = "removed"
  BY DEF Delete, Owners
<1>2. /\ life' = [life EXCEPT ![c] = "dead"]
      /\ epoll' = [epoll EXCEPT ![f] = Unwatched]
      /\ UNCHANGED <<fd, events, lapsed, fdMap, active, handling, pc, fault>>
  BY DEF Delete, loopVars
<1>3. \A d \in Alive : fd[d] = f => d = c
  BY <1>1 DEF Owners
<1>4. Alive' = Alive \ {c} /\ f = fd[c]
  BY <1>1, <1>2 DEF Types
<1>5. Types'
  BY <1>1, <1>2 DEF Types, Unwatched, Watch
<1>6. Owners'
  BY <1>1, <1>2, <1>4 DEF Owners, Types
<1>7. Entries'
  BY <1>1, <1>2, <1>4 DEF Entries, Types
<1>8. Handled'
  BY <1>1, <1>2 DEF Handled, Types
<1>9. AskedIsWatched'
  <2> SUFFICES ASSUME NEW d \in Alive, d # c
               PROVE  /\ life[d] = "alive" =>
                           fdMap[fd[d]] = d \/ LeftBehind(fd[d])'
                      /\ epoll'[fd[d]] =
                           IF events[d] = {} \/ d \in lapsed \/ LeftBehind(fd[d])'
                           THEN Unwatched ELSE Watch(d, events[d])
    BY <1>2, <1>4 DEF AskedIsWatched, Types
  <2>1. fd[d] # f /\ fd[d] \in Fds
    BY <1>3 DEF Owners
  <2>2. epoll'[fd[d]] = epoll[fd[d]]
    BY <1>2, <2>1 DEF Types
  <2>3. LeftBehind(fd[d])' <=> LeftBehind(fd[d])
    <3>1. fdMap[fd[d]] # c
      BY <1>1, <2>1 DEF Entries
    <3> QED BY <1>2, <1>4, <3>1 DEF LeftBehind
  <2> QED BY <2>2, <2>3 DEF AskedIsWatched
<1>10. NoAssertFails'
  BY <1>1, <1>2 DEF NoAssertFails, Types
<1> QED BY <1>5, <1>6, <1>7, <1>8, <1>9, <1>10
-----------------------------------------------------------------------------
(* The theorems.                                                           *)

\* The strengthened invariant holds in every reachable state.
LEMMA Invariance == Spec => []IInv
<1>1. IInv /\ [Next]_vars => IInv'
  <2> SUFFICES ASSUME IInv, [Next]_vars PROVE IInv'
    OBVIOUS
  <2>1. CASE UNCHANGED vars
    BY <2>1, LoopSteps DEF vars, loopVars, IInv, Handled, Types
  <2>2. CASE Poll
    BY <2>2, PollStep
  <2>3. CASE PollNothing \/ EndEvent \/ EndEvents \/ EndFunctions
    BY <2>3, OtherLoopSteps
  <2>4. ASSUME NEW c \in Channels, HandleEvent(c) PROVE IInv'
    BY <2>4, HandleEventStep
  <2>5. ASSUME NEW c \in Channels, NEW f \in Fds, Start(c, f) PROVE IInv'
    BY <2>5, StartStep
  <2>6. ASSUME NEW c \in Channels, EnableWrite(c) PROVE IInv'
    <3>1. Change(c, events[c] \union {"out"})
      BY <2>6 DEF EnableWrite
    <3>2. events[c] \union {"out"} \in SUBSET Events
      BY DEF IInv, Types, Events
    <3> QED BY <3>1, <3>2, ChangeStep
  <2>7. ASSUME NEW c \in Channels, DisableWrite(c) PROVE IInv'
    <3>1. Change(c, events[c] \ {"out"})
      BY <2>7 DEF DisableWrite
    <3>2. events[c] \ {"out"} \in SUBSET Events
      BY DEF IInv, Types
    <3> QED BY <3>1, <3>2, ChangeStep DEF Change
  <2>8. ASSUME NEW c \in Channels, DisableAll(c) PROVE IInv'
    BY <2>8, ChangeStep DEF DisableAll, Change
  <2>9. ASSUME NEW c \in Channels, UnRegister(c) PROVE IInv'
    BY <2>9, UnRegisterStep
  <2>10. ASSUME NEW c \in Channels, Delete(c) PROVE IInv'
    BY <2>10, DeleteStep
  <2>11. ASSUME NEW c \in Channels, NEW e \in Events, Happens(c, e) PROVE IInv'
    BY <2>11, HappensStep
  <2> QED BY <2>1, <2>2, <2>3, <2>4, <2>5, <2>6, <2>7, <2>8, <2>9, <2>10, <2>11
          DEF Next, Service
<1> QED BY <1>1, InitInv, PTL DEF Spec

\* epoll set, map and channels agree for any number of channels and through
\* every reuse of descriptors: the kernel watches just what a live channel asks
\* for, except for the two kinds of channel that are never watched.
THEOREM AskedIsWatchedHolds == Spec => []AskedIsWatched
<1>1. IInv => AskedIsWatched
  BY DEF IInv
<1> QED BY <1>1, Invariance, PTL

\* No assert of the poller fails and no dead channel is reported or handled, as
\* long as no UdpServer was deleted.
THEOREM NoAssertFailsHolds == Spec => []NoAssertFails
<1>1. IInv => NoAssertFails
  BY DEF IInv
<1> QED BY <1>1, Invariance, PTL
=============================================================================
