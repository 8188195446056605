------------------------------- MODULE Poller -------------------------------
(***************************************************************************)
(* base/src/Poller.cpp with Channel.h, Channel.cpp and the part of         *)
(* EventLoop::loop that handles what poll() returns: one loop's channels,  *)
(* the map from descriptors to channels, the kernel's epoll set, and the   *)
(* vector of events that grows.                                            *)
(*                                                                         *)
(* Owners are of two kinds.  A TcpConnection ends with disableAll, is      *)
(* taken out of the poller and then deleted (modules TcpConnection and     *)
(* TcpServer say when, and what a send does that comes even later).  A     *)
(* UdpServer is deleted without either.                                    *)
(***************************************************************************)
EXTENDS Naturals, FiniteSets

CONSTANTS TcpChannels, UdpChannels,  \* the Channel objects, by their owner
          Fds,                       \* the descriptors
          None,                      \* no channel, no descriptor
          InitEvents                 \* INIT_EVENTS_NUM

ASSUME PollerAssumption == /\ TcpChannels \intersect UdpChannels = {}
                           /\ None \notin TcpChannels \union UdpChannels \union Fds
                           /\ InitEvents \in Nat \ {0}

Channels == TcpChannels \union UdpChannels
Events   == {"in", "out"}

VARIABLES
  life,      \* "new", "alive", "removed" (un_register), "dead" (deleted)
  fd,        \* fd_ of the channels that are not new
  events,    \* events_
  lapsed,    \* history: channels that have asked for nothing at some time
  fdMap,     \* fd_channel_map_
  epoll,     \* the kernel's set: what is watched for a descriptor, and for whom
  ready,     \* <<descriptor, event>> pairs that hold now
  size,      \* rec_events_.size()
  active,    \* active_channels that are not handled yet
  handling,  \* the channel whose handleEvent runs
  pc,        \* "poll", "events", "functions"
  fault      \* the asserts that failed, the uses of a dead channel

chanVars == <<life, fd, events, lapsed>>
pollVars == <<fdMap, epoll>>
loopVars == <<active, handling, pc>>
vars == <<chanVars, pollVars, ready, size, loopVars, fault>>

\* What the kernel watches for a descriptor: nothing, or the events with the
\* Channel* of the epoll_data.
Watch(c, evs) == [chan |-> c, events |-> evs]
Unwatched     == Watch(None, {})

Alive == {c \in Channels : life[c] \in {"alive", "removed"}}

Init ==
  /\ life = [c \in Channels |-> "new"]
  /\ fd = [c \in Channels |-> None]
  /\ events = [c \in Channels |-> {}] /\ lapsed = {}
  /\ fdMap = [f \in Fds |-> None]
  /\ epoll = [f \in Fds |-> Unwatched]
  /\ ready = {}
  /\ size = InitEvents
  /\ active = {} /\ handling = None /\ pc = "functions"
  /\ fault = {}
-----------------------------------------------------------------------------
(* The loop.                                                               *)

Reported(f) == {e \in epoll[f].events : <<f, e>> \in ready}

ReadyFds == {f \in Fds : Reported(f) # {}}

Fewer(a, b) == IF a < b THEN a ELSE b

\* rec_events_ is doubled when epoll_wait has filled it.
NeverGrown(n) == size                                         \* seeded defect
Grown(n) == IF n = size THEN 2 * size ELSE size

\* epoll_wait fills rec_events_ with as many descriptors as fit, whichever it
\* likes; each Channel* it returns must be the one in the map.
Poll ==
  /\ pc = "poll"
  /\ \E fs \in SUBSET ReadyFds :
       /\ fs # {}
       /\ Cardinality(fs) = Fewer(size, Cardinality(ReadyFds))
       /\ active' = {epoll[f].chan : f \in fs}
       /\ size' = Grown(Cardinality(fs))
       /\ fault' = fault
            \union {"poll: dead" : f \in {g \in fs : epoll[g].chan \notin Alive}}
            \union {"poll: not in map" :
                       f \in {g \in fs : fdMap[g] # epoll[g].chan}}
  /\ pc' = "events"
  /\ UNCHANGED <<chanVars, pollVars, ready, handling>>

\* The wake-up of a functor, a timer or a signal.
PollNothing ==
  /\ pc = "poll"
  /\ pc' = "events"
  /\ UNCHANGED <<chanVars, pollVars, ready, size, active, handling, fault>>

\* handleEvent: the owner's handler reads or writes some or all of what the
\* kernel has.
HandleEvent(c) ==
  /\ pc = "events" /\ handling = None
  /\ c \in active
  /\ active' = active \ {c}
  /\ IF c \in Alive
     THEN /\ handling' = c
          /\ \E done \in SUBSET {r \in ready : r[1] = fd[c]} :
               ready' = ready \ done
          /\ UNCHANGED fault
     ELSE /\ fault' = fault \union {"handleEvent: dead"}
          /\ UNCHANGED <<ready, handling>>
  /\ UNCHANGED <<chanVars, pollVars, size, pc>>

EndEvent ==
  /\ handling # None
  /\ handling' = None
  /\ UNCHANGED <<chanVars, pollVars, ready, size, active, pc, fault>>

EndEvents ==
  /\ pc = "events" /\ handling = None /\ active = {}
  /\ pc' = "functions"
  /\ UNCHANGED <<chanVars, pollVars, ready, size, active, handling, fault>>

EndFunctions ==
  /\ pc = "functions"
  /\ pc' = "poll"
  /\ UNCHANGED <<chanVars, pollVars, ready, size, active, handling, fault>>
-----------------------------------------------------------------------------
(* What handlers, functors and timers do with channels.                    *)

InUserCode == handling # None \/ pc = "functions"

\* update_channel for channel c on descriptor f.  A descriptor that is in the
\* map is modified in or deleted from the epoll set: both fail, with no more
\* than a log line, when it is not there.  The assert of that branch looks
\* into the channel that the map has.
UpdateAddsOnly(c, f, evs) ==  \* seeded defect: known descriptors keep theirs
  /\ events' = [events EXCEPT ![c] = evs]
  /\ IF fdMap[f] = None
     THEN /\ fdMap' = [fdMap EXCEPT ![f] = c]
          /\ epoll' = [epoll EXCEPT ![f] = Watch(c, evs)]
     ELSE UNCHANGED pollVars
  /\ UNCHANGED fault

UpdateChannel(c, f, evs) ==
  /\ events' = [events EXCEPT ![c] = evs]
  /\ IF fdMap[f] = None
     THEN /\ fdMap' = [fdMap EXCEPT ![f] = c]
          /\ epoll' = [epoll EXCEPT ![f] = Watch(c, evs)]
          /\ UNCHANGED fault
     ELSE /\ epoll' = [epoll EXCEPT ![f] = IF evs = {} \/ @ = Unwatched THEN Unwatched
                                       ELSE Watch(c, evs)]
          /\ fault' \in IF fdMap[f] \in Alive THEN {fault}
                        ELSE {fault, fault \union {"update_channel: dead"}}
          /\ UNCHANGED fdMap

\* An owner is created on a free descriptor and starts reading.
Start(c, f) ==
  /\ InUserCode
  /\ life[c] = "new"
  /\ f \notin {fd[d] : d \in Alive}
  /\ life' = [life EXCEPT ![c] = "alive"]
  /\ fd' = [fd EXCEPT ![c] = f]
  /\ UpdateChannel(c, f, {"in"})
  /\ UNCHANGED <<lapsed, ready, size, loopVars>>

Change(c, evs) ==
  /\ InUserCode
  /\ life[c] = "alive"
  /\ UpdateChannel(c, fd[c], evs)
  /\ lapsed' = IF evs = {} THEN lapsed \union {c} ELSE lapsed
  /\ UNCHANGED <<life, fd, ready, size, loopVars>>

EnableWrite(c)  == Change(c, events[c] \union {"out"})
DisableWrite(c) == Change(c, events[c] \ {"out"})
DisableAll(c)   == c \in TcpChannels /\ Change(c, {})

\* removeChannel, by the owner's handler or a functor after disableAll.
RemoveFromEpollOnly(c) ==                                     \* seeded defect
  epoll' = [epoll EXCEPT ![fd[c]] = Unwatched] /\ UNCHANGED <<fdMap, fault>>

RemoveChannel(c) ==
  \/ /\ fdMap[fd[c]] = None
     /\ UNCHANGED <<pollVars, fault>>
  \/ /\ fdMap[fd[c]] # None
     /\ fdMap' = [fdMap EXCEPT ![fd[c]] = None]
     /\ epoll' = [epoll EXCEPT ![fd[c]] = Unwatched]
     /\ fault' = IF fdMap[fd[c]] = c THEN fault
                 ELSE fault \union {"removeChannel: another channel"}

UnRegister(c) ==
  /\ c \in Alive \intersect TcpChannels \intersect lapsed
  /\ handling = c \/ pc = "functions"
  /\ RemoveChannel(c)
  /\ life' = [life EXCEPT ![c] = "removed"]
  /\ UNCHANGED <<fd, events, lapsed, ready, size, loopVars>>

\* The owner is deleted and closes the descriptor, which also takes it out of
\* the epoll set.  The guard of handleEvent keeps a TcpConnection until then.
Delete(c) ==
  /\ c \in Alive
  /\ handling # c
  /\ c \in TcpChannels => life[c] = "removed"
  /\ c \in UdpChannels => InUserCode
  /\ life' = [life EXCEPT ![c] = "dead"]
  /\ epoll' = [epoll EXCEPT ![fd[c]] = Unwatched]
  /\ ready' = {r \in ready : r[1] # fd[c]}
  /\ UNCHANGED <<fd, events, lapsed, fdMap, size, loopVars, fault>>

\* Something arrives, or there is room for output again.
Happens(c, e) ==
  /\ c \in Alive
  /\ ready' = ready \union {<<fd[c], e>>}
  /\ UNCHANGED <<chanVars, pollVars, size, loopVars, fault>>
-----------------------------------------------------------------------------
Service == \/ Poll \/ EndEvent \/ EndEvents \/ EndFunctions
           \/ \E c \in Channels : HandleEvent(c)

Next == \/ Service \/ PollNothing
        \/ \E c \in Channels, f \in Fds : Start(c, f)
        \/ \E c \in Channels : \/ EnableWrite(c) \/ DisableWrite(c)
                               \/ DisableAll(c)
                               \/ UnRegister(c) \/ Delete(c)
                               \/ \E e \in Events : Happens(c, e)

\* The loop thread runs; when something is ready, epoll_wait reports it, even
\* if other wake-ups come in between.
Fairness == WF_vars(Service) /\ SF_vars(Poll)

Spec == Init /\ [][Next]_vars /\ Fairness
-----------------------------------------------------------------------------
(* Properties.                                                             *)

\* The map's entry for f is that of a UdpServer that has been deleted.
LeftBehind(f) == fdMap[f] \in UdpChannels \ Alive

\* The kernel watches a descriptor for exactly what its live channel asks,
\* and passes that channel back: map, epoll set and events_ agree through any
\* sequence of changes, removals and reuse of descriptors, and a new channel
\* is added although an earlier owner had its descriptor.  Two kinds are never
\* watched: a channel that has disabled everything once, and one that has the
\* descriptor of a deleted UdpServer.
AskedIsWatched ==
  \A c \in Alive :
    /\ life[c] = "alive" => fdMap[fd[c]] = c \/ LeftBehind(fd[c])
    /\ epoll[fd[c]] =
         IF events[c] = {} \/ c \in lapsed \/ LeftBehind(fd[c])
         THEN Unwatched ELSE Watch(c, events[c])

\* Unless a UdpServer has been deleted, no assert of the poller fails, and no
\* dead channel is reported, looked into or handled, although owners come and
\* go between epoll_wait and the last handler.
NoAssertFails == fault # {} => \E c \in UdpChannels : life[c] = "dead"

\* A descriptor that stays ready gets its handler, whichever ones epoll_wait
\* prefers, because the vector of events grows until all fit.
ReadyIsHandled ==
  \A c \in Channels :
    (c \in Alive /\ Reported(fd[c]) # {})
      ~> handling = c \/ c \notin Alive \/ Reported(fd[c]) = {}
=============================================================================
