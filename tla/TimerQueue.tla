----------------------------- MODULE TimerQueue -----------------------------
(***************************************************************************)
(* base/include/TimerQueue.h, Timer.h and Timestamp.h with the part of     *)
(* EventLoop::loop that drives them: the timers of one loop, from RunAt,   *)
(* RunAfter and RunEvery to the callback.                                  *)
(*                                                                         *)
(* One tick of clock is a microsecond, the unit of TimeStamp; epoll_wait   *)
(* counts in units of TicksPerMs ticks.  A Timer* is a number, because     *)
(* std::set<Entry> orders timers that expire together by their address.    *)
(* gettimeofday is the wall clock, which can be set back; epoll_wait does  *)
(* not mind, it counts the time that passes.                               *)
(***************************************************************************)
EXTENDS Integers, Sequences, FiniteSets, SequencesExt

CONSTANTS Timers,      \* the Timer objects that can be created
          Delays,      \* delays and intervals given to RunAfter and RunEvery
          Dates,       \* times given to RunAt
          TicksPerMs,  \* what epoll_wait makes of a microsecond
          IntMax,      \* the largest int, for epoll_wait's timeout
          MaxAdd,      \* bound: timers are created until then
          MaxSetBacks, \* bound: how often the wall clock is set back
          MaxClock     \* bound: the clock stops there, and waits are over

ASSUME TimerAssumption == /\ Timers \subseteq Nat
                          /\ Delays \subseteq Nat /\ Dates \subseteq Nat
                          /\ TicksPerMs \in Nat \ {0}
                          /\ IntMax \in Nat
                          /\ MaxAdd \in Nat /\ MaxClock \in Nat
                          /\ MaxSetBacks \in Nat

VARIABLES
  clock,       \* what gettimeofday returns
  now,         \* now_chache_
  timers,      \* timers_
  expiration, interval,  \* of the timers created so far
  pending,     \* addTimerInLoop functors pushed by other threads
  expired,     \* the vector of handleTimeEvent
  next,        \* the position in it of the timer to run next
  pc,          \* where the loop thread is
  until,       \* when the epoll_wait that is blocking ends
  added, due,  \* history: when a timer was created and first due
  runs,        \* history: how often each callback has run
  setBacks     \* history: how often the clock was set back

timerVars == <<timers, expiration, interval>>
batchVars == <<expired, next>>
history   == <<added, due, runs, setBacks>>
vars == <<clock, now, timerVars, pending, batchVars, pc, until, history>>

Created == DOMAIN expiration
Forever == -1

Init ==
  /\ clock = 0 /\ now = 0
  /\ timers = {}
  /\ expiration = <<>> /\ interval = <<>>
  /\ pending = <<>>
  /\ expired = <<>> /\ next = 1
  /\ pc = "setup"
  /\ until = Forever
  /\ added = <<>> /\ due = <<>>
  /\ runs = [t \in Timers |-> 0]
  /\ setBacks = 0
-----------------------------------------------------------------------------
(* Creating timers: RunAt, RunAfter and RunEvery call addTimer.            *)

With(f, t, v) == [u \in DOMAIN f \union {t} |-> IF u = t THEN v ELSE f[u]]

NewTimer(t, when, every) ==
  /\ t \in Timers \ Created
  /\ clock <= MaxAdd
  /\ expiration' = With(expiration, t, when)
  /\ interval' = With(interval, t, every)
  /\ added' = With(added, t, clock)
  /\ due' = With(due, t, when)
  /\ UNCHANGED <<clock, now, batchVars, pc, until, runs,
                 setBacks>>

\* runInLoop(addTimerInLoop): the loop thread inserts at once, another thread
\* pushes a functor and wakes the loop.
InLoop(t)  == /\ pc \in {"setup", "handle", "run", "functions"}
              /\ timers' = timers \union {t}
              /\ UNCHANGED pending
Outside(t) == /\ pending' = Append(pending, t)
              /\ UNCHANGED timers

AddTimer(t, when, every) == /\ NewTimer(t, when, every)
                            /\ InLoop(t) \/ Outside(t)

RunAfter(t) == \E d \in Delays : AddTimer(t, clock + d, 0)
RunEvery(t) == \E d \in Delays : AddTimer(t, clock + d, d)
RunAt(t)    == \E when \in Dates : AddTimer(t, when, 0)
-----------------------------------------------------------------------------
(* The loop.                                                               *)

Earliest == CHOOSE e \in {expiration[t] : t \in timers} :
              \A t \in timers : e <= expiration[t]

TimeOutRaw(t) ==                \* seeded defect: an overdue timer is negative
  IF timers = {} THEN -1 ELSE Earliest - t

\* getNextTimerTimerOut at time t: -1 for no timer, 0 for one overdue.
TimeOut(t) == IF timers = {} THEN -1
              ELSE IF Earliest <= t THEN 0
              ELSE Earliest - t

\* The conversion of the int64_t to epoll_wait's int.
ToInt(x) == LET range == 2 * (IntMax + 1)
                r == x % range
            IN IF r > IntMax THEN r - range ELSE r

EnterLoop == /\ pc = "setup"
             /\ pc' = "compute"
             /\ UNCHANGED <<clock, now, timerVars, pending, batchVars, until,
                            history>>

\* The time is taken and cached, and epoll_wait blocks for the timeout, which
\* it takes for milliseconds; a negative one blocks for ever.
Poll ==
  /\ pc = "compute"
  /\ now' = clock
  /\ until' = LET wait == ToInt(TimeOut(clock))
              IN IF wait < 0 THEN Forever ELSE clock + wait * TicksPerMs
  /\ pc' = "poll"
  /\ UNCHANGED <<clock, timerVars, pending, batchVars, history>>

TimedOut == until # Forever /\ (clock >= until \/ clock = MaxClock)

\* epoll_wait returns: its time is over, or another thread has pushed.
PollReturns ==
  /\ pc = "poll"
  /\ TimedOut \/ pending # <<>>
  /\ pc' = "handle"
  /\ until' = Forever
  /\ UNCHANGED <<clock, now, timerVars, pending, batchVars, history>>

\* epoll_wait returns because some socket is ready.
SocketReady ==
  /\ pc = "poll"
  /\ pc' = "handle"
  /\ until' = Forever
  /\ UNCHANGED <<clock, now, timerVars, pending, batchVars, history>>


IsRepeat(t) == interval[t] > 0

ResetToNow(t) == now          \* seeded defect: the interval is not added

\* Timer::reset_expiration(now_chache_).
Reset(t) == now + interval[t]

ByAddress(t, u) == t < u      \* seeded defect: the order of a set<Timer*>

\* The order of std::set<Entry>.
Before(t, u) == \/ expiration[t] < expiration[u]
                \/ expiration[t] = expiration[u] /\ t < u

Due == {t \in timers : expiration[t] <= now}

\* The vector of the timers of a set in that order.
InOrder(S) == {s \in [1..Cardinality(S) -> S] :
                 /\ ToSet(s) = S
                 /\ \A i, j \in DOMAIN s : i < j => Before(s[i], s[j])}

GetExpiredNoErase ==          \* seeded defect: timers_ keeps what it returns
  expired' \in InOrder(Due) /\ UNCHANGED timers

\* getExpired: what lower_bound of <now_chache_, the largest pointer> leaves
\* behind it, in the order of the set.
GetExpired == expired' \in InOrder(Due) /\ timers' = timers \ Due

HandleTimeEvent ==
  /\ pc = "handle"
  /\ GetExpired
  /\ next' = 1
  /\ pc' = "run"
  /\ UNCHANGED <<clock, now, expiration, interval, pending, until, history>>

RunTimer ==
  /\ pc = "run"
  /\ next <= Len(expired)
  /\ runs' = [runs EXCEPT ![expired[next]] = @ + 1]
  /\ next' = next + 1
  /\ UNCHANGED <<clock, now, timerVars, pending, expired, pc, until, added,
                 due, setBacks>>

\* The second loop of handleTimeEvent: repeating timers start again from the
\* cached time, the others are deleted.
Restart ==
  /\ pc = "run"
  /\ next > Len(expired)
  /\ LET again == {t \in ToSet(expired) : IsRepeat(t)} IN
       /\ expiration' = [t \in Created |->
                           IF t \in again THEN Reset(t) ELSE expiration[t]]
       /\ timers' = timers \union again
  /\ expired' = <<>> /\ next' = 1
  /\ pc' = "functions"
  /\ UNCHANGED <<clock, now, interval, pending, until, history>>

\* doFunctions runs every addTimerInLoop pushed so far (module EventLoop).
DoFunctions ==
  /\ pc = "functions"
  /\ timers' = timers \union ToSet(pending)
  /\ pending' = <<>>
  /\ pc' = "compute"
  /\ UNCHANGED <<clock, now, expiration, interval, batchVars, until, history>>

Tick == /\ clock < MaxClock
        /\ clock' = clock + 1
        /\ UNCHANGED <<now, timerVars, pending, batchVars, pc, until, history>>

\* Somebody sets the clock to an earlier time.  What is left of a wait stays
\* the same, so that its end moves with the clock.
SetBack(to) ==
  /\ setBacks < MaxSetBacks
  /\ setBacks' = setBacks + 1
  /\ clock' = to
  /\ until' = IF until = Forever THEN Forever
              ELSE IF until <= clock THEN to
              ELSE to + (until - clock)
  /\ UNCHANGED <<now, timerVars, pending, batchVars, pc, added, due, runs>>
-----------------------------------------------------------------------------
LoopStep == EnterLoop \/ Poll \/ PollReturns \/ HandleTimeEvent \/ RunTimer
            \/ Restart \/ DoFunctions

Next == \/ LoopStep \/ SocketReady \/ Tick
        \/ \E to \in 0..(clock - 1) : SetBack(to)
        \/ \E t \in Timers : RunAfter(t) \/ RunEvery(t) \/ RunAt(t)

\* The loop thread is scheduled and time goes on; nobody owes an event.
Fairness == WF_vars(LoopStep) /\ WF_vars(Tick)

Spec == Init /\ [][Next]_vars /\ Fairness
-----------------------------------------------------------------------------
(* Properties.                                                             *)

\* Types, and no Timer* is in two places at once: in timers_, among the
\* functors of other threads or in the vector of expired timers.
TypeOK ==
  /\ clock \in 0..MaxClock /\ now \in 0..MaxClock
  /\ setBacks = 0 => now <= clock
  /\ Created \subseteq Timers
  /\ timers \subseteq Created
  /\ expiration \in [Created -> Nat] /\ interval \in [Created -> Nat]
  /\ pending \in Seq(Created) /\ IsInjective(pending)
  /\ expired \in Seq(Created) /\ IsInjective(expired)
  /\ next \in 1..(Len(expired) + 1)
  /\ pc \in {"setup", "compute", "poll", "handle", "run", "functions"}
  /\ until \in Nat \union {Forever}
  /\ pc # "poll" => until = Forever
  /\ pc # "run" => expired = <<>>
  /\ timers \intersect ToSet(pending) = {}
  /\ timers \intersect ToSet(expired) = {}
  /\ ToSet(pending) \intersect ToSet(expired) = {}
  /\ runs \in [Timers -> Nat]

\* No callback runs early, nor a second time if it is to run once: run number
\* k + 1 of a timer is not before its first date plus k intervals, although
\* the loop works with a cached time.  Once the clock has been set back, dates
\* mean nothing any more, but a timer that is not periodic still runs once.
NeverEarly ==
  [][\A t \in Timers :
       runs'[t] > runs[t] =>
         /\ runs[t] > 0 => interval[t] > 0
         /\ setBacks = 0 => clock >= due[t] + runs[t] * interval[t]]_vars

\* A callback runs only when no timer the loop knows of should have run
\* before it, unless that one was set for a date already past or the clock has
\* been set back.
RunsInOrder ==
  [][\A t \in Timers :
       setBacks = 0 /\ runs'[t] > runs[t] =>
         \A u \in timers \union ToSet(SubSeq(expired, next + 1, Len(expired))) :
           expiration[t] <= expiration[u] \/ due[u] < added[u]]_vars

\* Every timer's callback runs in the end, whichever thread created it and
\* however long the loop has been blocked by then, also when the clock has been
\* set back between the computation of a timeout and the end of the wait.
TimersFire == \A t \in Timers : t \in Created ~> runs[t] > 0
=============================================================================
