-------------------------- MODULE TimerQueueProofs --------------------------
\* Theorems about TimerQueue, for every set of timers, every delay and interval,
\* every clock and every width of the int an interval is computed in.
\*
\* The inductive invariant IInv has four parts beside the types. TypeOK keeps a
\* Timer* in one place only: the set, the vector of expired timers or a functor
\* still queued; without it a timer could be erased from one and run from the
\* other. Batch: the vector holds expired timers in the order of the set.
\* OnTime: a timer that waits anywhere is set for its turn or later, so what has
\* expired is not early. Later: what entered the set since the vector was filled
\* is later than everything in it, or was set for a date already past. The first
\* two of those give NeverEarly, all three RunsInOrder.
\*
\* That getExpired has a vector to return, the set in its order, needs the least
\* of a set of naturals, from the well-foundedness of < on Nat (LeastNumber).
EXTENDS TimerQueue, FiniteSetTheorems, WellFoundedInduction, TLAPS

\* The timers of the vector that have still to run, and those that have run.
InHand == {expired[i] : i \in next..Len(expired)}
Done   == {expired[i] : i \in 1..(next - 1)}

\* The timers that will run.
Waiting == timers \union ToSet(pending) \union InHand

\* When the next run of a timer is due at the earliest.
Turn(t) == due[t] + runs[t] * interval[t]

\* Types of the histories.
Histories ==
  /\ IsFiniteSet(Created)
  /\ added \in [Created -> Nat] /\ due \in [Created -> Nat]
  /\ setBacks \in Nat
  /\ \A t \in Timers \ Created : runs[t] = 0

\* The vector is in the order of the set, and everything in it has expired.
Batch ==
  /\ \A i, j \in DOMAIN expired : i < j => Before(expired[i], expired[j])
  /\ \A i \in DOMAIN expired : expiration[expired[i]] <= now

\* A timer that will run is set for its turn or later, and not for a second run
\* if it is to run once; one that has just run gets there when it is reset.
OnTime ==
  /\ \A t \in Waiting : /\ Turn(t) <= expiration[t]
                        /\ runs[t] > 0 => interval[t] > 0
  /\ \A t \in Done : Turn(t) <= expiration[t] + interval[t]

\* What has come into the set since the vector was taken out of it expires
\* later, or was set for a date already past.
Later ==
  pc = "run" /\ setBacks = 0 =>
    \A t \in timers : now <= expiration[t] \/ due[t] < added[t]

IInv == TypeOK /\ Histories /\ Batch /\ OnTime /\ Later

-----------------------------------------------------------------------------
(* Numbers and sequences.                                                  *)

\* A set of natural numbers has a least element.
LEMMA LeastNumber ==
  ASSUME NEW S, S \subseteq Nat, S # {}
  PROVE  \E e \in S : \A f \in S : e <= f
<1> DEFINE R == OpToRel(<, Nat)
<1>1. IsWellFoundedOn(R, Nat)
  BY NatLessThanWellFounded
<1>2. \A a, b \in Nat : a < b => <<a, b>> \in R
  BY DEF OpToRel
<1> HIDE DEF R
<1>3. PICK e \in S : \A f \in S : ~ (<<f, e>> \in R)
  BY <1>1, WFMin
<1>4. ASSUME NEW f \in S PROVE e <= f
  <2>1. e \in Nat /\ f \in Nat /\ ~ (<<f, e>> \in R)
    BY <1>3
  <2>2. ~ (f < e)
    BY <1>2, <2>1
  <2> QED BY <2>1, <2>2
<1> QED BY <1>4

\* The timeout that epoll_wait gets is an integer.
LEMMA TimeOutIsInt ==
  ASSUME NEW t \in Nat, timers \subseteq Created,
         expiration \in [Created -> Nat]
  PROVE  ToInt(TimeOut(t)) \in Int
<1>1. TimeOut(t) \in Int
  <2>1. CASE timers = {}
    BY <2>1 DEF TimeOut
  <2>2. CASE timers # {}
    <3> DEFINE S == {expiration[u] : u \in timers}
    <3>1. S \subseteq Nat /\ S # {}
      BY <2>2
    <3>2. PICK e \in S : \A f \in S : e <= f
      BY <3>1, LeastNumber
    <3>3. Earliest \in S
      BY <3>2 DEF Earliest
    <3> HIDE DEF S
    <3>4. Earliest \in Nat
      BY <3>1, <3>3
    <3> QED BY <2>2, <3>4 DEF TimeOut
  <2> QED BY <2>1, <2>2
<1>2. \A x \in Int : ToInt(x) \in Int
  BY TimerAssumption DEF ToInt
<1> QED BY <1>1, <1>2

\* One more run is one more interval.
LEMMA OneMore ==
  ASSUME NEW a \in Nat, NEW b \in Nat
  PROVE  (a + 1) * b = a * b + b /\ a * b \in Nat
  OBVIOUS

\* A timer that is not there yet is appended.
LEMMA AppendNew ==
  ASSUME NEW S, NEW s \in Seq(S), NEW e
  PROVE  /\ Append(s, e) \in Seq(S \union {e})
         /\ ToSet(Append(s, e)) = ToSet(s) \union {e}
         /\ IsInjective(s) /\ e \notin ToSet(s) => IsInjective(Append(s, e))
<1>1. /\ Len(s) \in Nat /\ DOMAIN s = 1..Len(s)
      /\ DOMAIN Append(s, e) = 1..(Len(s) + 1)
      /\ \A i \in 1..Len(s) : Append(s, e)[i] = s[i]
      /\ Append(s, e)[Len(s) + 1] = e
      /\ Append(s, e) \in Seq(S \union {e})
  OBVIOUS
<1>2. ASSUME NEW x \in ToSet(Append(s, e)) PROVE x \in ToSet(s) \union {e}
  BY <1>1, <1>2 DEF ToSet
<1>3. ASSUME NEW x \in ToSet(s) PROVE x \in ToSet(Append(s, e))
  <2>1. PICK i \in 1..Len(s) : x = s[i]
    BY <1>1, <1>3 DEF ToSet
  <2>2. i \in DOMAIN Append(s, e) /\ Append(s, e)[i] = x
    BY <1>1, <2>1
  <2> QED BY <2>2 DEF ToSet
<1>4. e \in ToSet(Append(s, e))
  <2>1. Len(s) + 1 \in DOMAIN Append(s, e)
    BY <1>1
  <2> QED BY <1>1, <2>1 DEF ToSet
<1>5. ASSUME IsInjective(s), e \notin ToSet(s) PROVE IsInjective(Append(s, e))
  <2> SUFFICES ASSUME NEW i \in 1..(Len(s) + 1), NEW j \in 1..(Len(s) + 1),
                      Append(s, e)[i] = Append(s, e)[j]
               PROVE  i = j
    BY <1>1 DEF IsInjective
  <2>1. \A k \in 1..Len(s) : s[k] \in ToSet(s)
    BY <1>1 DEF ToSet
  <2>2. i = Len(s) + 1 \/ i \in 1..Len(s)
    BY <1>1
  <2>3. j = Len(s) + 1 \/ j \in 1..Len(s)
    BY <1>1
  <2>4. ASSUME i \in 1..Len(s), j \in 1..Len(s) PROVE i = j
    BY <1>1, <1>5, <2>4 DEF IsInjective
  <2> QED BY <1>1, <1>5, <2>1, <2>2, <2>3, <2>4
<1> QED BY <1>1, <1>2, <1>3, <1>4, <1>5

\* The vector of getExpired.
LEMMA ExpiredVector ==
  ASSUME NEW S, IsFiniteSet(S), S \subseteq Created, Created \subseteq Nat,
         expiration \in [Created -> Nat], NEW s \in InOrder(S)
  PROVE  /\ s \in Seq(S) /\ ToSet(s) = S /\ IsInjective(s)
         /\ \A i, j \in DOMAIN s : i < j => Before(s[i], s[j])
<1>1. Cardinality(S) \in Nat
  BY FS_CardinalityType
<1>2. /\ s \in [1..Cardinality(S) -> S] /\ ToSet(s) = S
      /\ \A i, j \in DOMAIN s : i < j => Before(s[i], s[j])
  BY DEF InOrder
<1>3. s \in Seq(S)
  BY <1>1, <1>2
<1>4. IsInjective(s)
  <2> SUFFICES ASSUME NEW i \in DOMAIN s, NEW j \in DOMAIN s, s[i] = s[j]
               PROVE  i = j
    BY DEF IsInjective
  <2>1. i \in 1..Cardinality(S) /\ j \in 1..Cardinality(S) /\ s[i] \in S
    BY <1>1, <1>2
  <2>2. i \in Nat /\ j \in Nat
    BY <1>1, <2>1
  <2>3. s[i] \in Nat /\ expiration[s[i]] \in Nat
    BY <2>1
  <2>4. ~ Before(s[i], s[j]) /\ ~ Before(s[j], s[i])
    BY <2>3 DEF Before
  <2> QED BY <1>2, <2>2, <2>4
<1> QED BY <1>2, <1>3, <1>4

-----------------------------------------------------------------------------
(* Creating a timer.                                                       *)

\* What the histories and the invariant's parts say of a timer that is there.
LEMMA WaitingTypes ==
  ASSUME TypeOK
  PROVE  /\ \A i \in DOMAIN expired : expired[i] \in Created
         /\ DOMAIN expired = 1..Len(expired) /\ Len(expired) \in Nat
         /\ InHand \subseteq ToSet(expired) /\ Done \subseteq ToSet(expired)
         /\ ToSet(expired) \subseteq Created /\ ToSet(pending) \subseteq Created
         /\ Waiting \subseteq Created /\ Done \intersect Waiting = {}
<1>1. /\ expired \in Seq(Created) /\ IsInjective(expired)
      /\ pending \in Seq(Created) /\ timers \subseteq Created
      /\ next \in 1..(Len(expired) + 1)
      /\ timers \intersect ToSet(expired) = {}
      /\ ToSet(pending) \intersect ToSet(expired) = {}
  BY DEF TypeOK
<1>2. /\ DOMAIN expired = 1..Len(expired) /\ Len(expired) \in Nat
      /\ \A i \in DOMAIN expired : expired[i] \in Created
      /\ \A i \in DOMAIN pending : pending[i] \in Created
  BY <1>1
<1>3. ToSet(expired) \subseteq Created /\ ToSet(pending) \subseteq Created
  BY <1>2 DEF ToSet
<1>4. InHand \subseteq ToSet(expired) /\ Done \subseteq ToSet(expired)
  BY <1>1, <1>2 DEF InHand, Done, ToSet
<1>5. Done \intersect InHand = {}
  BY <1>1, <1>2 DEF InHand, Done, IsInjective
<1> QED BY <1>1, <1>2, <1>3, <1>4, <1>5 DEF Waiting

\* RunAt, RunAfter and RunEvery, from the loop thread or another one.
LEMMA AddStep ==
  ASSUME IInv, NEW t \in Timers, NEW when \in Nat, NEW every \in Nat,
         AddTimer(t, when, every)
  PROVE  IInv'
<1>1. /\ t \in Timers /\ t \notin Created
      /\ expiration' = With(expiration, t, when)
      /\ interval' = With(interval, t, every)
      /\ added' = With(added, t, clock) /\ due' = With(due, t, when)
      /\ UNCHANGED <<clock, now, expired, next, pc, until, runs, setBacks>>
  BY DEF AddTimer, NewTimer, batchVars
<1>2. \/ /\ timers' = timers \union {t} /\ pending' = pending
      \/ /\ timers' = timers /\ pending' = Append(pending, t)
  BY DEF AddTimer, InLoop, Outside
<1>t. /\ Created \subseteq Timers /\ timers \subseteq Created
      /\ expiration \in [Created -> Nat] /\ interval \in [Created -> Nat]
      /\ added \in [Created -> Nat] /\ due \in [Created -> Nat]
      /\ pending \in Seq(Created) /\ expired \in Seq(Created)
      /\ clock \in Nat /\ now \in Nat /\ runs \in [Timers -> Nat]
      /\ IsInjective(pending) /\ IsFiniteSet(Created)
  BY TimerAssumption DEF IInv, TypeOK, Histories
<1>w. /\ ToSet(expired) \subseteq Created /\ ToSet(pending) \subseteq Created
      /\ Waiting \subseteq Created /\ Done \subseteq Created
  BY WaitingTypes DEF IInv
<1>3. /\ Created' = Created \union {t}
      /\ expiration' \in [Created' -> Nat] /\ interval' \in [Created' -> Nat]
      /\ added' \in [Created' -> Nat] /\ due' \in [Created' -> Nat]
      /\ expiration'[t] = when /\ due'[t] = when /\ added'[t] = clock
      /\ interval'[t] = every /\ runs[t] = 0
      /\ \A u \in Created : /\ expiration'[u] = expiration[u] /\ due'[u] = due[u]
                            /\ added'[u] = added[u] /\ interval'[u] = interval[u]
  BY <1>1, <1>t DEF With, Created, IInv, Histories
<1>4. /\ pending' \in Seq(Created') /\ IsInjective(pending')
      /\ ToSet(pending') \subseteq ToSet(pending) \union {t}
      /\ timers' \subseteq timers \union {t}
      /\ t \in timers' => ToSet(pending') = ToSet(pending)
  <2>1. t \notin ToSet(pending) /\ t \notin timers
    BY <1>1, <1>t, <1>w
  <2>2. CASE timers' = timers \union {t} /\ pending' = pending
    <3>1. pending' \in Seq(Created')
      BY <1>3, <1>t, <2>2
    <3> QED BY <1>t, <2>2, <3>1
  <2>3. CASE timers' = timers /\ pending' = Append(pending, t)
    <3>1. /\ Append(pending, t) \in Seq(Created \union {t})
          /\ ToSet(Append(pending, t)) = ToSet(pending) \union {t}
          /\ IsInjective(Append(pending, t))
      BY <1>t, <2>1, AppendNew
    <3> QED BY <1>3, <2>1, <2>3, <3>1
  <2> QED BY <1>2, <2>2, <2>3
<1>5. expired' \in Seq(Created')
  BY <1>1, <1>3, <1>t
<1>6. TypeOK'
  <2>1. /\ timers' \subseteq Created' /\ Created' \subseteq Timers
        /\ timers' \intersect ToSet(pending') = {}
        /\ timers' \intersect ToSet(expired') = {}
        /\ ToSet(pending') \intersect ToSet(expired') = {}
    <3>1. /\ timers \intersect ToSet(pending) = {}
          /\ timers \intersect ToSet(expired) = {}
          /\ ToSet(pending) \intersect ToSet(expired) = {}
          /\ expired' = expired /\ t \notin ToSet(pending)
          /\ t \notin ToSet(expired)
      BY <1>1, <1>w DEF IInv, TypeOK
    <3>2. timers' \subseteq Created' /\ Created' \subseteq Timers
      BY <1>3, <1>4, <1>t
    <3> QED BY <1>4, <3>1, <3>2
  <2> QED BY <1>1, <1>3, <1>4, <1>5, <2>1 DEF IInv, TypeOK
<1>7. Histories'
  <2>1. IsFiniteSet(Created')
    BY <1>3, <1>t, FS_AddElement
  <2> QED BY <1>1, <1>3, <2>1 DEF IInv, Histories
<1>8. Batch'
  <2>1. \A i \in DOMAIN expired : expired[i] \in Created
    BY WaitingTypes DEF IInv
  <2> QED BY <1>1, <1>3, <2>1 DEF IInv, Batch, Before
<1>9. Waiting' \subseteq Waiting \union {t} /\ Done' = Done
  BY <1>1, <1>4 DEF Waiting, InHand, Done
<1>10. OnTime'
  <2>1. \A u \in Created : Turn(u)' = Turn(u)
    BY <1>1, <1>3 DEF Turn
  <2>2. Turn(t)' = when
    BY <1>1, <1>3 DEF Turn
  <2>3. ASSUME NEW u \in Waiting'
        PROVE  Turn(u)' <= expiration'[u] /\ (runs'[u] > 0 => interval'[u] > 0)
    <3>1. CASE u = t
      BY <1>1, <1>3, <2>2, <3>1
    <3>2. CASE u \in Waiting
      BY <1>1, <1>3, <1>w, <2>1, <3>2 DEF IInv, OnTime
    <3> QED BY <1>9, <3>1, <3>2
  <2>4. \A u \in Done' : Turn(u)' <= expiration'[u] + interval'[u]
    BY <1>3, <1>9, <1>w, <2>1 DEF IInv, OnTime
  <2> QED BY <2>3, <2>4 DEF OnTime
<1>11. Later'
  <2> SUFFICES ASSUME pc = "run", setBacks = 0, NEW u \in timers'
               PROVE  now <= expiration'[u] \/ due'[u] < added'[u]
    BY <1>1 DEF Later
  <2>1. CASE u = t
    <3>1. now <= clock
      BY DEF IInv, TypeOK
    <3> QED BY <1>3, <1>t, <2>1, <3>1
  <2>2. CASE u \in timers
    BY <1>3, <1>t, <2>2 DEF IInv, Later
  <2> QED BY <1>4, <2>1, <2>2
<1> QED BY <1>6, <1>7, <1>8, <1>10, <1>11 DEF IInv

-----------------------------------------------------------------------------
(* The loop.                                                               *)

\* Steps that touch neither a timer nor the vector: the loop goes on outside
\* handleTimeEvent, time passes, or the clock is set back.
LEMMA QuietSteps ==
  ASSUME IInv, \/ EnterLoop \/ Poll \/ PollReturns \/ SocketReady \/ Tick
               \/ \E to \in 0..(clock - 1) : SetBack(to)
               \/ UNCHANGED vars
  PROVE  IInv'
<1> USE DEF timerVars, batchVars, history
<1>1. /\ UNCHANGED <<timers, expiration, interval, pending, expired, next, added,
                     due, runs>>
      /\ pc' = "run" => pc = "run"
      /\ pc' \in {pc, "compute", "poll", "handle"}
      /\ pc = "run" => pc' = "run"
      /\ now' # now => expired = <<>>
      /\ setBacks' \in {setBacks, setBacks + 1}
      /\ pc' = "run" => now' = now
  BY DEF EnterLoop, Poll, PollReturns, SocketReady, Tick, SetBack, vars, IInv,
         TypeOK
<1>t. /\ clock \in 0..MaxClock /\ now \in 0..MaxClock /\ MaxClock \in Nat
      /\ setBacks \in Nat /\ (setBacks = 0 => now <= clock)
      /\ until \in Nat \union {Forever} /\ (pc # "poll" => until = Forever)
      /\ timers \subseteq Created /\ expiration \in [Created -> Nat]
      /\ TicksPerMs \in Nat
  BY TimerAssumption DEF IInv, TypeOK, Histories
<1>2. Created' = Created
  BY <1>1 DEF Created
<1>3. /\ clock' \in 0..MaxClock /\ now' \in 0..MaxClock
      /\ setBacks' = 0 => setBacks = 0 /\ now' <= clock'
      /\ until' \in Nat \union {Forever} /\ (pc' # "poll" => until' = Forever)
  <2>1. CASE EnterLoop \/ PollReturns \/ SocketReady \/ UNCHANGED vars
    BY <1>t, <2>1 DEF EnterLoop, PollReturns, SocketReady, vars
  <2>2. CASE Tick
    BY <1>t, <2>2 DEF Tick
  <2>3. CASE Poll
    <3>1. ToInt(TimeOut(clock)) \in Int
      BY <1>t, TimeOutIsInt
    <3>2. PICK wait \in Int :
            /\ wait = ToInt(TimeOut(clock))
            /\ until' = IF wait < 0 THEN Forever ELSE clock + wait * TicksPerMs
      BY <2>3, <3>1 DEF Poll
    <3>3. wait >= 0 => wait * TicksPerMs \in Nat
      BY <1>t
    <3>4. until' \in Nat \union {Forever}
      BY <1>t, <3>2, <3>3
    <3> QED BY <1>t, <2>3, <3>4 DEF Poll
  <2>4. ASSUME NEW to \in 0..(clock - 1), SetBack(to)
        PROVE  /\ clock' \in 0..MaxClock /\ now' \in 0..MaxClock
               /\ setBacks' = 0 => setBacks = 0 /\ now' <= clock'
               /\ until' \in Nat \union {Forever}
               /\ pc' # "poll" => until' = Forever
    BY <1>t, <2>4 DEF SetBack, Forever
  <2> QED BY <2>1, <2>2, <2>3, <2>4
<1>4. TypeOK'
  BY <1>1, <1>2, <1>3 DEF IInv, TypeOK
<1>5. Histories'
  BY <1>1, <1>2, <1>t DEF IInv, Histories
<1>6. Batch'
  <2>1. now' # now => DOMAIN expired = {}
    BY <1>1
  <2> QED BY <1>1, <2>1 DEF IInv, Batch, Before
<1>7. Waiting' = Waiting /\ Done' = Done /\ \A t : Turn(t)' = Turn(t)
  BY <1>1 DEF Waiting, InHand, Done, Turn
<1>8. OnTime'
  BY <1>1, <1>7 DEF IInv, OnTime
<1>9. Later'
  BY <1>1, <1>3 DEF IInv, Later
<1> QED BY <1>4, <1>5, <1>6, <1>8, <1>9 DEF IInv

\* The expired timers are taken out of the set.
LEMMA HandleTimeEventStep ==
  ASSUME IInv, HandleTimeEvent
  PROVE  IInv'
<1> USE DEF timerVars, batchVars, history
<1>1. /\ pc = "handle" /\ expired' \in InOrder(Due) /\ timers' = timers \ Due
      /\ next' = 1 /\ pc' = "run"
      /\ UNCHANGED <<clock, now, expiration, interval, pending, until, added,
                     due, runs, setBacks>>
  BY DEF HandleTimeEvent, GetExpired
<1>t. /\ Created \subseteq Timers /\ Timers \subseteq Nat /\ timers \subseteq Created
      /\ expiration \in [Created -> Nat] /\ IsFiniteSet(Created)
      /\ now \in Nat /\ expired = <<>>
  BY <1>1, TimerAssumption DEF IInv, TypeOK, Histories
<1>2. Created' = Created
  BY <1>1 DEF Created
<1>3. Due \subseteq timers /\ IsFiniteSet(Due)
  BY <1>t, FS_Subset DEF Due
<1>4. /\ expired' \in Seq(Due) /\ ToSet(expired') = Due /\ IsInjective(expired')
      /\ \A i, j \in DOMAIN expired' : i < j => Before(expired'[i], expired'[j])
  BY <1>1, <1>3, <1>t, ExpiredVector
<1>5. /\ expired' \in Seq(Created) /\ Len(expired') \in Nat
      /\ DOMAIN expired' = 1..Len(expired')
  <2>1. Due \subseteq Created
    BY <1>3, <1>t
  <2>2. expired' \in Seq(Created)
    BY <1>4, <2>1
  <2> QED BY <2>2
<1>6. TypeOK'
  <2>1. next' \in 1..(Len(expired') + 1)
    BY <1>1, <1>5
  <2>2. /\ timers' \intersect ToSet(pending') = {}
        /\ timers' \intersect ToSet(expired') = {}
        /\ ToSet(pending') \intersect ToSet(expired') = {}
    BY <1>1, <1>3, <1>4 DEF IInv, TypeOK
  <2> QED BY <1>1, <1>2, <1>4, <1>5, <2>1, <2>2 DEF IInv, TypeOK
<1>7. Histories'
  BY <1>1, <1>2 DEF IInv, Histories
<1>8. \A i \in DOMAIN expired' : expired'[i] \in Due
  BY <1>4, <1>5
<1>9. Batch'
  BY <1>1, <1>4, <1>8 DEF Batch, Before, Due
<1>10. InHand' \subseteq Due /\ Done' = {}
  BY <1>1, <1>5, <1>8 DEF InHand, Done
<1>11. Waiting' \subseteq Waiting
  BY <1>1, <1>3, <1>10 DEF Waiting
<1>12. OnTime'
  BY <1>1, <1>10, <1>11 DEF IInv, OnTime, Turn
<1>13. Later'
  <2>1. \A u \in timers \ Due : now <= expiration[u]
    BY <1>t DEF Due
  <2> QED BY <1>1, <2>1 DEF Later
<1> QED BY <1>6, <1>7, <1>9, <1>12, <1>13 DEF IInv

\* The next timer of the vector runs.
LEMMA RunTimerStep ==
  ASSUME IInv, RunTimer
  PROVE  IInv'
<1> USE DEF timerVars, batchVars, history
<1>0. PICK t : t = expired[next]
  OBVIOUS
<1>1. /\ pc = "run" /\ next <= Len(expired)
      /\ runs' = [runs EXCEPT ![t] = @ + 1] /\ next' = next + 1
      /\ UNCHANGED <<clock, now, timers, expiration, interval, pending, expired,
                     pc, until, added, due, setBacks>>
  BY <1>0 DEF RunTimer
<1>t. /\ Created \subseteq Timers /\ timers \subseteq Created
      /\ expiration \in [Created -> Nat] /\ interval \in [Created -> Nat]
      /\ due \in [Created -> Nat] /\ runs \in [Timers -> Nat]
      /\ next \in 1..(Len(expired) + 1)
      /\ IsInjective(expired)
      /\ timers \intersect ToSet(expired) = {}
      /\ ToSet(pending) \intersect ToSet(expired) = {}
  BY DEF IInv, TypeOK, Histories
<1>w. /\ \A i \in DOMAIN expired : expired[i] \in Created
      /\ DOMAIN expired = 1..Len(expired) /\ Len(expired) \in Nat
      /\ InHand \subseteq ToSet(expired) /\ Done \subseteq ToSet(expired)
      /\ Waiting \subseteq Created /\ Done \subseteq Created
  BY WaitingTypes DEF IInv
<1>2. next \in DOMAIN expired /\ t \in Created /\ t \in InHand
  <2>1. next \in 1..Len(expired) /\ next \in next..Len(expired)
    BY <1>1, <1>t, <1>w
  <2>2. t \in InHand
    BY <1>0, <2>1 DEF InHand
  <2> QED BY <1>0, <1>w, <2>1, <2>2
<1>3. t \in Waiting
  BY <1>2 DEF Waiting
<1>4. Created' = Created
  BY <1>1 DEF Created
<1>5. TypeOK'
  <2>1. runs' \in [Timers -> Nat] /\ next' \in 1..(Len(expired) + 1)
    BY <1>1, <1>2, <1>t, <1>w
  <2> QED BY <1>1, <1>4, <2>1 DEF IInv, TypeOK
<1>6. Histories'
  BY <1>1, <1>2, <1>4, <1>t DEF IInv, Histories
<1>7. Batch'
  BY <1>1 DEF IInv, Batch, Before
<1>8. /\ InHand' \subseteq InHand /\ t \notin InHand' /\ Done' = Done \union {t}
      /\ t \notin Done
  <2>1. /\ next \in 1..Len(expired) /\ Len(expired) \in Nat /\ next' - 1 = next
        /\ \A i, j \in 1..Len(expired) : expired[i] = expired[j] => i = j
    <3>1. \A i, j \in 1..Len(expired) : expired[i] = expired[j] => i = j
      BY <1>t, <1>w DEF IsInjective
    <3> QED BY <1>1, <1>2, <1>t, <1>w, <3>1
  <2>2. /\ (next + 1)..Len(expired) \subseteq next..Len(expired)
        /\ next \notin (next + 1)..Len(expired)
        /\ next..Len(expired) \subseteq 1..Len(expired)
        /\ 1..next = 1..(next - 1) \union {next}
        /\ 1..next \subseteq 1..Len(expired) /\ next \notin 1..(next - 1)
    BY <2>1
  <2> DEFINE I == (next + 1)..Len(expired)
             J == 1..(next - 1)
             K == next..Len(expired)
             D == 1..Len(expired)
  <2>3. /\ InHand' = {expired[i] : i \in (next + 1)..Len(expired)}
        /\ Done' = {expired[i] : i \in 1..next}
    BY <1>1, <2>1 DEF InHand, Done
  <2>4. /\ InHand = {expired[i] : i \in K} /\ InHand' = {expired[i] : i \in I}
        /\ Done = {expired[i] : i \in J}
        /\ Done' = {expired[i] : i \in J \union {next}}
        /\ I \subseteq K /\ I \subseteq D /\ J \subseteq D /\ next \in D
        /\ next \notin I /\ next \notin J
        /\ \A i, j \in D : expired[i] = expired[j] => i = j
    BY <2>1, <2>2, <2>3 DEF InHand, Done
  <2> HIDE DEF I, J, K, D
  <2>5. InHand' \subseteq InHand /\ t \notin InHand'
    BY <1>0, <2>4
  <2>6. Done' = Done \union {t} /\ t \notin Done
    BY <1>0, <2>4
  <2> QED BY <2>5, <2>6
<1>9. Waiting' \subseteq Waiting /\ t \notin Waiting'
  BY <1>1, <1>2, <1>8, <1>t, <1>w DEF Waiting
<1>10. \A u \in Created : u # t => runs'[u] = runs[u] /\ Turn(u)' = Turn(u)
  BY <1>1, <1>t DEF Turn
<1>11. Turn(t)' = Turn(t) + interval[t] /\ Turn(t) \in Nat
  <2>1. runs'[t] = runs[t] + 1 /\ runs[t] \in Nat /\ interval[t] \in Nat
        /\ due[t] \in Nat
    BY <1>1, <1>2, <1>t
  <2>2. PICK k, e, p : k = runs[t] /\ e = interval[t] /\ p = k * e
    OBVIOUS
  <2>3. (k + 1) * e = p + e /\ p \in Nat
    BY <2>1, <2>2, OneMore
  <2>4. Turn(t)' = due[t] + (k + 1) * e /\ Turn(t) = due[t] + p
    BY <1>1, <2>1, <2>2 DEF Turn
  <2> QED BY <2>1, <2>2, <2>3, <2>4
<1>12. OnTime'
  <2>1. \A u \in Waiting' : /\ Turn(u)' <= expiration[u]
                            /\ runs'[u] > 0 => interval[u] > 0
    BY <1>9, <1>10, <1>w DEF IInv, OnTime
  <2>2. Turn(t)' <= expiration[t] + interval[t]
    BY <1>2, <1>3, <1>11, <1>t DEF IInv, OnTime
  <2>3. \A u \in Done' : Turn(u)' <= expiration[u] + interval[u]
    BY <1>8, <1>10, <1>w, <2>2 DEF IInv, OnTime
  <2> QED BY <1>1, <2>1, <2>3 DEF OnTime
<1>13. Later'
  BY <1>1 DEF IInv, Later
<1> QED BY <1>5, <1>6, <1>7, <1>12, <1>13 DEF IInv

\* The vector has run: periodic timers go back into the set.
LEMMA RestartStep ==
  ASSUME IInv, Restart
  PROVE  IInv'
<1> USE DEF timerVars, batchVars, history
<1>0. PICK again : again = {t \in ToSet(expired) : IsRepeat(t)}
  OBVIOUS
<1>1. /\ pc = "run" /\ next > Len(expired)
      /\ expiration' = [t \in Created |->
                          IF t \in again THEN Reset(t) ELSE expiration[t]]
      /\ timers' = timers \union again
      /\ expired' = <<>> /\ next' = 1 /\ pc' = "functions"
      /\ UNCHANGED <<clock, now, interval, pending, until, added, due, runs,
                     setBacks>>
  BY <1>0 DEF Restart
<1>t. /\ Created \subseteq Timers /\ timers \subseteq Created
      /\ expiration \in [Created -> Nat] /\ interval \in [Created -> Nat]
      /\ now \in Nat /\ clock \in Nat
      /\ due \in [Created -> Nat] /\ runs \in [Timers -> Nat]
      /\ next \in 1..(Len(expired) + 1)
      /\ timers \intersect ToSet(pending) = {}
      /\ timers \intersect ToSet(expired) = {}
      /\ ToSet(pending) \intersect ToSet(expired) = {}
  BY TimerAssumption DEF IInv, TypeOK, Histories
<1>w. /\ \A i \in DOMAIN expired : expired[i] \in Created
      /\ DOMAIN expired = 1..Len(expired) /\ Len(expired) \in Nat
      /\ ToSet(expired) \subseteq Created /\ ToSet(pending) \subseteq Created
  BY WaitingTypes DEF IInv
<1>2. again \subseteq ToSet(expired) /\ \A u \in again : interval[u] > 0
  BY <1>0 DEF IsRepeat
<1>3. /\ Created' = Created /\ expiration' \in [Created -> Nat]
      /\ \A u \in again : expiration'[u] = now + interval[u]
      /\ \A u \in Created \ again : expiration'[u] = expiration[u]
  <2>1. \A u \in Created : now + interval[u] \in Nat
    BY <1>t
  <2> QED BY <1>1, <1>2, <1>t, <1>w, <2>1 DEF Reset, Created
<1>4. ToSet(expired') = {} /\ expired' \in Seq(Created) /\ IsInjective(expired')
      /\ Len(expired') = 0 /\ DOMAIN expired' = {}
  BY <1>1 DEF ToSet, IsInjective
<1>5. TypeOK'
  <2>1. /\ timers' \subseteq Created
        /\ timers' \intersect ToSet(pending') = {}
    BY <1>1, <1>2, <1>t, <1>w
  <2> QED BY <1>1, <1>3, <1>4, <2>1 DEF IInv, TypeOK
<1>6. Histories'
  BY <1>1, <1>3 DEF IInv, Histories
<1>7. Batch'
  BY <1>4 DEF Batch
<1>8. InHand' = {} /\ Done' = {}
  BY <1>1, <1>4 DEF InHand, Done
<1>9. \A u \in ToSet(expired) : u \in Done /\ expiration[u] <= now
  <2> SUFFICES ASSUME NEW i \in DOMAIN expired
               PROVE  expired[i] \in Done /\ expiration[expired[i]] <= now
    BY DEF ToSet
  <2>1. i \in 1..(next - 1)
    BY <1>1, <1>t, <1>w
  <2> QED BY <2>1 DEF Done, IInv, Batch
<1>10. OnTime'
  <2>1. ASSUME NEW u \in Waiting'
        PROVE  Turn(u) <= expiration'[u] /\ (runs[u] > 0 => interval[u] > 0)
    <3>1. CASE u \in again
      <4>1. /\ Turn(u) <= expiration[u] + interval[u] /\ expiration[u] <= now
            /\ expiration'[u] = now + interval[u] /\ interval[u] > 0
            /\ u \in Created
        BY <1>2, <1>3, <1>9, <1>w, <3>1 DEF IInv, OnTime
      <4>2. /\ expiration[u] \in Nat /\ interval[u] \in Nat /\ Turn(u) \in Nat
        <5>1. due[u] \in Nat /\ runs[u] \in Nat /\ interval[u] \in Nat
          BY <1>t, <4>1
        <5>2. runs[u] * interval[u] \in Nat
          BY <5>1
        <5> QED BY <1>t, <4>1, <5>1, <5>2 DEF Turn
      <4> QED BY <1>t, <4>1, <4>2
    <3>2. CASE u \notin again
      <4>1. u \in timers \union ToSet(pending)
        BY <1>1, <1>8, <2>1, <3>2 DEF Waiting
      <4>2. u \in Created /\ u \in Waiting
        BY <1>t, <1>w, <4>1 DEF Waiting
      <4> QED BY <1>3, <3>2, <4>2 DEF IInv, OnTime
    <3> QED BY <3>1, <3>2
  <2> QED BY <1>1, <1>8, <2>1 DEF OnTime, Turn
<1>11. Later'
  BY <1>1 DEF Later
<1> QED BY <1>5, <1>6, <1>7, <1>10, <1>11 DEF IInv

\* The functors of other threads put their timers into the set.
LEMMA DoFunctionsStep ==
  ASSUME IInv, DoFunctions
  PROVE  IInv'
<1> USE DEF timerVars, batchVars, history
<1>1. /\ pc = "functions" /\ timers' = timers \union ToSet(pending)
      /\ pending' = <<>> /\ pc' = "compute"
      /\ UNCHANGED <<clock, now, expiration, interval, expired, next, until,
                     added, due, runs, setBacks>>
  BY DEF DoFunctions
<1>2. /\ Created' = Created /\ expired = <<>>
      /\ ToSet(pending) \subseteq Created
      /\ timers \subseteq Created
  BY <1>1, WaitingTypes DEF Created, IInv, TypeOK
<1>3. ToSet(pending') = {} /\ pending' \in Seq(Created) /\ IsInjective(pending')
  BY <1>1 DEF ToSet, IsInjective
<1>4. ToSet(expired) = {}
  BY <1>2 DEF ToSet
<1>5. TypeOK'
  BY <1>1, <1>2, <1>3, <1>4 DEF IInv, TypeOK
<1>6. Histories'
  BY <1>1, <1>2 DEF IInv, Histories
<1>7. Batch'
  BY <1>1 DEF IInv, Batch, Before
<1>8. Waiting' = Waiting /\ Done' = Done
  BY <1>1, <1>3 DEF Waiting, InHand, Done
<1>9. OnTime'
  BY <1>1, <1>8 DEF IInv, OnTime, Turn
<1>10. Later'
  BY <1>1 DEF Later
<1> QED BY <1>5, <1>6, <1>7, <1>9, <1>10 DEF IInv

-----------------------------------------------------------------------------
(* The theorems.                                                           *)

\* There is no timer yet.
LEMMA InitInv == Init => IInv
<1> SUFFICES ASSUME Init PROVE IInv
  OBVIOUS
<1>1. /\ clock = 0 /\ now = 0 /\ timers = {} /\ expiration = <<>>
      /\ interval = <<>> /\ pending = <<>> /\ expired = <<>> /\ next = 1
      /\ pc = "setup" /\ until = Forever /\ added = <<>> /\ due = <<>>
      /\ runs = [t \in Timers |-> 0] /\ setBacks = 0 /\ MaxClock \in Nat
  BY TimerAssumption DEF Init
<1>2. /\ Created = {} /\ \A S : <<>> \in [{} -> S] /\ <<>> \in Seq(S)
      /\ IsInjective(<<>>) /\ ToSet(<<>>) = {} /\ Len(<<>>) = 0
  BY <1>1 DEF Created, IsInjective, ToSet
<1>3. TypeOK
  BY <1>1, <1>2 DEF TypeOK
<1>4. Histories
  BY <1>1, <1>2, FS_EmptySet DEF Histories
<1>5. Batch /\ Later
  BY <1>1 DEF Batch, Later
<1>6. Waiting = {} /\ Done = {}
  BY <1>1, <1>2 DEF Waiting, InHand, Done
<1>7. OnTime
  BY <1>6 DEF OnTime
<1> QED BY <1>3, <1>4, <1>5, <1>7 DEF IInv

\* Creating a timer, in each of the three ways.
LEMMA CreateSteps ==
  ASSUME IInv, NEW t \in Timers, RunAfter(t) \/ RunEvery(t) \/ RunAt(t)
  PROVE  IInv'
<1>1. clock \in Nat
  BY TimerAssumption DEF IInv, TypeOK
<1>2. \A d \in Delays : d \in Nat /\ clock + d \in Nat
  BY <1>1, TimerAssumption
<1>3. \A d \in Dates : d \in Nat
  BY TimerAssumption
<1> QED BY <1>2, <1>3, AddStep DEF RunAfter, RunEvery, RunAt

\* The invariant holds in every reachable state.
LEMMA Invariance == Spec => []IInv
<1>1. IInv /\ [Next]_vars => IInv'
  BY QuietSteps, HandleTimeEventStep, RunTimerStep, RestartStep, DoFunctionsStep,
     CreateSteps DEF Next, LoopStep
<1> QED BY <1>1, InitInv, PTL DEF Spec

\* Types, and no Timer* is in two of timers_, the functors of other threads and
\* the vector of expired timers.
THEOREM TypeCorrect == Spec => []TypeOK
<1>1. IInv => TypeOK
  BY DEF IInv
<1> QED BY <1>1, Invariance, PTL

\* Only the first loop of handleTimeEvent runs a callback.
LEMMA OnlyRunTimer ==
  ASSUME IInv, [Next]_vars, NEW t \in Timers, runs'[t] > runs[t]
  PROVE  RunTimer /\ t = expired[next] /\ next \in 1..Len(expired) /\ t \in Waiting
<1>t. /\ runs \in [Timers -> Nat] /\ next \in 1..(Len(expired) + 1)
      /\ Len(expired) \in Nat
  BY WaitingTypes DEF IInv, TypeOK
<1>1. runs[t] \in Nat
  BY <1>t
<1>2. runs' # runs
  BY <1>1
<1>3. RunTimer
  BY <1>2 DEF Next, LoopStep, EnterLoop, Poll, PollReturns, HandleTimeEvent,
     Restart, DoFunctions, SocketReady, Tick, SetBack, RunAfter, RunEvery, RunAt,
     AddTimer, NewTimer, vars, history
<1>4. next <= Len(expired) /\ runs' = [runs EXCEPT ![expired[next]] = @ + 1]
  BY <1>3 DEF RunTimer
<1>5. t = expired[next]
  BY <1>1, <1>4, <1>t
<1>6. next \in 1..Len(expired) /\ next \in next..Len(expired)
  BY <1>4, <1>t
<1>7. t \in Waiting
  BY <1>5, <1>6 DEF Waiting, InHand
<1> QED BY <1>3, <1>5, <1>6, <1>7

\* No callback runs before its turn, nor twice if it is to run once, as long as
\* the clock is not set back.
THEOREM NeverEarlyHolds == Spec => NeverEarly
<1>1. ASSUME IInv, [Next]_vars, NEW t \in Timers, runs'[t] > runs[t]
      PROVE  /\ runs[t] > 0 => interval[t] > 0
             /\ setBacks = 0 => clock >= due[t] + runs[t] * interval[t]
  <2>1. t = expired[next] /\ next \in 1..Len(expired) /\ t \in Waiting
    BY <1>1, OnlyRunTimer
  <2>2. Turn(t) <= expiration[t] /\ (runs[t] > 0 => interval[t] > 0)
    BY <1>1, <2>1 DEF IInv, OnTime
  <2>3. DOMAIN expired = 1..Len(expired) /\ t \in Created
    BY <1>1, <2>1, WaitingTypes DEF IInv
  <2>4. expiration[t] <= now
    BY <1>1, <2>1, <2>3 DEF IInv, Batch
  <2>5. /\ setBacks = 0 => now <= clock
        /\ clock \in Nat /\ now \in Nat /\ expiration[t] \in Nat
    BY <1>1, <2>3, TimerAssumption DEF IInv, TypeOK
  <2>6. Turn(t) \in Nat
    <3>1. due[t] \in Nat /\ runs[t] \in Nat /\ interval[t] \in Nat
      BY <1>1, <2>3 DEF IInv, TypeOK, Histories
    <3>2. runs[t] * interval[t] \in Nat
      BY <3>1, OneMore
    <3> QED BY <3>1, <3>2 DEF Turn
  <2>7. setBacks = 0 => clock >= Turn(t)
    BY <2>2, <2>4, <2>5, <2>6
  <2> QED BY <2>2, <2>7 DEF Turn
<1> DEFINE A == \A t \in Timers :
                  runs'[t] > runs[t] =>
                    /\ runs[t] > 0 => interval[t] > 0
                    /\ setBacks = 0 => clock >= due[t] + runs[t] * interval[t]
<1>2. IInv /\ [Next]_vars => [A]_vars
  BY <1>1
<1>3. NeverEarly <=> [][A]_vars
  BY DEF NeverEarly
<1> HIDE DEF A
<1> QED BY <1>2, <1>3, Invariance, PTL DEF Spec

\* Callbacks run in the order of their dates, except for timers that were set
\* for a date already past, as long as the clock is not set back.
THEOREM RunsInOrderHolds == Spec => RunsInOrder
<1>1. ASSUME IInv, [Next]_vars, NEW t \in Timers, setBacks = 0, runs'[t] > runs[t],
             NEW u \in timers \union ToSet(SubSeq(expired, next + 1, Len(expired)))
      PROVE  expiration[t] <= expiration[u] \/ due[u] < added[u]
  <2>1. RunTimer /\ t = expired[next] /\ next \in 1..Len(expired)
    BY <1>1, OnlyRunTimer
  <2>2. /\ DOMAIN expired = 1..Len(expired) /\ t \in Created
        /\ Len(expired) \in Nat /\ expired \in Seq(Created)
    BY <1>1, <2>1, WaitingTypes DEF IInv, TypeOK
  <2>3. /\ now \in Nat /\ expiration[t] \in Nat /\ expiration[t] <= now
        /\ expiration \in [Created -> Nat] /\ timers \subseteq Created
        /\ pc = "run"
    <3>1. pc = "run"
      BY <2>1 DEF RunTimer
    <3>2. now \in Nat /\ expiration \in [Created -> Nat] /\ timers \subseteq Created
      BY <1>1, TimerAssumption DEF IInv, TypeOK
    <3>3. expiration[t] <= now
      BY <1>1, <2>1, <2>2 DEF IInv, Batch
    <3> QED BY <2>2, <3>1, <3>2, <3>3
  <2>4. CASE u \in timers
    <3>1. now <= expiration[u] \/ due[u] < added[u]
      BY <1>1, <2>3, <2>4 DEF IInv, Later
    <3>2. expiration[u] \in Nat
      BY <2>3, <2>4
    <3> QED BY <2>3, <3>1, <3>2
  <2>5. CASE u \in ToSet(SubSeq(expired, next + 1, Len(expired)))
    <3>1. PICK i \in 1..Len(expired) : next < i /\ u = expired[i]
      <4> DEFINE s == SubSeq(expired, next + 1, Len(expired))
      <4>1. /\ DOMAIN s = 1..(Len(expired) - next)
            /\ \A i \in DOMAIN s : s[i] = expired[next + i]
        BY <2>1, <2>2
      <4>2. PICK i \in DOMAIN s : u = s[i]
        BY <2>5 DEF ToSet
      <4> HIDE DEF s
      <4>3. next + i \in 1..Len(expired) /\ next < next + i
        BY <2>1, <2>2, <4>1, <4>2
      <4> QED BY <4>1, <4>2, <4>3
    <3>2. Before(t, u)
      BY <1>1, <2>1, <2>2, <3>1 DEF IInv, Batch
    <3>3. expiration[u] \in Nat
      BY <2>2, <2>3, <3>1
    <3> QED BY <2>3, <3>2, <3>3 DEF Before
  <2> QED BY <1>1, <2>4, <2>5
<1> DEFINE A == \A t \in Timers :
       setBacks = 0 /\ runs'[t] > runs[t] =>
         \A u \in timers \union ToSet(SubSeq(expired, next + 1, Len(expired))) :
           expiration[t] <= expiration[u] \/ due[u] < added[u]
<1>2. IInv /\ [Next]_vars => [A]_vars
  BY <1>1
<1>3. RunsInOrder <=> [][A]_vars
  BY DEF RunsInOrder
<1> HIDE DEF A
<1> QED BY <1>2, <1>3, Invariance, PTL DEF Spec
=============================================================================
