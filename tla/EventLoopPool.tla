--------------------------- MODULE EventLoopPool ---------------------------
(***************************************************************************)
(* base/src/EventLoopPool.cpp, EventLoopThread.cpp and Thread.h: the owner *)
(* starts one thread after the other, waits until each has published its   *)
(* loop, and later quits and joins them in the same order.                 *)
(*                                                                         *)
(* A critical section is one step, a wait on a condition variable is a pc  *)
(* that a notify, or a spurious wakeup, ends.  Of the loop itself only what *)
(* quit() races with is kept: looping_, the eventfd and the end of loop().  *)
(***************************************************************************)
EXTENDS Naturals

CONSTANT LoopNum     \* loop_num_

ASSUME PoolAssumption == LoopNum \in Nat \ {0}

VARIABLES
  owner,     \* where the owner's thread is
  cur,       \* the EventLoopThread it is working on
  child,     \* where each loop thread is
  count,     \* Thread::count, which says that tid_ is there
  loop,      \* loop_ is not nullptr
  alive,     \* the EventLoop on the loop thread's stack exists
  looping,   \* looping_
  eventfd,   \* the eventfd is readable
  early,     \* history: quit() came before looping_ = true
  quitInside, \* history: the loop was quit by its own thread
  dangling   \* history: quit() went on after the EventLoop was gone

ownerVars == <<owner, cur>>
loopVars  == <<alive, looping, eventfd>>
history   == <<early, quitInside, dangling>>
poolVars == <<ownerVars, child, count, loop, loopVars, history>>

Threads == 1..LoopNum
All(v)  == [i \in Threads |-> v]

PoolInit ==
  /\ owner = "spawn" /\ cur = 1
  /\ child = All("none")
  /\ count = All(0)
  /\ loop = All(FALSE)
  /\ alive = All(FALSE) /\ looping = All(FALSE) /\ eventfd = All(FALSE)
  /\ early = All(FALSE) /\ quitInside = All(FALSE) /\ dangling = All(FALSE)
-----------------------------------------------------------------------------
(* The owner: EventLoopPool::start, EventLoopThread::startloop.            *)

\* std::thread(&Thread::wrapper, ...) in Thread::start.
Spawn ==
  /\ owner = "spawn"
  /\ child' = [child EXCEPT ![cur] = "wrapper"]
  /\ owner' = "start"
  /\ UNCHANGED <<cur, count, loop, loopVars, history>>

\* Thread::start: while (count == 0) wait.
AwaitCount ==
  /\ owner = "start"
  /\ owner' = IF count[cur] = 0 THEN "start wait" ELSE "startloop"
  /\ UNCHANGED <<cur, child, count, loop, loopVars, history>>

\* startloop returns loop_, and the pool goes on to its next thread.
Returned ==
  /\ owner' = IF cur = LoopNum THEN "use" ELSE "spawn"
  /\ cur' = IF cur = LoopNum THEN 1 ELSE cur + 1

AwaitLoopOnce ==              \* seeded defect: returns without looking again
  /\ owner = "startloop"
  /\ Returned \/ (~loop[cur] /\ owner' = "startloop wait" /\ UNCHANGED cur)
  /\ UNCHANGED <<child, count, loop, loopVars, history>>

\* startloop: while (loop_ == nullptr) wait.
AwaitLoop ==
  /\ owner = "startloop"
  /\ \/ loop[cur] /\ Returned
     \/ ~loop[cur] /\ owner' = "startloop wait" /\ UNCHANGED cur
  /\ UNCHANGED <<child, count, loop, loopVars, history>>

\* A wait may end with nobody having notified.
Spurious ==
  /\ \/ owner = "start wait" /\ owner' = "start"
     \/ owner = "startloop wait" /\ owner' = "startloop"
  /\ UNCHANGED <<cur, child, count, loop, loopVars, history>>

\* The pool is destroyed, whenever the owner likes.
Destroy ==
  /\ owner = "use"
  /\ owner' = "quit"
  /\ UNCHANGED <<cur, child, count, loop, loopVars, history>>

\* ~EventLoopThread: quit() writes looping_ through loop_, which is set ...
QuitStore ==
  /\ owner = "quit"
  /\ loop[cur]
  /\ early' = [early EXCEPT ![cur] = child[cur] = "publish done"]
  /\ dangling' = [dangling EXCEPT ![cur] = ~alive[cur]]
  /\ looping' = [looping EXCEPT ![cur] = FALSE]
  /\ owner' = "wake"
  /\ UNCHANGED <<cur, child, count, loop, alive, eventfd, quitInside>>

QuitNoWake ==                 \* seeded defect: quit() wakes nobody
  /\ owner = "wake" /\ owner' = "join"
  /\ UNCHANGED <<cur, child, count, loop, loopVars, history>>

\* ... then reads tid_ and wakeupFd_ through it and writes to the eventfd.
QuitWake ==
  /\ owner = "wake" /\ owner' = "join"
  /\ eventfd' = [eventfd EXCEPT ![cur] = alive[cur]]
  /\ dangling' = [dangling EXCEPT ![cur] = @ \/ ~alive[cur]]
  /\ UNCHANGED <<cur, child, count, loop, alive, looping, early, quitInside>>

Join ==
  /\ owner = "join"
  /\ child[cur] = "exited"
  /\ owner' = IF cur = LoopNum THEN "done" ELSE "quit"
  /\ cur' = IF cur = LoopNum THEN cur ELSE cur + 1
  /\ UNCHANGED <<child, count, loop, loopVars, history>>
-----------------------------------------------------------------------------
(* Loop thread i: Thread::wrapper, threadFunc_ and EventLoop::loop.        *)

Goes(i, from, to) == child[i] = from /\ child' = [child EXCEPT ![i] = to]

Notify(i, waiting, woken) ==
  owner' = IF cur = i /\ owner = waiting THEN woken ELSE owner

Wrapper(i) ==
  /\ Goes(i, "wrapper", "construct")
  /\ count' = [count EXCEPT ![i] = 1]
  /\ Notify(i, "start wait", "start")
  /\ UNCHANGED <<cur, loop, loopVars, history>>

\* EventLoop loop; and init_cb_, which runs before anybody knows the loop.
Construct(i) ==
  /\ Goes(i, "construct", "publish")
  /\ alive' = [alive EXCEPT ![i] = TRUE]
  /\ UNCHANGED <<ownerVars, count, loop, looping, eventfd, history>>

PublishSilent(i) ==           \* seeded defect: no cv_.notify()
  /\ Goes(i, "publish", "publish done")
  /\ loop' = [loop EXCEPT ![i] = TRUE]
  /\ UNCHANGED <<ownerVars, count, loopVars, history>>

Publish(i) ==
  /\ Goes(i, "publish", "publish done")
  /\ loop' = [loop EXCEPT ![i] = TRUE]
  /\ Notify(i, "startloop wait", "startloop")
  /\ UNCHANGED <<cur, count, loopVars, history>>

\* loop(): looping_ = true, whatever quit() has written before.
EnterLoop(i) ==
  /\ Goes(i, "publish done", "test")
  /\ looping' = [looping EXCEPT ![i] = TRUE]
  /\ UNCHANGED <<ownerVars, count, loop, alive, eventfd, history>>

\* while (looping_): one more poll, or loop() returns and the EventLoop dies.
TestLooping(i) ==
  /\ IF looping[i] THEN Goes(i, "test", "poll") /\ UNCHANGED alive
                   ELSE /\ Goes(i, "test", "exited")
                        /\ alive' = [alive EXCEPT ![i] = FALSE]
  /\ UNCHANGED <<ownerVars, count, loop, looping, eventfd, history>>

\* poll returns for the eventfd, which handleWakeEvent reads.
Woken(i) ==
  /\ eventfd[i]
  /\ Goes(i, "poll", "test")
  /\ eventfd' = [eventfd EXCEPT ![i] = FALSE]
  /\ UNCHANGED <<ownerVars, count, loop, alive, looping, history>>

\* poll returns for something else, and its handler may quit the loop.
OtherEvent(i) ==
  /\ Goes(i, "poll", "test")
  /\ \/ UNCHANGED <<looping, quitInside>>
     \/ /\ looping' = [looping EXCEPT ![i] = FALSE]
        /\ quitInside' = [quitInside EXCEPT ![i] = TRUE]
  /\ UNCHANGED <<ownerVars, count, loop, alive, eventfd, early, dangling>>
-----------------------------------------------------------------------------
OwnerStep == \/ Spawn \/ AwaitCount \/ AwaitLoop
             \/ QuitStore \/ QuitWake \/ Join

ChildStep(i) == \/ Wrapper(i) \/ Construct(i) \/ Publish(i) \/ EnterLoop(i)
                \/ TestLooping(i) \/ Woken(i)

PoolNext == \/ OwnerStep \/ Spurious \/ Destroy
            \/ \E i \in Threads : ChildStep(i) \/ OtherEvent(i)

\* Threads are scheduled; no event, spurious wakeup or destruction is owed.
Fairness == /\ WF_poolVars(OwnerStep)
            /\ \A i \in Threads : WF_poolVars(ChildStep(i))

PoolSpec == PoolInit /\ [][PoolNext]_poolVars /\ Fairness
-----------------------------------------------------------------------------
(* Properties.                                                             *)

\* Loops that startloop has returned and the owner has not begun to quit.
InUse(i) ==
  \/ owner \in {"spawn", "start", "start wait", "startloop", "startloop wait"}
     /\ i < cur
  \/ owner = "use"
  \/ owner \in {"quit", "wake", "join"} /\ i > cur
  \/ owner = "quit" /\ i = cur

\* startloop returns a loop that is there, whatever the order of notify and
\* wait and however often a wait ends by itself; until it is quit it stays.
StartedLoopIsThere ==
  \A i \in Threads : InUse(i) /\ ~quitInside[i] => loop[i] /\ alive[i]

\* EventLoopPool::start returns: no notify is missed.
StartReturns == <>(owner = "use")

\* ~EventLoopThread can hang in join only as its FIXME says, by quitting a
\* loop that was not running yet: every other quit() reaches the loop.
QuitInTimeJoins ==
  \A i \in Threads :
    owner = "join" /\ cur = i /\ ~early[i] ~> ~(owner = "join" /\ cur = i)

\* "It may only be done when the loop is running" (the comment on the call of
\* quit() in ~EventLoopThread): the EventLoop is there all through quit(),
\* when the owner is the only one to quit it.
QuitUsesLiveLoop == \A i \in Threads : dangling[i] => quitInside[i]
=============================================================================
