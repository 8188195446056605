----------------------------- MODULE EventLoop -----------------------------
(***************************************************************************)
(* base/src/Eventloop.cpp: one EventLoop, the thread that runs loop(), and *)
(* other threads that hand it functors with runInLoop and stop it with     *)
(* quit.  The queue functions_ is protected by mutex_; the eventfd behind  *)
(* wakeupFd_ is written after the lock is released, so a push and its      *)
(* wakeup are two steps that the loop thread can fall between.             *)
(***************************************************************************)
EXTENDS Naturals, Sequences

CONSTANTS Callers,   \* the threads other than the loop thread
          Tasks,     \* the functors (each closure is handed over once)
          MaxQuits   \* bound on the calls of quit()

ASSUME MaxQuitsAssumption == MaxQuits \in Nat

VARIABLES
  functions,   \* functions_: posted by other threads, under mutex_
  functors,    \* what is left of the local vector of doFunctions
  wakeups,     \* the counter of the eventfd wakeupFd_
  wakeReady,   \* the last poll reported wakeChannel_ and it is not handled yet
  looping,     \* looping_
  loopPc,      \* where the loop thread is
  callerPc,    \* where each other thread is
  quits,       \* number of calls of quit()
  posted,      \* history: tasks pushed on functions_, in that order
  ran,         \* history: tasks run by doFunctions, in that order
  inlined      \* history: tasks run inside runInLoop by the loop thread

queueVars == <<functions, functors>>
history   == <<posted, ran, inlined>>
vars == <<functions, functors, wakeups, wakeReady, looping, loopPc, callerPc,
          quits, posted, ran, inlined>>

(* The loop thread: before loop(), at the test of looping_, inside         *)
(* epoll_wait, calling handlers and timers, about to lock mutex_ in        *)
(* doFunctions, between two functors, inside a functor, after loop().      *)
LoopPcs == {"init", "test", "poll", "handle", "swap", "run", "body", "done"}

Fresh(t) == t \notin inlined /\ \A i \in DOMAIN posted : posted[i] # t

Init ==
  /\ functions = <<>>
  /\ functors = <<>>
  /\ wakeups = 0
  /\ wakeReady = FALSE
  /\ looping = FALSE
  /\ loopPc = "init"
  /\ callerPc = [c \in Callers |-> "idle"]
  /\ quits = 0
  /\ posted = <<>>
  /\ ran = <<>>
  /\ inlined = {}
-----------------------------------------------------------------------------
(* The other threads.                                                      *)

\* runInLoop, the else branch up to the end of the lock's scope.
RunInLoopPushOnly(c, t) ==      \* seeded defect: no wakeup() follows
  /\ callerPc[c] = "idle"
  /\ Fresh(t)
  /\ functions' = Append(functions, t)
  /\ posted' = Append(posted, t)
  /\ UNCHANGED <<functors, wakeups, wakeReady, looping, loopPc, callerPc,
                 quits, ran, inlined>>

RunInLoop(c, t) ==
  /\ callerPc[c] = "idle"
  /\ Fresh(t)
  /\ functions' = Append(functions, t)
  /\ posted' = Append(posted, t)
  /\ callerPc' = [callerPc EXCEPT ![c] = "wakeup"]
  /\ UNCHANGED <<functors, wakeups, wakeReady, looping, loopPc, quits,
                 ran, inlined>>

\* wakeup(): the write of 1 to the eventfd adds to its counter.
Wakeup(c) ==
  /\ callerPc[c] = "wakeup"
  /\ wakeups' = wakeups + 1
  /\ callerPc' = [callerPc EXCEPT ![c] = "idle"]
  /\ UNCHANGED <<queueVars, wakeReady, looping, loopPc, quits, history>>

\* quit() by another thread: the flag first, then wakeup().
QuitSilent(c) ==                \* seeded defect: no wakeup() follows
  /\ callerPc[c] = "idle"
  /\ quits < MaxQuits
  /\ quits' = quits + 1
  /\ looping' = FALSE
  /\ UNCHANGED <<queueVars, wakeups, wakeReady, loopPc, callerPc, history>>

Quit(c) ==
  /\ callerPc[c] = "idle"
  /\ quits < MaxQuits
  /\ quits' = quits + 1
  /\ looping' = FALSE
  /\ callerPc' = [callerPc EXCEPT ![c] = "wakeup"]
  /\ UNCHANGED <<queueVars, wakeups, wakeReady, loopPc, history>>
-----------------------------------------------------------------------------
(* The loop thread.                                                        *)

EnterLoop ==
  /\ loopPc = "init"
  /\ looping' = TRUE
  /\ loopPc' = "test"
  /\ UNCHANGED <<queueVars, wakeups, wakeReady, callerPc, quits, history>>

TestLooping ==
  /\ loopPc = "test"
  /\ loopPc' = IF looping THEN "poll" ELSE "done"
  /\ UNCHANGED <<queueVars, wakeups, wakeReady, looping, callerPc, quits,
                 history>>

\* epoll_wait returns because the eventfd is readable (level triggered) or
\* because of something else: another descriptor, the timeout, a signal.
Poll(other) ==
  /\ loopPc = "poll"
  /\ other \/ wakeups > 0
  /\ wakeReady' = (wakeups > 0)
  /\ loopPc' = "handle"
  /\ UNCHANGED <<queueVars, wakeups, looping, callerPc, quits, history>>

\* handleWakeEvent: the read returns the counter and resets it to 0.
HandleWakeEvent ==
  /\ loopPc = "handle"
  /\ wakeReady
  /\ wakeReady' = FALSE
  /\ wakeups' = 0
  /\ UNCHANGED <<queueVars, looping, loopPc, callerPc, quits, history>>

\* All the active channels and the expired timers have been called.
EndEvents ==
  /\ loopPc = "handle"
  /\ ~wakeReady
  /\ loopPc' = "swap"
  /\ UNCHANGED <<queueVars, wakeups, wakeReady, looping, callerPc, quits,
                 history>>

\* doFunctions: functors.swap(functions_) under mutex_; functors was empty.
Swap ==
  /\ loopPc = "swap"
  /\ functors' = functions
  /\ functions' = <<>>
  /\ loopPc' = "run"
  /\ UNCHANGED <<wakeups, wakeReady, looping, callerPc, quits, history>>

\* doFunctions: the next functor of the batch is called.
RunFunctor ==
  /\ loopPc = "run"
  /\ functors # <<>>
  /\ functors' = Tail(functors)
  /\ ran' = Append(ran, Head(functors))
  /\ loopPc' = "body"
  /\ UNCHANGED <<functions, wakeups, wakeReady, looping, callerPc, quits,
                 posted, inlined>>

EndFunctor ==
  /\ loopPc = "body"
  /\ loopPc' = "run"
  /\ UNCHANGED <<queueVars, wakeups, wakeReady, looping, callerPc, quits,
                 history>>

EndBatchEarly ==                \* seeded defect: quit() cuts the batch short
  /\ loopPc = "run"
  /\ functors = <<>> \/ ~looping
  /\ loopPc' = "test"
  /\ UNCHANGED <<queueVars, wakeups, wakeReady, looping, callerPc, quits,
                 history>>

EndBatch ==
  /\ loopPc = "run"
  /\ functors = <<>>
  /\ loopPc' = "test"
  /\ UNCHANGED <<queueVars, wakeups, wakeReady, looping, callerPc, quits,
                 history>>

\* A handler, a timer or a functor is running: what it may do to this loop.
InCallback == loopPc \in {"handle", "body"}

\* runInLoop on the loop thread: the functor is called at once, ahead of
\* whatever functions_ holds.
RunInLoopInside(t) ==
  /\ InCallback
  /\ Fresh(t)
  /\ inlined' = inlined \union {t}
  /\ UNCHANGED <<queueVars, wakeups, wakeReady, looping, loopPc, callerPc,
                 quits, posted, ran>>

\* quit() on the loop thread: no wakeup, the loop is not in epoll_wait.
QuitInside ==
  /\ InCallback
  /\ quits < MaxQuits
  /\ quits' = quits + 1
  /\ looping' = FALSE
  /\ UNCHANGED <<queueVars, wakeups, wakeReady, loopPc, callerPc, history>>
-----------------------------------------------------------------------------
LoopStep == \/ EnterLoop \/ TestLooping \/ Poll(FALSE) \/ HandleWakeEvent
            \/ EndEvents \/ Swap \/ RunFunctor \/ EndFunctor \/ EndBatch

CallerStep(c) == Wakeup(c) \/ Quit(c) \/ \E t \in Tasks : RunInLoop(c, t)

Next == \/ LoopStep
        \/ Poll(TRUE)
        \/ QuitInside
        \/ \E t \in Tasks : RunInLoopInside(t)
        \/ \E c \in Callers : CallerStep(c)

\* The loop thread keeps going when it is not blocked in epoll_wait, every
\* callback returns, and a thread that has pushed a task goes on to wakeup().
\* Nothing is assumed of other descriptors, timers, new tasks or quits.
Fairness == WF_vars(LoopStep) /\ \A c \in Callers : WF_vars(Wakeup(c))

Spec == Init /\ [][Next]_vars /\ Fairness
-----------------------------------------------------------------------------
(* Properties.                                                             *)

SeqTypes ==
  /\ functions \in Seq(Tasks)
  /\ functors \in Seq(Tasks)
  /\ posted \in Seq(Tasks)
  /\ ran \in Seq(Tasks)
  /\ inlined \in SUBSET Tasks
  /\ loopPc \notin {"run", "body"} => functors = <<>>

ControlTypes ==
  /\ wakeReady \in BOOLEAN
  /\ looping \in BOOLEAN
  /\ loopPc \in LoopPcs
  /\ callerPc \in [Callers -> {"idle", "wakeup"}]

CountTypes ==
  /\ wakeups \in Nat
  /\ quits \in 0..MaxQuits
  /\ wakeReady => loopPc = "handle" /\ wakeups > 0

\* Types, and where the batch of doFunctions and a pending eventfd report
\* can exist: outside doFunctions the local vector is empty, and a report of
\* wakeChannel_ is handled before the poll after it.
TypeOK == SeqTypes /\ ControlTypes /\ CountTypes

\* A wakeup is on its way: the eventfd is readable, or a thread stands
\* between its push (or its looping_ = false) and its wakeup().
WakeupPending == wakeups > 0 \/ \E c \in Callers : callerPc[c] = "wakeup"

\* This iteration of loop() will still reach the swap of doFunctions without
\* polling, whatever the eventfd says.
WillSwap == loopPc = "swap" \/ (loopPc = "handle" /\ ~wakeReady)

\* No lost wakeup: whenever functions_ holds a task that the current
\* iteration will not take, the next epoll_wait is going to return for it.
\* handleWakeEvent resets the counter for all earlier writes at once, so this
\* rests on doFunctions coming after the handlers in the same iteration.
NoLostWakeup == functions # <<>> /\ ~WillSwap => WakeupPending

\* No lost quit: the loop never sits in epoll_wait with looping_ already
\* false unless a wakeup is on its way, although quit() writes the flag and
\* the eventfd in two steps and in-loop calls of quit() write only the flag.
NoLostQuit == loopPc = "poll" /\ ~looping => WakeupPending

\* Every task pushed on functions_ is, in the order of the pushes, either
\* run, or in the batch of doFunctions, or still in functions_: swapping the
\* vectors loses, repeats and reorders nothing, also across quit().
ExactlyOnceInOrder == posted = ran \o functors \o functions

\* The promise runInLoop makes: functors and functions_ together are one
\* first-in first-out queue, open until loop() returns, and every task posted
\* to an open queue is run.
Queue == INSTANCE TaskQueue WITH queue <- functors \o functions,
                                 ran   <- ran,
                                 open  <- loopPc # "done"
ImplementsTaskQueue == Queue!Spec

\* A quit() that finds the loop entered makes loop() return, whatever the
\* interleaving with the test of looping_, epoll_wait and doFunctions.
QuitTakesEffect == (loopPc # "init" /\ ~looping) ~> (loopPc = "done")
=============================================================================
