-------------------------- MODULE EventLoopProofs --------------------------
(***************************************************************************)
(* Proofs about EventLoop, for every set of threads and tasks and every    *)
(* bound on the calls of quit().                                           *)
(*                                                                         *)
(* TypeOK is inductive; it already says that the batch of doFunctions is   *)
(* empty when the next swap happens.  NoLostWakeup, NoLostQuit and         *)
(* ExactlyOnceInOrder are each inductive relative to TypeOK, and the       *)
(* refinement of TaskQueue needs TypeOK alone.                             *)
(***************************************************************************)
EXTENDS EventLoop, SequenceTheorems, TLAPS

(* Facts about sequences: moving the boundary between the batch and the    *)
(* shared queue leaves their concatenation alone.                          *)

\* Appending to the second of two sequences appends to their concatenation.
LEMMA AppendRight ==
  ASSUME NEW S, NEW s \in Seq(S), NEW r \in Seq(S), NEW e \in S
  PROVE  s \o Append(r, e) = Append(s \o r, e)
  OBVIOUS

\* The head of a non-empty first sequence is the head of the concatenation.
LEMMA HeadTailLeft ==
  ASSUME NEW S, NEW s \in Seq(S), NEW r \in Seq(S), s # <<>>
  PROVE  /\ s \o r # <<>>
         /\ Head(s \o r) = Head(s)
         /\ Tail(s \o r) = Tail(s) \o r
  OBVIOUS

\* Moving the head of the second sequence to the end of the first one.
LEMMA MoveHead ==
  ASSUME NEW S, NEW s \in Seq(S), NEW r \in Seq(S), r # <<>>
  PROVE  Append(s, Head(r)) \o Tail(r) = s \o r
  OBVIOUS

LEMMA EmptyLeft ==
  ASSUME NEW S, NEW s \in Seq(S)
  PROVE  <<>> \o s = s /\ s \o <<>> = s
  OBVIOUS
-----------------------------------------------------------------------------
(* The type invariant.                                                     *)

\* The sequences stay sequences of tasks, and the batch is empty outside
\* doFunctions.
LEMMA SeqTypesStep == SeqTypes /\ [Next]_vars => SeqTypes'
<1> SUFFICES ASSUME SeqTypes, [Next]_vars PROVE SeqTypes'
  OBVIOUS
<1> USE DEF SeqTypes, queueVars, history
<1>1. ASSUME NEW c \in Callers, NEW t \in Tasks, RunInLoop(c, t)
      PROVE  SeqTypes'
  BY <1>1 DEF RunInLoop
<1>2. ASSUME NEW c \in Callers, Wakeup(c) PROVE SeqTypes'
  BY <1>2 DEF Wakeup
<1>3. ASSUME NEW c \in Callers, Quit(c) PROVE SeqTypes'
  BY <1>3 DEF Quit
<1>4. CASE EnterLoop
  BY <1>4 DEF EnterLoop
<1>5. CASE TestLooping
  BY <1>5 DEF TestLooping
<1>6. ASSUME NEW other \in BOOLEAN, Poll(other) PROVE SeqTypes'
  BY <1>6 DEF Poll
<1>7. CASE HandleWakeEvent
  BY <1>7 DEF HandleWakeEvent
<1>8. CASE EndEvents
  BY <1>8 DEF EndEvents
<1>9. CASE Swap
  BY <1>9 DEF Swap
<1>10. CASE RunFunctor
  <2>1. Head(functors) \in Tasks /\ Tail(functors) \in Seq(Tasks)
    BY <1>10, HeadTailProperties DEF RunFunctor
  <2> QED
    BY <1>10, <2>1 DEF RunFunctor
<1>11. CASE EndFunctor
  BY <1>11 DEF EndFunctor
<1>12. CASE EndBatch
  BY <1>12 DEF EndBatch
<1>13. ASSUME NEW t \in Tasks, RunInLoopInside(t) PROVE SeqTypes'
  BY <1>13 DEF RunInLoopInside
<1>14. CASE QuitInside
  BY <1>14 DEF QuitInside
<1>15. CASE UNCHANGED vars
  BY <1>15 DEF vars
<1> QED
  BY <1>1, <1>2, <1>3, <1>4, <1>5, <1>6, <1>7, <1>8, <1>9, <1>10, <1>11,
     <1>12, <1>13, <1>14, <1>15 DEF Next, LoopStep, CallerStep

\* The flags and program counters keep their types.
LEMMA ControlTypesStep == ControlTypes /\ [Next]_vars => ControlTypes'
<1> SUFFICES ASSUME ControlTypes, [Next]_vars PROVE ControlTypes'
  OBVIOUS
<1> USE DEF ControlTypes, LoopPcs, queueVars, history
<1>1. ASSUME NEW c \in Callers, NEW t \in Tasks, RunInLoop(c, t)
      PROVE  ControlTypes'
  BY <1>1 DEF RunInLoop
<1>2. ASSUME NEW c \in Callers, Wakeup(c) PROVE ControlTypes'
  BY <1>2 DEF Wakeup
<1>3. ASSUME NEW c \in Callers, Quit(c) PROVE ControlTypes'
  BY <1>3 DEF Quit
<1>4. CASE EnterLoop
  BY <1>4 DEF EnterLoop
<1>5. CASE TestLooping
  BY <1>5 DEF TestLooping
<1>6. ASSUME NEW other \in BOOLEAN, Poll(other) PROVE ControlTypes'
  BY <1>6 DEF Poll
<1>7. CASE HandleWakeEvent
  BY <1>7 DEF HandleWakeEvent
<1>8. CASE EndEvents \/ Swap \/ RunFunctor \/ EndFunctor \/ EndBatch
  BY <1>8 DEF EndEvents, Swap, RunFunctor, EndFunctor, EndBatch
<1>9. CASE QuitInside \/ \E t \in Tasks : RunInLoopInside(t)
  BY <1>9 DEF RunInLoopInside, QuitInside
<1>10. CASE UNCHANGED vars
  BY <1>10 DEF vars
<1> QED
  BY <1>1, <1>2, <1>3, <1>4, <1>5, <1>6, <1>7, <1>8, <1>9, <1>10
     DEF Next, LoopStep, CallerStep

\* The eventfd counter and the bound on quit(); a pending report of
\* wakeChannel_ means that the eventfd is still readable.
LEMMA CountTypesStep ==
  ControlTypes /\ CountTypes /\ [Next]_vars => CountTypes'
  BY MaxQuitsAssumption
     DEF ControlTypes, CountTypes, Next, vars, queueVars, history, LoopPcs,
         LoopStep, CallerStep, RunInLoop, Wakeup, Quit, EnterLoop,
         TestLooping, Poll, HandleWakeEvent, EndEvents, Swap, RunFunctor,
         EndFunctor, EndBatch, RunInLoopInside, QuitInside

\* The type invariant of the event loop.
THEOREM TypeCorrect == Spec => []TypeOK
<1>1. Init => TypeOK
  <2> SUFFICES ASSUME Init PROVE TypeOK
    OBVIOUS
  <2>1. SeqTypes
    BY DEF Init, SeqTypes
  <2>2. ControlTypes
    BY DEF Init, ControlTypes, LoopPcs
  <2>3. CountTypes
    BY MaxQuitsAssumption DEF Init, CountTypes
  <2> QED
    BY <2>1, <2>2, <2>3 DEF TypeOK
<1>2. TypeOK /\ [Next]_vars => TypeOK'
  BY SeqTypesStep, ControlTypesStep, CountTypesStep DEF TypeOK
<1> QED
  BY <1>1, <1>2, PTL DEF Spec
-----------------------------------------------------------------------------
(* No lost wakeup and no lost quit.                                        *)

\* While a thread stands before its wakeup(), or the eventfd is readable,
\* only handleWakeEvent can take the pending wakeup away.
LEMMA WakeupStays ==
  ASSUME TypeOK, [Next]_vars, WakeupPending, ~HandleWakeEvent
  PROVE  WakeupPending'
<1> USE DEF TypeOK, ControlTypes, CountTypes, WakeupPending, queueVars, history
<1>1. ASSUME NEW c \in Callers, NEW t \in Tasks, RunInLoop(c, t)
      PROVE  WakeupPending'
  BY <1>1 DEF RunInLoop
<1>2. ASSUME NEW c \in Callers, Wakeup(c) PROVE WakeupPending'
  BY <1>2 DEF Wakeup
<1>3. ASSUME NEW c \in Callers, Quit(c) PROVE WakeupPending'
  BY <1>3 DEF Quit
<1>4. CASE UNCHANGED <<wakeups, callerPc>>
  BY <1>4
<1> QED
  BY <1>1, <1>2, <1>3, <1>4
     DEF Next, LoopStep, CallerStep, EnterLoop, TestLooping, Poll, EndEvents,
         Swap, RunFunctor, EndFunctor, EndBatch, RunInLoopInside, QuitInside,
         vars

\* A task in functions_ is never left behind by a blocking epoll_wait:
\* runInLoop, handleWakeEvent and doFunctions together lose no wakeup.
THEOREM NoLostWakeupHolds == Spec => []NoLostWakeup
<1>1. Init => NoLostWakeup
  BY DEF Init, NoLostWakeup
<1>2. TypeOK /\ NoLostWakeup /\ [Next]_vars => NoLostWakeup'
  <2> SUFFICES ASSUME TypeOK, NoLostWakeup, [Next]_vars,
                      functions' # <<>>, ~WillSwap'
               PROVE  WakeupPending'
    BY DEF NoLostWakeup
  <2>1. ASSUME NEW c \in Callers, NEW t \in Tasks, RunInLoop(c, t)
        PROVE  WakeupPending'
    BY <2>1 DEF RunInLoop, WakeupPending, TypeOK, ControlTypes
  <2>2. CASE HandleWakeEvent
    BY <2>2 DEF HandleWakeEvent, WillSwap
  <2>3. CASE Swap
    BY <2>3 DEF Swap
  <2>4. CASE /\ ~HandleWakeEvent
             /\ functions # <<>>
             /\ ~WillSwap
    BY <2>4, WakeupStays DEF NoLostWakeup
  <2>5. CASE EndEvents
    BY <2>5 DEF EndEvents, WillSwap
  <2>6. ASSUME NEW other \in BOOLEAN, Poll(other)
        PROVE  ~WillSwap
    BY <2>6 DEF Poll, WillSwap
  <2>7. ASSUME loopPc' = loopPc, wakeReady' = wakeReady
        PROVE  ~WillSwap
    BY <2>7 DEF WillSwap
  <2>8. ASSUME EnterLoop \/ TestLooping \/ RunFunctor \/ EndFunctor \/ EndBatch
        PROVE  ~WillSwap
    BY <2>8 DEF EnterLoop, TestLooping, RunFunctor, EndFunctor, EndBatch,
                WillSwap
  <2>9. ASSUME ~Swap, \A c \in Callers, t \in Tasks : ~RunInLoop(c, t)
        PROVE  functions # <<>>
    BY <2>9 DEF Next, LoopStep, CallerStep, EnterLoop, TestLooping, Poll,
                HandleWakeEvent, EndEvents, RunFunctor, EndFunctor, EndBatch,
                RunInLoopInside, QuitInside, Wakeup, Quit, queueVars, vars
  <2>10. \/ Swap \/ EndEvents \/ HandleWakeEvent
         \/ \E other \in BOOLEAN : Poll(other)
         \/ EnterLoop \/ TestLooping \/ RunFunctor \/ EndFunctor \/ EndBatch
         \/ loopPc' = loopPc /\ wakeReady' = wakeReady
    BY DEF Next, LoopStep, CallerStep, RunInLoop, RunInLoopInside, QuitInside,
           Wakeup, Quit, vars
  <2> QED
    BY <2>1, <2>2, <2>3, <2>4, <2>5, <2>6, <2>7, <2>8, <2>9, <2>10
<1> QED
  BY <1>1, <1>2, TypeCorrect, PTL DEF Spec

\* epoll_wait never blocks on a loop that has been told to quit.
THEOREM NoLostQuitHolds == Spec => []NoLostQuit
<1>1. Init => NoLostQuit
  BY DEF Init, NoLostQuit
<1>2. TypeOK /\ NoLostQuit /\ [Next]_vars => NoLostQuit'
  <2> SUFFICES ASSUME TypeOK, NoLostQuit, [Next]_vars,
                      loopPc' = "poll", ~looping'
               PROVE  WakeupPending'
    BY DEF NoLostQuit
  <2>1. ASSUME NEW c \in Callers, Quit(c) PROVE WakeupPending'
    BY <2>1 DEF Quit, WakeupPending, TypeOK, ControlTypes
  <2>2. CASE loopPc = "poll" /\ ~looping
    <3>1. ~HandleWakeEvent
      BY <2>2 DEF HandleWakeEvent
    <3> QED
      BY <2>2, <3>1, WakeupStays DEF NoLostQuit
  <2>3. ASSUME \A c \in Callers : ~Quit(c)
        PROVE  loopPc = "poll" /\ ~looping
    BY <2>3 DEF Next, LoopStep, CallerStep, EnterLoop, TestLooping, Poll,
                HandleWakeEvent, EndEvents, Swap, RunFunctor, EndFunctor,
                EndBatch, RunInLoopInside, QuitInside, InCallback, Wakeup,
                RunInLoop, vars
  <2> QED
    BY <2>1, <2>2, <2>3
<1> QED
  BY <1>1, <1>2, TypeCorrect, PTL DEF Spec
-----------------------------------------------------------------------------
(* The queue loses, repeats and reorders nothing.                          *)

\* Every posted task is run, in the batch, or in functions_, in posting order.
THEOREM ExactlyOnceInOrderHolds == Spec => []ExactlyOnceInOrder
<1>1. Init => ExactlyOnceInOrder
  BY DEF Init, ExactlyOnceInOrder
<1>2. TypeOK /\ ExactlyOnceInOrder /\ [Next]_vars => ExactlyOnceInOrder'
  <2> SUFFICES ASSUME TypeOK, ExactlyOnceInOrder, [Next]_vars
               PROVE  ExactlyOnceInOrder'
    OBVIOUS
  <2> USE DEF TypeOK, SeqTypes, ExactlyOnceInOrder
  <2>1. ASSUME NEW c \in Callers, NEW t \in Tasks, RunInLoop(c, t)
        PROVE  ExactlyOnceInOrder'
    <3> DEFINE taken == ran \o functors
    <3>1. taken \in Seq(Tasks)
      BY ConcatProperties
    <3>2. posted = taken \o functions
      OBVIOUS
    <3>3. functions \in Seq(Tasks)
      OBVIOUS
    <3> HIDE DEF taken, TypeOK, SeqTypes, ExactlyOnceInOrder
    <3>4. taken \o Append(functions, t) = Append(taken \o functions, t)
      BY <3>1, <3>3, AppendRight
    <3>5. posted' = Append(posted, t) /\ functions' = Append(functions, t)
      BY <2>1 DEF RunInLoop
    <3>6. posted' = taken \o functions'
      BY <3>2, <3>4, <3>5
    <3> QED
      BY <2>1, <3>6 DEF RunInLoop, taken, ExactlyOnceInOrder
  <2>2. CASE Swap
    <3>1. functors = <<>>
      BY <2>2 DEF Swap
    <3>2. (ran \o functions) \o <<>> = ran \o functions
      BY ConcatProperties, EmptyLeft
    <3>3. (ran \o <<>>) \o functions = ran \o functions
      BY EmptyLeft
    <3> QED
      BY <2>2, <3>1, <3>2, <3>3 DEF Swap, history
  <2>3. CASE RunFunctor
    <3>1. ran' \o functors' = ran \o functors
      BY <2>3, MoveHead DEF RunFunctor
    <3>2. posted' = posted /\ functions' = functions
      BY <2>3 DEF RunFunctor
    <3>3. posted = ran \o functors \o functions
      OBVIOUS
    <3> HIDE DEF TypeOK, SeqTypes, ExactlyOnceInOrder
    <3>4. posted' = ran' \o functors' \o functions'
      BY <3>1, <3>2, <3>3, Zenon
    <3> QED
      BY <3>4 DEF ExactlyOnceInOrder
  <2>4. CASE UNCHANGED <<posted, ran, functors, functions>>
    BY <2>4
  <2> QED
    BY <2>1, <2>2, <2>3, <2>4
       DEF Next, LoopStep, CallerStep, Wakeup, Quit, EnterLoop, TestLooping,
           Poll, HandleWakeEvent, EndEvents, EndFunctor, EndBatch,
           RunInLoopInside, QuitInside, queueVars, history, vars
<1> QED
  BY <1>1, <1>2, TypeCorrect, PTL DEF Spec
-----------------------------------------------------------------------------
(* The loop implements the abstract task queue.                            *)

\* Initial states map to initial states, and every step of the loop thread
\* and of its callers maps to posting a task, running the task at the head of
\* the queue, closing the queue, or nothing.
THEOREM QueueSafety == Spec => Queue!Init /\ [][Queue!Next]_(Queue!vars)
<1>1. Init => Queue!Init
  <2>1. <<>> \o <<>> = <<>>
    OBVIOUS
  <2> QED
    BY <2>1 DEF Init, Queue!Init
<1>2. TypeOK /\ [Next]_vars => [Queue!Next]_(Queue!vars)
  <2> SUFFICES ASSUME TypeOK, [Next]_vars
               PROVE  [Queue!Next]_(Queue!vars)
    OBVIOUS
  <2> USE DEF TypeOK, SeqTypes, Queue!vars
  <2>1. ASSUME NEW c \in Callers, NEW t \in Tasks, RunInLoop(c, t)
        PROVE  Queue!Post(t)
    <3>1. functors \o Append(functions, t) = Append(functors \o functions, t)
      BY AppendRight
    <3> QED
      BY <2>1, <3>1 DEF RunInLoop, Queue!Post
  <2>2. CASE Swap
    <3>1. functions \o <<>> = <<>> \o functions
      BY EmptyLeft
    <3>2. functors' \o functions' = functors \o functions
      BY <2>2, <3>1 DEF Swap
    <3>3. loopPc = "swap" /\ loopPc' = "run" /\ ran' = ran
      BY <2>2 DEF Swap, history
    <3>4. (loopPc # "done") = (loopPc' # "done")
      BY <3>3
    <3> QED
      BY <3>2, <3>3, <3>4
  <2>3. CASE RunFunctor
    <3>1. /\ functors \o functions # <<>>
          /\ Head(functors \o functions) = Head(functors)
          /\ Tail(functors \o functions) = Tail(functors) \o functions
      BY <2>3, HeadTailLeft DEF RunFunctor
    <3>2. Queue!Run
      BY <2>3, <3>1 DEF RunFunctor, Queue!Run
    <3> QED
      BY <3>2 DEF Queue!Next
  <2>4. CASE TestLooping
    <3>1. CASE looping
      BY <2>4, <3>1 DEF TestLooping, queueVars, history
    <3>2. CASE ~looping
      <4>1. Queue!Close
        BY <2>4, <3>2 DEF TestLooping, queueVars, history, Queue!Close
      <4> QED
        BY <4>1 DEF Queue!Next
    <3> QED
      BY <3>1, <3>2
  <2>5. CASE /\ UNCHANGED <<functions, functors, ran>>
             /\ (loopPc # "done") = (loopPc' # "done")
    BY <2>5
  <2> QED
    BY <2>1, <2>2, <2>3, <2>4, <2>5
       DEF Next, LoopStep, CallerStep, Wakeup, Quit, EnterLoop, Poll,
           HandleWakeEvent, EndEvents, EndFunctor, EndBatch, RunInLoopInside,
           QuitInside, queueVars, history, vars, Queue!Next
<1> QED
  BY <1>1, <1>2, TypeCorrect, PTL DEF Spec
=============================================================================
