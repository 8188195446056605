----------------------------- MODULE TaskQueue -----------------------------
(***************************************************************************)
(* What EventLoop::runInLoop promises to the threads that call it: one     *)
(* first-in first-out queue of tasks.  A posted task stays in the queue    *)
(* until it has run; tasks run one at a time in the order they were        *)
(* posted; as long as the queue is open every posted task is run.          *)
(* EventLoop is shown to implement this specification.                     *)
(***************************************************************************)
EXTENDS Sequences

CONSTANT Tasks

VARIABLES queue,  \* the tasks posted and not yet run
          ran,    \* the tasks run, in the order they ran
          open    \* FALSE once the queue has stopped running tasks

vars == <<queue, ran, open>>

Init == queue = <<>> /\ ran = <<>> /\ open = TRUE

Post(t) == /\ queue' = Append(queue, t)
           /\ UNCHANGED <<ran, open>>

Run == /\ open
       /\ queue # <<>>
       /\ ran' = Append(ran, Head(queue))
       /\ queue' = Tail(queue)
       /\ UNCHANGED open

Close == /\ open
         /\ open' = FALSE
         /\ UNCHANGED <<queue, ran>>

Next == (\E t \in Tasks : Post(t)) \/ Run \/ Close

Spec == Init /\ [][Next]_vars /\ WF_vars(Run)
=============================================================================
