------------------------------ MODULE TaskPool ------------------------------
(***************************************************************************)
(* What an event loop promises to the code that hands it work, with none   *)
(* of the machinery: every functor given to RunInLoop by a foreign thread, *)
(* or to QueueInLoop by any thread, is executed exactly once, by the loop  *)
(* thread, in the order in which the functors were handed over, and none   *)
(* of them waits for ever.  The eventfd, the mutex, the batch taken by     *)
(* RunAllTask and epoll do not appear here; module EventLoop is shown to   *)
(* implement this module.                                                  *)
(***************************************************************************)
EXTENDS Sequences

CONSTANT Task      \* the functors that may be handed to the loop

VARIABLE pool      \* the functors handed over and not yet started, oldest first

Init == pool = <<>>

\* A functor is handed to the loop.
Submit(f) == pool' = Append(pool, f)

\* The loop thread starts the oldest functor.
Start ==
  /\ pool # <<>>
  /\ pool' = Tail(pool)

Next ==
  \/ \E f \in Task : Submit(f)
  \/ Start

Safety == Init /\ [][Next]_pool

\* A functor that has been handed over is not left waiting.
Liveness == WF_pool(Start)

Spec == Safety /\ Liveness
=============================================================================
