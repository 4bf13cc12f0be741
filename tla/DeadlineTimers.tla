--------------------------- MODULE DeadlineTimers ---------------------------
(***************************************************************************)
(* What the timer wheel promises, with neither slots nor shared pointers:  *)
(* a task runs once, after as many ticks as its delay counted from the     *)
(* last time it was added or refreshed, unless it has been cancelled.      *)
(* Module TimerWheel is shown to implement this module.                    *)
(***************************************************************************)
EXTENDS Naturals

CONSTANTS
  Id,        \* timer ids
  Delays,    \* the delays that may be asked for
  Least(_)   \* ticks that a task added with delay d waits: the identity,
             \* except for the delays that do not fit the wheel

VARIABLES
  left,      \* ticks until the task runs; 0 when there is no such task
  delay,     \* the delay the last task with this id was added with
  canceled,  \* ids whose task is cancelled
  fired      \* ids whose last task has run

vars == <<left, delay, canceled, fired>>

Live == {id \in Id : left[id] # 0}

Init ==
  /\ left = [id \in Id |-> 0]
  /\ delay \in [Id -> Delays]
  /\ canceled = {}
  /\ fired = {}

\* A task is added under an id that is free.
Add(id, d) ==
  /\ id \notin Live
  /\ left' = [left EXCEPT ![id] = Least(d)]
  /\ delay' = [delay EXCEPT ![id] = d]
  /\ canceled' = canceled \ {id}
  /\ fired' = fired \ {id}

\* The full delay starts again, whatever was left of it.
Refresh(id) ==
  /\ id \in Live
  /\ left' = [left EXCEPT ![id] = Least(delay[id])]
  /\ UNCHANGED <<delay, canceled, fired>>

Cancel(id) ==
  /\ id \in Live
  /\ canceled' = canceled \cup {id}
  /\ UNCHANGED <<left, delay, fired>>

\* One tick: the tasks whose time is over run, unless cancelled, and are gone.
Tick ==
  /\ left' = [id \in Id |-> IF left[id] = 0 THEN 0 ELSE left[id] - 1]
  /\ fired' = fired \cup {id \in Id \ canceled : left[id] = 1}
  /\ UNCHANGED <<delay, canceled>>

Next ==
  \/ \E id \in Id : \/ \E d \in Delays : Add(id, d)
                    \/ Refresh(id)
                    \/ Cancel(id)
  \/ Tick

Safety == Init /\ [][Next]_vars

\* Time goes on as long as a task is waiting.
Liveness == WF_vars(Tick)

Spec == Safety /\ Liveness
=============================================================================
