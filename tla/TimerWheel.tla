----------------------------- MODULE TimerWheel -----------------------------
(***************************************************************************)
(* TimerWheel and TimerTask of source/server.hpp.  A slot of the wheel     *)
(* holds shared pointers to tasks; a task runs when its last shared        *)
(* pointer goes, and only weak pointers to it are kept in _timers.         *)
(* Refreshing a task puts one more pointer to it into the wheel, so a task *)
(* may sit in several slots.  How often it sits in one and the same slot   *)
(* makes no difference: clear() drops all of them together.                *)
(*                                                                         *)
(* All of this runs in the loop's thread.  The timerfd expires once per    *)
(* second in the kernel, whether the loop is busy or not.                  *)
(***************************************************************************)
EXTENDS Naturals, FiniteSets

CONSTANTS
  Id,        \* timer ids
  Capacity,  \* _capacity, 60 in the code
  Delays,    \* the delays callers ask for
  MaxLag     \* bound of the model: expirations of the timerfd not yet read

ASSUME TimerWheelAssumption ==
  /\ Capacity \in Nat \ {0}
  /\ Delays \subseteq Nat
  /\ MaxLag \in Nat \ {0}

VARIABLES
  tick,         \* _tick
  wheel,        \* _wheel: for each slot the tasks it holds a shared_ptr to
  timers,       \* the keys of _timers
  delay,        \* _timeout of the last task added with this id
  canceled,     \* ids whose task has _canceled set
  fired,        \* history: ids whose last task has run its _task_cb
  expirations,  \* the timerfd's counter
  todo,         \* RunTimerTask calls the loop of OnTime has yet to make
  clock         \* history: the seconds that have passed, modulo Capacity

wheelVars == <<tick, wheel, timers, delay, canceled, fired>>
vars == <<tick, wheel, timers, delay, canceled, fired, expirations, todo, clock>>

Slots == 0 .. Capacity - 1

\* The slots that keep the task alive.
Holders(id) == {s \in Slots : id \in wheel[s]}

TypeOK ==
  /\ tick \in Slots
  /\ wheel \in [Slots -> SUBSET Id]
  /\ timers \in SUBSET Id
  /\ delay \in [Id -> Delays]
  /\ canceled \in SUBSET Id
  /\ fired \in SUBSET Id
  /\ expirations \in 0 .. MaxLag
  /\ todo \in 0 .. MaxLag
  /\ clock \in Slots

\* delay is only read of tasks that have been added.
Init ==
  /\ tick = 0
  /\ wheel = [s \in Slots |-> {}]
  /\ timers = {}
  /\ delay \in [Id -> Delays]
  /\ canceled = {}
  /\ fired = {}
  /\ expirations = 0
  /\ todo = 0
  /\ clock = 0

\* The tasks that have their last shared pointer in the slot: ~TimerTask runs
\* when the slot is cleared.
Destroyed(pos) == {id \in wheel[pos] : Holders(id) = {pos}}

-----------------------------------------------------------------------------
(***************************************************************************)
(* Faulty variants: not part of the specification.                         *)
(***************************************************************************)

\* Clears the slot the hand leaves instead of the one it reaches.
RunTimerTaskOldSlot ==
  LET released == Destroyed(tick)
  IN  /\ todo > 0
      /\ todo' = todo - 1
      /\ tick' = (tick + 1) % Capacity
      /\ wheel' = [wheel EXCEPT ![tick] = {}]
      /\ fired' = fired \cup (released \ canceled)
      /\ timers' = timers \ released
      /\ UNCHANGED <<delay, canceled, expirations, clock>>

\* Removes the id from _timers whenever a slot drops the task, held elsewhere
\* or not.
RunTimerTaskEraseHeld ==
  LET pos == (tick + 1) % Capacity
      released == Destroyed(pos)
  IN  /\ todo > 0
      /\ todo' = todo - 1
      /\ tick' = pos
      /\ wheel' = [wheel EXCEPT ![pos] = {}]
      /\ fired' = fired \cup (released \ canceled)
      /\ timers' = timers \ wheel[pos]
      /\ UNCHANGED <<delay, canceled, expirations, clock>>

\* Runs one RunTimerTask for each read, however often the timerfd expired.
OnTimeFirstOnly ==
  /\ todo = 0
  /\ expirations > 0
  /\ todo' = 1
  /\ expirations' = 0
  /\ UNCHANGED <<wheelVars, clock>>

\* The loop begins at 1 instead of 0: it runs one RunTimerTask too few.
OnTimeFromOne ==
  /\ todo = 0
  /\ expirations > 0
  /\ todo' = expirations - 1
  /\ expirations' = 0
  /\ UNCHANGED <<wheelVars, clock>>

-----------------------------------------------------------------------------

\* The slot of a task that is added or refreshed now.
Pos(d) == (tick + d) % Capacity

HasTimer(id) == id \in timers

\* TimerAddInLoop: the callers check HasTimer first, or use a fresh id.  A new
\* task is not cancelled.
TimerAddInLoop(id, d) ==
  /\ todo = 0
  /\ ~HasTimer(id)
  /\ wheel' = [wheel EXCEPT ![Pos(d)] = @ \cup {id}]
  /\ timers' = timers \cup {id}
  /\ delay' = [delay EXCEPT ![id] = d]
  /\ canceled' = canceled \ {id}
  /\ fired' = fired \ {id}
  /\ UNCHANGED <<tick, expirations, todo, clock>>

\* TimerRefreshInLoop: one more shared pointer, a delay ahead of the hand.  It
\* does nothing for an id it does not find.  Delays are less than 2^31: the code
\* puts them into an int here.
TimerRefreshInLoop(id) ==
  /\ todo = 0
  /\ HasTimer(id)
  /\ wheel' = [wheel EXCEPT ![Pos(delay[id])] = @ \cup {id}]
  /\ UNCHANGED <<tick, timers, delay, canceled, fired, expirations, todo, clock>>

\* TimerCancelInLoop: the task stays in the wheel and in _timers.
TimerCancelInLoop(id) ==
  /\ todo = 0
  /\ HasTimer(id)
  /\ canceled' = canceled \cup {id}
  /\ UNCHANGED <<tick, wheel, timers, delay, fired, expirations, todo, clock>>

\* A second passes in the kernel.
Expire ==
  /\ expirations < MaxLag
  /\ expirations' = expirations + 1
  /\ clock' = (clock + 1) % Capacity
  /\ UNCHANGED <<wheelVars, todo>>

\* OnTime: ReadTimefd returns all expirations since the last read at once.
OnTime ==
  /\ todo = 0
  /\ expirations > 0
  /\ todo' = expirations
  /\ expirations' = 0
  /\ UNCHANGED <<wheelVars, clock>>

\* RunTimerTask: the hand moves on and the slot is cleared.  A task that no
\* other slot holds is destroyed: ~TimerTask runs its callback, unless it is
\* cancelled, and then RemoveTimer takes it out of _timers.
RunTimerTask ==
  LET pos == (tick + 1) % Capacity
      released == Destroyed(pos)
  IN  /\ todo > 0
      /\ todo' = todo - 1
      /\ tick' = pos
      /\ wheel' = [wheel EXCEPT ![pos] = {}]
      /\ fired' = fired \cup (released \ canceled)
      /\ timers' = timers \ released
      /\ UNCHANGED <<delay, canceled, expirations, clock>>

Next ==
  \/ \E id \in Id : \/ \E d \in Delays : TimerAddInLoop(id, d)
                    \/ TimerRefreshInLoop(id)
                    \/ TimerCancelInLoop(id)
  \/ Expire
  \/ OnTime
  \/ RunTimerTask

Safety == Init /\ [][Next]_vars

\* The kernel's clock runs; the loop comes back to the timerfd and OnTime runs
\* its loop to the end.
Fairness == WF_vars(Expire) /\ WF_vars(OnTime) /\ WF_vars(RunTimerTask)

Spec == Safety /\ Fairness

-----------------------------------------------------------------------------
(***************************************************************************)
(* Properties.                                                             *)
(***************************************************************************)

\* How many ticks until the hand reaches slot s.
Ahead(s) == IF s > tick THEN s - tick ELSE s - tick + Capacity

\* How many ticks a task added with delay d waits: d, if d lies between 1 and
\* the capacity; otherwise the delay wraps round the wheel.
Wrapped(d) == IF d % Capacity = 0 THEN Capacity ELSE d % Capacity

\* The largest element of a set of numbers; 0 for the empty set.
Furthest(S) ==
  IF S = {} THEN 0 ELSE CHOOSE n \in S : \A m \in S : m <= n

\* Ticks until the last shared pointer of the task goes; 0 without a task.
Remaining(id) == Furthest({Ahead(s) : s \in Holders(id)})

\* _timers knows exactly the tasks that are alive, so the weak pointer that
\* TimerRefreshInLoop locks without a test is never expired, however refreshes,
\* cancellations and ticks interleave.
TimersAlive == \A id \in Id : id \in timers <=> Holders(id) # {}

\* No shared pointer lies further ahead than the delay of its task: a refresh
\* is always the last of the pointers to go.
WithinDelay == \A id \in Id : \A s \in Holders(id) : Ahead(s) <= Wrapped(delay[id])

IInv == TypeOK /\ TimersAlive /\ WithinDelay

\* The hand shows the time: it is behind the kernel's clock by the expirations
\* that are not read (ReadTimefd returns all of them at once) and by those the
\* loop of OnTime has still to work off, and by nothing else, however long the
\* loop was held up between two reads.
HandOnTime == (tick + todo + expirations) % Capacity = clock

\* The wheel of slots and shared pointers behaves like a table of deadlines
\* (module DeadlineTimers): counted in ticks, no pointer left behind by a
\* refresh makes a task run early or twice.
Deadlines == INSTANCE DeadlineTimers
               WITH left <- [id \in Id |-> Remaining(id)], Least <- Wrapped

ImplementsDeadlines == Deadlines!Safety

\* A task that nobody refreshes comes to its end: the loop of OnTime (520) turns
\* the wheel on, also if it reads the timerfd after each single expiration.
DeadlinesReached == Deadlines!Liveness
=============================================================================
