------------------------------ MODULE EventLoop -----------------------------
(***************************************************************************)
(* One EventLoop of source/server.hpp: the thread that sits in epoll_wait, *)
(* dispatches the ready channels and then runs the task pool, and the      *)
(* threads that hand it functors.  The steps are the points at which       *)
(* another thread can interleave: the push under _mutex and the write to   *)
(* the eventfd that follows it are two steps, and so are the read of the   *)
(* eventfd and the swap of the pool under _mutex.                          *)
(*                                                                         *)
(* A functor run inline (RunInLoop called by the loop thread itself) is a  *)
(* part of the callback that called it and is not a step of its own.       *)
(***************************************************************************)
EXTENDS Naturals, Sequences, FiniteSets

CONSTANTS
  Task,          \* functors; the same functor may be queued many times
  Threads,       \* the threads other than the loop's own
  LoopThread,    \* _thread_id
  Channels,      \* the channels registered besides the eventfd's channel
  EventChannel,  \* _event_channel
  MaxEvents,     \* MAX_EPOLLEVENTS: how many ready channels one Poll returns
  MaxTasks       \* bound of the model: functors waiting in _tasks

ASSUME EventLoopAssumption ==
  /\ LoopThread \notin Threads
  /\ EventChannel \notin Channels
  /\ MaxEvents \in Nat \ {0}
  /\ MaxTasks \in Nat \ {0}

VARIABLES
  tasks,    \* _tasks, guarded by _mutex
  functor,  \* the rest of the local vector of RunAllTask
  eventfd,  \* TRUE iff the counter of _event_fd is not zero
  waking,   \* threads that have pushed and not yet written to the eventfd
  actives,  \* ready channels of this turn whose HandleEvent is still to come
  pc        \* where the loop thread is in Start()

vars == <<tasks, functor, eventfd, waking, actives, pc>>

\* "epoll_wait" in Poll; "dispatch" between two HandleEvent calls; "callback"
\* inside a channel's callback; "run" between two functors of RunAllTask;
\* "task" inside a functor.
PCs == {"epoll_wait", "dispatch", "callback", "run", "task"}

TypeOK ==
  /\ tasks \in Seq(Task)
  /\ functor \in Seq(Task)
  /\ eventfd \in BOOLEAN
  /\ waking \in SUBSET (Threads \cup {LoopThread})
  /\ actives \in SUBSET (Channels \cup {EventChannel})
  /\ pc \in PCs

Init ==
  /\ tasks = <<>>
  /\ functor = <<>>
  /\ eventfd = FALSE
  /\ waking = {}
  /\ actives = {}
  /\ pc = "epoll_wait"

-----------------------------------------------------------------------------
(***************************************************************************)
(* Faulty variants of definitions below, one for each property: they are   *)
(* not part of the specification.                                          *)
(***************************************************************************)

\* Writes to the eventfd only for a foreign thread: the loop thread is awake.
EnqueueNoSelfWake(t, f) ==
  /\ Len(tasks) < MaxTasks
  /\ t \notin waking
  /\ tasks' = Append(tasks, f)
  /\ waking' = waking \cup ({t} \ {LoopThread})
  /\ UNCHANGED <<functor, eventfd, actives, pc>>

\* Copies the pool under the lock and forgets to empty it.
RunAllTaskCopy ==
  /\ pc = "dispatch"
  /\ actives = {}
  /\ functor' = tasks
  /\ pc' = "run"
  /\ UNCHANGED <<tasks, eventfd, waking, actives>>

\* Goes on until the pool is empty instead of running one batch.
EndRunDrain ==
  /\ pc = "run"
  /\ functor = <<>>
  /\ pc' = IF tasks = <<>> THEN "epoll_wait" ELSE "run"
  /\ functor' = tasks
  /\ tasks' = <<>>
  /\ UNCHANGED <<eventfd, waking, actives>>

-----------------------------------------------------------------------------
(***************************************************************************)
(* Handing over a functor.                                                 *)
(***************************************************************************)

\* The loop thread is not in the middle of a QueueInLoop of its own.
LoopFree == LoopThread \notin waking

\* The first half of QueueInLoop: push_back under the lock.
Enqueue(t, f) ==
  /\ Len(tasks) < MaxTasks
  /\ t \notin waking
  /\ tasks' = Append(tasks, f)
  /\ waking' = waking \cup {t}
  /\ UNCHANGED <<functor, eventfd, actives, pc>>

\* RunInLoop on a thread that is not the loop's: the functor is queued.
RunInLoop(t, f) ==
  /\ t \in Threads
  /\ Enqueue(t, f)

\* QueueInLoop called by the loop thread, from a callback or from a functor
\* (Connection::Release is the caller that does so).
QueueInLoop(f) ==
  /\ pc \in {"callback", "task"}
  /\ Enqueue(LoopThread, f)

\* The second half of QueueInLoop: write to the eventfd.
WeakUpEventFd(t) ==
  /\ t \in waking
  /\ eventfd' = TRUE
  /\ waking' = waking \ {t}
  /\ UNCHANGED <<tasks, functor, actives, pc>>

-----------------------------------------------------------------------------
(***************************************************************************)
(* The loop thread.                                                        *)
(***************************************************************************)

\* epoll_wait returns.  The eventfd's channel is among the ready ones iff its
\* counter is not zero, unless the array of events is full without it.
Poll(ready) ==
  /\ pc = "epoll_wait"
  /\ ready # {}
  /\ EventChannel \in ready => eventfd
  /\ Cardinality(ready) <= MaxEvents
  /\ eventfd => EventChannel \in ready \/ Cardinality(ready) = MaxEvents
  /\ actives' = ready
  /\ pc' = "dispatch"
  /\ UNCHANGED <<tasks, functor, eventfd, waking>>

\* epoll_wait is interrupted by a signal: no channel is active, and Start()
\* goes on to RunAllTask all the same.
PollInterrupted ==
  /\ pc = "epoll_wait"
  /\ pc' = "dispatch"
  /\ UNCHANGED <<tasks, functor, eventfd, waking, actives>>

\* HandleEvent of the eventfd's channel: the counter is read and reset.
ReadEventfd ==
  /\ pc = "dispatch"
  /\ EventChannel \in actives
  /\ actives' = actives \ {EventChannel}
  /\ eventfd' = FALSE
  /\ UNCHANGED <<tasks, functor, waking, pc>>

\* HandleEvent of any other channel begins; the kernel chose the order.
HandleEvent(c) ==
  /\ pc = "dispatch"
  /\ c \in actives \ {EventChannel}
  /\ actives' = actives \ {c}
  /\ pc' = "callback"
  /\ UNCHANGED <<tasks, functor, eventfd, waking>>

CallbackReturn ==
  /\ pc = "callback"
  /\ LoopFree
  /\ pc' = "dispatch"
  /\ UNCHANGED <<tasks, functor, eventfd, waking, actives>>

\* All active channels are handled: RunAllTask swaps the pool with its empty
\* local vector, under the lock.
RunAllTask ==
  /\ pc = "dispatch"
  /\ actives = {}
  /\ functor' = tasks
  /\ tasks' = <<>>
  /\ pc' = "run"
  /\ UNCHANGED <<eventfd, waking, actives>>

\* RunAllTask calls the next functor of its batch.
RunTask ==
  /\ pc = "run"
  /\ functor # <<>>
  /\ functor' = Tail(functor)
  /\ pc' = "task"
  /\ UNCHANGED <<tasks, eventfd, waking, actives>>

TaskReturn ==
  /\ pc = "task"
  /\ LoopFree
  /\ pc' = "run"
  /\ UNCHANGED <<tasks, functor, eventfd, waking, actives>>

\* The batch is done: Start() goes round.
EndRun ==
  /\ pc = "run"
  /\ functor = <<>>
  /\ pc' = "epoll_wait"
  /\ UNCHANGED <<tasks, functor, eventfd, waking, actives>>

-----------------------------------------------------------------------------

\* Everything Start() does by itself once epoll_wait has returned.
LoopStep ==
  \/ ReadEventfd
  \/ \E c \in Channels : HandleEvent(c)
  \/ CallbackReturn
  \/ RunAllTask
  \/ RunTask
  \/ TaskReturn
  \/ EndRun

Next ==
  \/ \E t \in Threads, f \in Task : RunInLoop(t, f)
  \/ \E f \in Task : QueueInLoop(f)
  \/ \E t \in Threads \cup {LoopThread} : WeakUpEventFd(t)
  \/ \E ready \in SUBSET (Channels \cup {EventChannel}) : Poll(ready)
  \/ PollInterrupted
  \/ LoopStep

\* epoll_wait is only obliged to return when the eventfd is readable: nothing
\* is assumed of the other descriptors, nor of signals.
PollWoken ==
  /\ eventfd
  /\ \E ready \in SUBSET (Channels \cup {EventChannel}) : Poll(ready)

\* Running threads are scheduled, callbacks and functors return.
Fairness ==
  /\ \A t \in Threads \cup {LoopThread} : WF_vars(WeakUpEventFd(t))
  /\ WF_vars(PollWoken)
  /\ WF_vars(LoopStep)

Safety == Init /\ [][Next]_vars

Spec == Safety /\ Fairness

-----------------------------------------------------------------------------
(***************************************************************************)
(* Properties.                                                             *)
(***************************************************************************)

\* The loop never blocks in epoll_wait on a pool that holds a functor unless
\* the eventfd is readable or a thread is on its way to write to it: the
\* ordering push, write (QueueInLoop) against read, swap (ReadEventfd before
\* RunAllTask) loses no wake-up.
NoLostWakeup ==
  pc = "epoll_wait" /\ tasks # <<>> => eventfd \/ waking # {}

\* The wake-up argument at every control point: a functor for which no wake-up
\* is outstanding is one that the swap of this very turn will take.
WakeupOwed ==
  tasks # <<>> => eventfd \/ waking # {} \/ pc \in {"dispatch", "callback"}

\* The batch of RunAllTask exists only while it is being run, and the loop
\* thread is inside QueueInLoop only while it runs user code.
BatchLocal ==
  /\ functor # <<>> => pc \in {"run", "task"}
  /\ LoopThread \in waking => pc \in {"callback", "task"}

IInv == TypeOK /\ WakeupOwed /\ BatchLocal

\* Functors that queue functors for ever do not keep the loop from its
\* descriptors: RunAllTask runs one batch, so once the loop has left
\* epoll_wait it comes back to it.
PollAgain == pc # "epoll_wait" ~> pc = "epoll_wait"

\* What the loop promises to its callers (module TaskPool): the functors still
\* to be started are the rest of the batch of RunAllTask, then the pool, and
\* they are started in the order in which they were handed over, each once.
Pool == INSTANCE TaskPool WITH pool <- functor \o tasks

ImplementsTaskPool == Pool!Safety

\* The other half of the promise: as long as functors wait, the loop thread
\* goes on starting them, however the wake-ups interleave with its turns.
TasksStarted == Pool!Liveness
=============================================================================
