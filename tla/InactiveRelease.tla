--------------------------- MODULE InactiveRelease --------------------------
(***************************************************************************)
(* How the connections of one loop use the timer wheel of that loop to be  *)
(* released after a time without traffic: EnableInactiveReleaseInLoop,     *)
(* CancelInactiveReleaseInLoop, the refresh in Connection::HandleEvent and *)
(* the part of ReleaseInLoop that stops the timer.  The timer id is the    *)
(* connection id and the task is Connection::Release, which only queues    *)
(* ReleaseInLoop.  Another thread may call Enable, Cancel and Release at   *)
(* any time; what it queues may run behind ReleaseInLoop, on a connection  *)
(* that is released and that the thread's own shared pointer keeps.        *)
(*                                                                         *)
(* idle is real time, counted by the kernel's clock; the wheel only knows  *)
(* the expirations that OnTime has read and worked off.                    *)
(***************************************************************************)
EXTENDS TimerWheel

CONSTANT MaxIdle     \* bound of the model: where the count of idle seconds stops

ASSUME InactiveReleaseAssumption ==
  /\ Delays \subseteq 1 .. Capacity
  /\ MaxIdle \in Nat
  /\ MaxIdle >= Capacity + 2 * MaxLag

VARIABLES
  enabled,    \* connections with _enable_inactive_release set
  releasing,  \* connections with a ReleaseInLoop in the loop's task pool
  released,   \* connections whose ReleaseInLoop has run
  late,       \* history: connections for which an Enable has run since they
              \* were last released
  idle,       \* history: seconds since the last event or the last Enable
  lag,        \* history: expirations not yet worked off at the last refresh
  served      \* history: connections that owe their last refresh to an event

connVars == <<enabled, releasing, released, late, idle, lag, served>>
allVars == <<vars, connVars>>

ConnTypeOK ==
  /\ enabled \in SUBSET Id
  /\ releasing \in SUBSET Id
  /\ released \in SUBSET Id
  /\ late \in SUBSET Id
  /\ idle \in [Id -> 0 .. MaxIdle]
  /\ lag \in [Id -> 0 .. MaxLag]
  /\ served \in SUBSET Id

InitAll ==
  /\ Init
  /\ enabled = {}
  /\ releasing = {}
  /\ released = {}
  /\ late = {}
  /\ idle = [c \in Id |-> 0]
  /\ lag = [c \in Id |-> 0]
  /\ served = {}

\* The connection counts as active from now on.
Active(c) == idle' = [idle EXCEPT ![c] = 0]

\* The deadline of the connection is set anew from the wheel's present tick.
Refreshed(c) == lag' = [lag EXCEPT ![c] = expirations]

-----------------------------------------------------------------------------
(***************************************************************************)
(* Faulty variants: not part of the specification.                         *)
(***************************************************************************)

\* Releases the connection and leaves its timer running.
ReleaseInLoopKeepTimer(c) ==
  /\ todo = 0
  /\ c \in releasing
  /\ releasing' = releasing \ {c}
  /\ released' = released \cup {c}
  /\ late' = late \ {c}
  /\ UNCHANGED <<vars, enabled, idle, lag, served>>

\* Takes the connection for refreshed without moving its deadline.
HandleEventNoRefresh(c) ==
  /\ todo = 0
  /\ c \notin released
  /\ Active(c)
  /\ IF c \in enabled /\ HasTimer(c)
     THEN Refreshed(c) /\ served' = served \cup {c}
     ELSE UNCHANGED <<lag, served>>
  /\ UNCHANGED <<vars, enabled, releasing, released, late>>

\* Sets the flag, and adds the timer only where there was one to refresh.
EnableInactiveReleaseNoAdd(c, sec) ==
  /\ todo = 0
  /\ enabled' = enabled \cup {c}
  /\ late' = late \cup ({c} \cap released)
  /\ Active(c)
  /\ Refreshed(c)
  /\ served' = served \ {c}
  /\ \/ HasTimer(c) /\ TimerRefreshInLoop(c)
     \/ ~HasTimer(c) /\ UNCHANGED vars
  /\ UNCHANGED <<releasing, released>>

-----------------------------------------------------------------------------

\* EnableInactiveReleaseInLoop: a timer that is found is refreshed and keeps
\* its delay, whatever sec is.  It does not look at the status: on a connection
\* that is released it works like on any other.
EnableInactiveRelease(c, sec) ==
  /\ todo = 0
  /\ enabled' = enabled \cup {c}
  /\ late' = late \cup ({c} \cap released)
  /\ Active(c)
  /\ Refreshed(c)
  /\ served' = served \ {c}
  /\ \/ HasTimer(c) /\ TimerRefreshInLoop(c)
     \/ TimerAddInLoop(c, sec)
  /\ UNCHANGED <<releasing, released>>

\* TimerCancel if there is a timer.
CancelTimer(c) ==
  \/ TimerCancelInLoop(c)
  \/ ~HasTimer(c) /\ UNCHANGED vars

CancelInactiveRelease(c) ==
  /\ todo = 0
  /\ enabled' = enabled \ {c}
  /\ CancelTimer(c)
  /\ UNCHANGED <<releasing, released, late, idle, lag, served>>

\* Connection::HandleEvent: any event on the connection refreshes its timer.
\* ReleaseInLoop has taken the channel of a released one out of the poller.
HandleEvent(c) ==
  /\ todo = 0
  /\ c \notin released
  /\ Active(c)
  /\ \/ /\ c \in enabled
        /\ TimerRefreshInLoop(c)
        /\ Refreshed(c)
        /\ served' = served \cup {c}
     \/ /\ ~(c \in enabled /\ HasTimer(c))
        /\ UNCHANGED <<vars, lag, served>>
  /\ UNCHANGED <<enabled, releasing, released, late>>

\* Release for a reason other than inactivity: the peer is gone, or the user
\* asks for it, once more perhaps.
Release(c) ==
  /\ todo = 0
  /\ releasing' = releasing \cup {c}
  /\ UNCHANGED <<vars, enabled, released, late, idle, lag, served>>

\* ReleaseInLoop, run from the task pool: the timer that is still in the wheel
\* is cancelled.
ReleaseInLoop(c) ==
  /\ todo = 0
  /\ c \in releasing
  /\ releasing' = releasing \ {c}
  /\ released' = released \cup {c}
  /\ late' = late \ {c}
  /\ enabled' = IF HasTimer(c) THEN enabled \ {c} ELSE enabled
  /\ CancelTimer(c)
  /\ UNCHANGED <<idle, lag, served>>

\* The callback of every task that RunTimerTask destroys is Release.
ReleaseInactive ==
  /\ RunTimerTask
  /\ releasing' = releasing \cup (fired' \ fired)
  /\ UNCHANGED <<enabled, released, late, idle, lag, served>>

\* A second passes, for the connections too.
Second ==
  /\ Expire
  /\ idle' = [c \in Id |-> IF idle[c] < MaxIdle THEN idle[c] + 1 ELSE MaxIdle]
  /\ UNCHANGED <<enabled, releasing, released, late, lag, served>>

ReadTimerfd == OnTime /\ UNCHANGED connVars

NextAll ==
  \/ \E c \in Id : \/ \E sec \in Delays : EnableInactiveRelease(c, sec)
                   \/ CancelInactiveRelease(c)
                   \/ HandleEvent(c)
                   \/ Release(c)
                   \/ ReleaseInLoop(c)
  \/ ReleaseInactive
  \/ Second
  \/ ReadTimerfd

SafetyAll == InitAll /\ [][NextAll]_allVars

\* The clock runs and the loop comes back to the timerfd.  A ReleaseInLoop that
\* waits in the task pool is not put off by timerfd events for ever: each turn
\* of the loop ends with RunAllTask (EventLoop, TasksStarted), hence SF.
FairnessAll ==
  /\ WF_allVars(Second)
  /\ WF_allVars(ReadTimerfd)
  /\ WF_allVars(ReleaseInactive)
  /\ \A c \in Id : SF_allVars(ReleaseInLoop(c))

SpecAll == SafetyAll /\ FairnessAll

-----------------------------------------------------------------------------
(***************************************************************************)
(* Properties.                                                             *)
(***************************************************************************)

\* A task in the wheel points to its connection with a raw pointer.  Once the
\* connection is released every task left for it is cancelled and calls nothing,
\* however events, refreshes, repeated releases and the timer itself came before.
\* The one exception is an Enable that runs behind the release (late): it arms
\* the timer of the released connection, until that is released again.
NoCallbackAfterRelease == released \cap timers \subseteq canceled \cup late

\* The wheel accounts for every second: what remains of a deadline plus the
\* time the connection has been idle is the delay, corrected by the
\* expirations the wheel does not know yet and by those it did not know when
\* the deadline was set.  So a connection is never kept for longer than its
\* delay once OnTime has caught up, and is released early by no more than lag.
IdleAccounted ==
  \A c \in (enabled \cap timers) \ released :
    Remaining(c) + idle[c] + lag[c] = delay[c] + expirations + todo

\* A connection that falls silent while its release is enabled is released.
SilentReleased ==
  \A c \in Id :
    c \in enabled /\ idle[c] > 0
      ~> c \in released \/ c \notin enabled \/ idle[c] = 0 \/ c \in canceled

-----------------------------------------------------------------------------
(***************************************************************************)
(* What the repository says, and the code does not do.                     *)
(***************************************************************************)

\* source/test/client4.cc: connections that are ready behind a handler that
\* took very long are not affected, since their own events are handled and
\* refresh them.  The timer of a connection that an event has refreshed then
\* runs only when it has been idle for its whole delay since.
ReleasedOnlyIdle == \A c \in fired \cap served : idle[c] >= delay[c]

\* source/server.hpp, ReleaseInLoop: "if there is still a destroying task in the
\* timer queue, cancel the task".  A released connection then has none that would
\* call it.
ReleasedUncalled == released \cap timers \subseteq canceled

\* source/server.hpp, EnableInactiveRelease: "start the release of an inactive
\* connection ... add the timer task".  A connection for which it is enabled
\* has a timer that will release it, or is being released.
EnabledHasTimer ==
  enabled \subseteq (timers \ canceled) \cup fired \cup releasing \cup released
=============================================================================
