---------------------------- MODULE MCTimerWheel ----------------------------
(* Instances of TimerWheel for TLC: two timers on a wheel of three slots.    *)
EXTENDS TimerWheel

CONSTANTS a, b

MCId == {a, b}

\* Every delay from 0 to one more than the wheel can hold.
AllDelays == 0 .. 4
=============================================================================
