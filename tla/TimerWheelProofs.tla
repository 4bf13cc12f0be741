-------------------------- MODULE TimerWheelProofs --------------------------
(***************************************************************************)
(* Proofs about TimerWheel, for a wheel of any capacity, any set of ids    *)
(* and any delays, and about the connections that set its timers, in       *)
(* InactiveRelease, for delays that fit the wheel.                         *)
(***************************************************************************)
EXTENDS InactiveRelease, WellFoundedInduction, TLAPS

USE TimerWheelAssumption

-----------------------------------------------------------------------------
(***************************************************************************)
(* The arithmetic of the wheel.                                            *)
(***************************************************************************)

\* What % computes: the only number below the capacity that differs from x by
\* a multiple of it.
LEMMA ModRange ==
  ASSUME NEW x \in Nat
  PROVE  x % Capacity \in Slots
  BY DEF Slots

\* Once round the wheel at most, the remainder is a conditional subtraction.
LEMMA ModOnce ==
  ASSUME NEW x \in 0 .. 2 * Capacity - 1
  PROVE  x % Capacity = IF x < Capacity THEN x ELSE x - Capacity
  OBVIOUS

\* Quotient and remainder are unique.
LEMMA ModUnique ==
  ASSUME NEW x \in Nat, NEW q \in Nat, NEW r \in Slots, x = Capacity * q + r
  PROVE  x % Capacity = r
<1> DEFINE p == x \div Capacity
           s == x % Capacity
<1>1. p \in Nat /\ s \in Slots /\ x = Capacity * p + s
  BY DEF Slots
<1> HIDE DEF p, s
<1>2. Capacity * (p - q) = r - s
  BY <1>1 DEF Slots
<1>3. p - q < 1
  <2> SUFFICES ASSUME p - q >= 1 PROVE FALSE
    BY <1>1
  <2>1. Capacity * (p - q) >= Capacity
    BY <1>1
  <2> QED
    BY <1>1, <1>2, <2>1 DEF Slots
<1>4. p - q > -1
  <2> SUFFICES ASSUME q - p >= 1 PROVE FALSE
    BY <1>1
  <2>1. Capacity * (q - p) >= Capacity
    BY <1>1
  <2>2. Capacity * (q - p) = s - r
    BY <1>1, <1>2 DEF Slots
  <2> QED
    BY <1>1, <2>1, <2>2 DEF Slots
<1>5. p = q
  BY <1>1, <1>3, <1>4
<1>6. r = s
  BY <1>1, <1>5 DEF Slots
<1> QED
  BY <1>6 DEF s

\* Whole turns of the wheel do not change where the hand ends.
LEMMA ModSum ==
  ASSUME NEW t \in Slots, NEW d \in Nat
  PROVE  (t + d) % Capacity = (t + (d % Capacity)) % Capacity
<1> DEFINE q == d \div Capacity
           r == d % Capacity
<1>1. q \in Nat /\ r \in Slots /\ d = Capacity * q + r
  BY DEF Slots
<1> HIDE DEF q, r
<1>2. CASE t + r < Capacity
  <2>1. t + d = Capacity * q + (t + r)
    BY <1>1 DEF Slots
  <2>2. (t + d) % Capacity = t + r
    BY <1>1, <1>2, <2>1, ModUnique DEF Slots
  <2>3. (t + r) % Capacity = t + r
    BY <1>1, <1>2, ModOnce DEF Slots
  <2> QED
    BY <2>2, <2>3 DEF r
<1>3. CASE ~(t + r < Capacity)
  <2>1. t + d = Capacity * (q + 1) + (t + r - Capacity)
    BY <1>1 DEF Slots
  <2>2. (t + d) % Capacity = t + r - Capacity
    <3>1. q + 1 \in Nat /\ t + r - Capacity \in Slots /\ t + d \in Nat
      BY <1>1, <1>3 DEF Slots
    <3> QED
      BY <2>1, <3>1, ModUnique
  <2>3. (t + r) % Capacity = t + r - Capacity
    BY <1>1, <1>3, ModOnce DEF Slots
  <2> QED
    BY <2>2, <2>3 DEF r
<1> QED
  BY <1>2, <1>3

\* A task added now waits for as many ticks as its delay says.
LEMMA AheadOfPos ==
  ASSUME tick \in Slots, NEW d \in Nat
  PROVE  Pos(d) \in Slots /\ Ahead(Pos(d)) = Wrapped(d)
<1>1. Pos(d) = (tick + (d % Capacity)) % Capacity
  BY ModSum, Zenon DEF Pos
<1>2. PICK r \in Slots : r = d % Capacity /\ Pos(d) = (tick + r) % Capacity
  <2>1. d % Capacity \in Slots
    BY ModRange
  <2> QED
    BY <1>1, <2>1, Zenon
<1>3. Pos(d) = IF tick + r < Capacity THEN tick + r ELSE tick + r - Capacity
  BY <1>2, ModOnce DEF Slots
<1>4. Wrapped(d) = IF r = 0 THEN Capacity ELSE r
  BY <1>2 DEF Wrapped
<1> QED
  BY <1>3, <1>4 DEF Ahead, Slots

\* Every slot is between one tick and a whole turn away.
LEMMA AheadRange ==
  ASSUME tick \in Slots, NEW s \in Slots
  PROVE  Ahead(s) \in 1 .. Capacity
  BY DEF Ahead, Slots

\* When the hand moves on, the slot it reaches was the next one and every other
\* slot comes one tick closer.
LEMMA AheadTick ==
  ASSUME tick \in Slots, tick' = (tick + 1) % Capacity, NEW s \in Slots
  PROVE  /\ tick' \in Slots
         /\ IF s = tick' THEN Ahead(s) = 1
                         ELSE Ahead(s) >= 2 /\ Ahead(s)' = Ahead(s) - 1
<1>1. tick' = IF tick + 1 < Capacity THEN tick + 1 ELSE tick + 1 - Capacity
  BY ModOnce DEF Slots
<1> QED
  BY <1>1 DEF Ahead, Slots

\* A set of ticks that is not empty has a last one.
LEMMA FurthestExists ==
  ASSUME NEW S \in SUBSET (1 .. Capacity), S # {}
  PROVE  \E n \in S : \A m \in S : m <= n
<1> DEFINE T == {Capacity - m : m \in S}
<1>1. T \subseteq Nat
  BY SMT
<1>2. T # {}
  <2>1. PICK m \in S : TRUE
    OBVIOUS
  <2>2. Capacity - m \in T
    BY <2>1
  <2> QED
    BY <2>2
<1>3. PICK x \in T : \A y \in T : ~(<<y, x>> \in OpToRel(<, Nat))
  BY <1>1, <1>2, NatLessThanWellFounded, WFMin
<1>4. ASSUME NEW y \in T PROVE ~(y < x)
  <2>1. <<y, x>> \in Nat \X Nat /\ <<y, x>>[1] = y /\ <<y, x>>[2] = x
    BY <1>1
  <2> QED
    BY <1>3, <2>1, Zenon DEF OpToRel
<1>5. PICK n \in S : x = Capacity - n
  BY <1>3
<1>6. ASSUME NEW m \in S PROVE m <= n
  <2>1. ~(Capacity - m < Capacity - n)
    BY <1>4, <1>5
  <2> QED
    BY <2>1
<1> QED
  BY <1>6

\* What Furthest returns.
LEMMA FurthestProperties ==
  ASSUME NEW S \in SUBSET (1 .. Capacity)
  PROVE  /\ Furthest(S) \in 0 .. Capacity
         /\ Furthest(S) = 0 <=> S = {}
         /\ S # {} => Furthest(S) \in S
         /\ \A m \in S : m <= Furthest(S)
         /\ \A n \in S : (\A m \in S : m <= n) => Furthest(S) = n
<1>1. CASE S = {}
  BY <1>1 DEF Furthest
<1>2. CASE S # {}
  <2>1. Furthest(S) \in S /\ \A m \in S : m <= Furthest(S)
    BY <1>2, FurthestExists DEF Furthest
  <2>2. Furthest(S) \in 1 .. Capacity
    BY <2>1
  <2>3. ASSUME NEW n \in S, \A m \in S : m <= n PROVE Furthest(S) = n
    <3>1. n <= Furthest(S) /\ Furthest(S) <= n
      BY <2>1, <2>3
    <3> QED
      BY <2>2, <3>1
  <2> QED
    BY <1>2, <2>1, <2>2, <2>3
<1> QED
  BY <1>1, <1>2

-----------------------------------------------------------------------------
(***************************************************************************)
(* The slots that hold a task, after each kind of step.                    *)
(***************************************************************************)

\* Putting one more shared pointer into a slot.
LEMMA HoldersPush ==
  ASSUME wheel \in [Slots -> SUBSET Id], NEW id \in Id, NEW p \in Slots,
         wheel' = [wheel EXCEPT ![p] = @ \cup {id}], NEW i \in Id
  PROVE  Holders(i)' = IF i = id THEN Holders(i) \cup {p} ELSE Holders(i)
  BY DEF Holders

\* Clearing a slot.
LEMMA HoldersClear ==
  ASSUME wheel \in [Slots -> SUBSET Id], NEW p \in Slots,
         wheel' = [wheel EXCEPT ![p] = {}], NEW i \in Id
  PROVE  Holders(i)' = Holders(i) \ {p}
  BY DEF Holders

\* A step of the wheel's clock or of a cancellation.
LEMMA HoldersSame ==
  ASSUME UNCHANGED <<tick, wheel>>
  PROVE  /\ \A i : Holders(i)' = Holders(i)
         /\ \A s : Ahead(s)' = Ahead(s)
  BY DEF Holders, Ahead

-----------------------------------------------------------------------------
(***************************************************************************)
(* The inductive invariant.  TimersAlive needs the types of the wheel;     *)
(* WithinDelay is what makes a refresh the last pointer to go, and so      *)
(* what the refinement rests on.                                           *)
(***************************************************************************)

LEMMA InitIInv == Init => IInv
<1> SUFFICES ASSUME Init PROVE IInv
  OBVIOUS
<1>1. TypeOK
  BY DEF Init, TypeOK, Slots
<1>2. \A id \in Id : Holders(id) = {}
  BY DEF Init, Holders
<1> QED
  BY <1>1, <1>2 DEF IInv, TimersAlive, WithinDelay, Init

\* A task that is added now.
LEMMA AddIInv ==
  ASSUME IInv, NEW id \in Id, NEW d \in Delays, TimerAddInLoop(id, d)
  PROVE  IInv'
<1> USE DEF IInv
<1>1. Pos(d) \in Slots /\ Ahead(Pos(d)) = Wrapped(d) /\ d \in Nat
  BY AheadOfPos DEF TypeOK
<1>2. TypeOK'
  BY <1>1 DEF TimerAddInLoop, TypeOK
<1>3. \A i \in Id : Holders(i)' = IF i = id THEN {Pos(d)} ELSE Holders(i)
  <2>1. Holders(id) = {}
    BY DEF TimersAlive, TimerAddInLoop, HasTimer
  <2> QED
    BY <1>1, <2>1, HoldersPush DEF TimerAddInLoop, TypeOK
<1>4. TimersAlive'
  BY <1>1, <1>3 DEF TimersAlive, TimerAddInLoop
<1>5. WithinDelay'
  <2>1. \A s : Ahead(s)' = Ahead(s)
    BY DEF Ahead, TimerAddInLoop
  <2>2. \A i \in Id : delay'[i] = IF i = id THEN d ELSE delay[i]
    BY DEF TimerAddInLoop, TypeOK
  <2>3. Wrapped(d) <= Wrapped(d)
    BY <1>1, AheadRange DEF TypeOK
  <2> QED
    BY <1>1, <1>3, <2>1, <2>2, <2>3 DEF WithinDelay, Wrapped
<1> QED
  BY <1>2, <1>4, <1>5

\* A task that is refreshed now.
LEMMA RefreshIInv ==
  ASSUME IInv, NEW id \in Id, TimerRefreshInLoop(id)
  PROVE  IInv'
<1> USE DEF IInv
<1> DEFINE p == Pos(delay[id])
<1>1. p \in Slots /\ Ahead(p) = Wrapped(delay[id])
  BY AheadOfPos DEF TypeOK
<1>2. TypeOK'
  BY <1>1 DEF TimerRefreshInLoop, TypeOK
<1>3. \A i \in Id : Holders(i)' = IF i = id THEN Holders(i) \cup {p} ELSE Holders(i)
  BY <1>1, HoldersPush DEF TimerRefreshInLoop, TypeOK
<1> HIDE DEF p
<1>4. TimersAlive'
  BY <1>1, <1>3 DEF TimersAlive, TimerRefreshInLoop, HasTimer
<1>5. WithinDelay'
  <2>1. \A s : Ahead(s)' = Ahead(s)
    BY DEF Ahead, TimerRefreshInLoop
  <2>2. Ahead(p) <= Wrapped(delay[id])
    BY <1>1, AheadRange DEF TypeOK
  <2> QED
    BY <1>3, <2>1, <2>2 DEF WithinDelay, Wrapped, TimerRefreshInLoop
<1> QED
  BY <1>2, <1>4, <1>5

\* The hand moves on.
LEMMA RunIInv ==
  ASSUME IInv, RunTimerTask
  PROVE  IInv'
<1> USE DEF IInv
<1> DEFINE p == (tick + 1) % Capacity
           dropped == {id \in wheel[p] : Holders(id) = {p}}
<1>1. p \in Slots /\ tick' = p
  BY AheadTick DEF RunTimerTask, Destroyed, TypeOK
<1>2. TypeOK'
  BY <1>1 DEF RunTimerTask, Destroyed, TypeOK
<1>3. \A i \in Id : Holders(i)' = Holders(i) \ {p}
  BY <1>1, HoldersClear DEF RunTimerTask, Destroyed, TypeOK
<1>4. TimersAlive'
  <2>1. \A i \in Id : i \in dropped <=> Holders(i) = {p}
    BY <1>1 DEF Holders
  <2>2. timers' = timers \ dropped
    BY DEF RunTimerTask, Destroyed
  <2> QED
    BY <1>3, <2>1, <2>2 DEF TimersAlive
<1>5. WithinDelay'
  <2> SUFFICES ASSUME NEW i \in Id, NEW s \in Holders(i)'
               PROVE  Ahead(s)' <= Wrapped(delay[i])
    BY DEF WithinDelay, RunTimerTask, Destroyed, Wrapped
  <2>1. s \in Holders(i) /\ s # p /\ s \in Slots
    BY <1>3 DEF Holders
  <2>2. Ahead(s) >= 2 /\ Ahead(s)' = Ahead(s) - 1
    BY <1>1, <2>1, AheadTick DEF TypeOK
  <2>3. Ahead(s) \in Nat /\ Ahead(s) <= Wrapped(delay[i])
    BY <2>1, AheadRange DEF WithinDelay, TypeOK
  <2>4. delay[i] % Capacity \in Slots
    BY ModRange DEF TypeOK
  <2>5. Wrapped(delay[i]) \in Nat
    BY <2>4 DEF Wrapped, Slots
  <2> QED
    BY <2>2, <2>3, <2>5
<1> QED
  BY <1>2, <1>4, <1>5

\* The invariant is inductive.
LEMMA NextIInv == IInv /\ [Next]_vars => IInv'
<1> SUFFICES ASSUME IInv, [Next]_vars PROVE IInv'
  OBVIOUS
<1> USE DEF IInv
<1>1. ASSUME NEW id \in Id, NEW d \in Delays, TimerAddInLoop(id, d) PROVE IInv'
  BY <1>1, AddIInv
<1>2. ASSUME NEW id \in Id, TimerRefreshInLoop(id) PROVE IInv'
  BY <1>2, RefreshIInv
<1>3. ASSUME UNCHANGED <<tick, wheel, timers, delay>>, TypeOK' PROVE IInv'
  BY <1>3, HoldersSame DEF TimersAlive, WithinDelay, Wrapped
<1>4. ASSUME NEW id \in Id, TimerCancelInLoop(id) PROVE IInv'
  BY <1>3, <1>4 DEF TimerCancelInLoop, TypeOK
<1>5. CASE Expire
  <2>1. clock \in Slots
    BY DEF TypeOK
  <2>2. clock + 1 \in Nat
    BY <2>1 DEF Slots
  <2>3. (clock + 1) % Capacity \in Slots
    BY <2>2, ModRange
  <2> QED
    BY <1>3, <1>5, <2>3 DEF Expire, TypeOK, wheelVars
<1>6. CASE OnTime
  BY <1>3, <1>6 DEF OnTime, TypeOK, wheelVars
<1>7. CASE RunTimerTask
  BY <1>7, RunIInv
<1>8. CASE UNCHANGED vars
  BY <1>3, <1>8 DEF vars, TypeOK
<1> QED
  BY <1>1, <1>2, <1>4, <1>5, <1>6, <1>7, <1>8 DEF Next

\* The types of the wheel, and the two facts its correctness rests on.
THEOREM Invariance == Safety => []IInv
  BY InitIInv, NextIInv, PTL DEF Safety

\* The weak pointers of _timers are those of the live tasks, and only those:
\* the lock() of TimerRefreshInLoop never yields a null pointer.
THEOREM WeakPointersAlive == Safety => []TimersAlive
  BY Invariance, PTL DEF IInv

-----------------------------------------------------------------------------
(***************************************************************************)
(* The hand and the clock.                                                 *)
(***************************************************************************)

\* A second more.
LEMMA ModNext ==
  ASSUME NEW x \in Nat
  PROVE  (x + 1) % Capacity = ((x % Capacity) + 1) % Capacity
<1> DEFINE q == x \div Capacity
           r == x % Capacity
<1>1. q \in Nat /\ r \in Slots /\ x = Capacity * q + r
  BY DEF Slots
<1> HIDE DEF q, r
<1>2. CASE r + 1 < Capacity
  <2>1. r + 1 \in Slots /\ x + 1 = Capacity * q + (r + 1) /\ x + 1 \in Nat
    BY <1>1, <1>2 DEF Slots
  <2>2. (x + 1) % Capacity = r + 1
    BY <1>1, <2>1, ModUnique
  <2>3. (r + 1) % Capacity = r + 1
    BY <1>1, <1>2, ModOnce DEF Slots
  <2> QED
    BY <2>2, <2>3 DEF r
<1>3. CASE ~(r + 1 < Capacity)
  <2>1. r + 1 = Capacity
    BY <1>1, <1>3 DEF Slots
  <2>2. 0 \in Slots /\ q + 1 \in Nat /\ x + 1 \in Nat /\ x + 1 = Capacity * (q + 1) + 0
    BY <1>1, <2>1 DEF Slots
  <2>3. (x + 1) % Capacity = 0
    BY <2>2, ModUnique
  <2>4. (r + 1) % Capacity = 0
    BY <1>1, <2>1, ModOnce DEF Slots
  <2> QED
    BY <2>3, <2>4 DEF r
<1> QED
  BY <1>2, <1>3

\* A tick of the hand makes up for one expiration.
LEMMA ModTick ==
  ASSUME NEW t \in Slots, NEW y \in Nat
  PROVE  (((t + 1) % Capacity) + y) % Capacity = (t + 1 + y) % Capacity
<1>1. CASE t + 1 < Capacity
  <2>1. (t + 1) % Capacity = t + 1
    BY <1>1, ModOnce DEF Slots
  <2> QED
    BY <2>1
<1>2. CASE ~(t + 1 < Capacity)
  <2>1. t + 1 = Capacity
    BY <1>2 DEF Slots
  <2>2. (t + 1) % Capacity = 0
    BY <2>1, ModOnce DEF Slots
  <2> DEFINE q == y \div Capacity
             r == y % Capacity
  <2>3. q \in Nat /\ r \in Slots /\ y = Capacity * q + r
    BY DEF Slots
  <2> HIDE DEF q, r
  <2>4. q + 1 \in Nat /\ t + 1 + y \in Nat /\ t + 1 + y = Capacity * (q + 1) + r
    BY <2>1, <2>3 DEF Slots
  <2>5. (t + 1 + y) % Capacity = r
    BY <2>3, <2>4, ModUnique
  <2>6. (0 + y) % Capacity = r
    BY <2>3 DEF r
  <2> QED
    BY <2>2, <2>5, <2>6
<1> QED
  BY <1>1, <1>2

\* Expirations go from the kernel to the loop of OnTime and from there to the hand.
LEMMA NextHandOnTime ==
  ASSUME TypeOK, HandOnTime, [Next]_vars
  PROVE  HandOnTime'
<1>0. tick \in Slots /\ todo \in Nat /\ expirations \in Nat
  BY DEF TypeOK
<1>1. ASSUME tick' = tick, clock' = clock, todo' \in Nat, expirations' \in Nat,
             todo' + expirations' = todo + expirations
      PROVE  HandOnTime'
  <2>1. tick' + todo' + expirations' = tick + todo + expirations
    <3>1. tick \in Nat
      BY <1>0 DEF Slots
    <3>2. tick + todo + expirations = tick + (todo + expirations)
      BY <1>0, <3>1
    <3>3. tick + todo' + expirations' = tick + (todo' + expirations')
      BY <1>1, <3>1
    <3> QED
      BY <1>1, <3>2, <3>3
  <2> QED
    BY <1>1, <2>1, Zenon DEF HandOnTime
<1>2. ASSUME NEW id \in Id,
             \/ \E d \in Delays : TimerAddInLoop(id, d)
             \/ TimerRefreshInLoop(id) \/ TimerCancelInLoop(id)
      PROVE  HandOnTime'
  <2>1. tick' = tick /\ clock' = clock /\ todo' = todo /\ expirations' = expirations
    BY <1>2 DEF TimerAddInLoop, TimerRefreshInLoop, TimerCancelInLoop
  <2> QED
    BY <1>0, <1>1, <2>1
<1>3. CASE Expire
  <2>1. tick' = tick /\ todo' = todo /\ expirations' = expirations + 1
        /\ clock' = (clock + 1) % Capacity
    BY <1>3 DEF Expire, wheelVars
  <2> DEFINE x == tick + todo + expirations
  <2>2. x \in Nat /\ tick' + todo' + expirations' = x + 1
    BY <1>0, <2>1 DEF Slots
  <2>3. x % Capacity = clock
    BY DEF HandOnTime
  <2> HIDE DEF x
  <2>4. (x + 1) % Capacity = (clock + 1) % Capacity
    BY <2>2, <2>3, ModNext
  <2> QED
    BY <2>1, <2>2, <2>4, Zenon DEF HandOnTime
<1>4. CASE OnTime
  <2>1. tick' = tick /\ clock' = clock /\ todo' = expirations /\ expirations' = 0 /\ todo = 0
    BY <1>4 DEF OnTime, wheelVars
  <2> QED
    BY <1>0, <1>1, <2>1
<1>5. CASE RunTimerTask
  <2> DEFINE y == todo' + expirations'
  <2>1. tick' = (tick + 1) % Capacity /\ clock' = clock
    BY <1>5 DEF RunTimerTask
  <2>2. /\ y \in Nat /\ tick + 1 + y = tick + todo + expirations
        /\ tick' + todo' + expirations' = tick' + y
    <3>1. todo > 0 /\ todo' = todo - 1 /\ expirations' = expirations
      BY <1>5 DEF RunTimerTask
    <3>2. tick' \in Nat
      BY <1>0, <2>1, ModRange DEF Slots
    <3> QED
      BY <1>0, <3>1, <3>2 DEF Slots
  <2> HIDE DEF y
  <2>3. (((tick + 1) % Capacity) + y) % Capacity = (tick + 1 + y) % Capacity
    BY <1>0, <2>2, ModTick
  <2> QED
    BY <2>1, <2>2, <2>3, Zenon DEF HandOnTime
<1>6. CASE UNCHANGED vars
  <2>1. tick' = tick /\ clock' = clock /\ todo' = todo /\ expirations' = expirations
    BY <1>6 DEF vars
  <2> QED
    BY <1>0, <1>1, <2>1
<1> QED
  BY <1>2, <1>3, <1>4, <1>5, <1>6 DEF Next

\* The loop of OnTime (520) works off every expiration, however many ReadTimefd has
\* returned at once: the hand is behind the clock by those still to be worked off.
THEOREM HandAlwaysOnTime == Safety => []HandOnTime
<1>1. Init => HandOnTime
  <2>1. 0 % Capacity = 0
    BY ModOnce
  <2> QED
    BY <2>1 DEF Init, HandOnTime
<1>2. IInv => TypeOK
  BY DEF IInv
<1> QED
  BY <1>1, <1>2, NextHandOnTime, Invariance, PTL DEF Safety

-----------------------------------------------------------------------------
(***************************************************************************)
(* Refinement of DeadlineTimers.                                           *)
(***************************************************************************)

\* The distances Remaining is the furthest of.
Distances(id) == {Ahead(s) : s \in Holders(id)}

\* What Remaining says of the slots that hold a task.
LEMMA RemainingProperties ==
  ASSUME tick \in Slots, NEW id \in Id
  PROVE  /\ Remaining(id) \in 0 .. Capacity
         /\ Remaining(id) = 0 <=> Holders(id) = {}
         /\ Holders(id) # {} => \E s \in Holders(id) : Ahead(s) = Remaining(id)
         /\ \A s \in Holders(id) : Ahead(s) <= Remaining(id)
         /\ \A p \in Holders(id) :
              (\A s \in Holders(id) : Ahead(s) <= Ahead(p)) => Remaining(id) = Ahead(p)
<1>1. Distances(id) \in SUBSET (1 .. Capacity)
  BY AheadRange DEF Distances, Holders
<1>2. Remaining(id) = Furthest(Distances(id))
  BY DEF Remaining, Distances
<1>3. Distances(id) = {} <=> Holders(id) = {}
  BY DEF Distances
<1>4. /\ Furthest(Distances(id)) \in 0 .. Capacity
      /\ Furthest(Distances(id)) = 0 <=> Distances(id) = {}
      /\ Distances(id) # {} => Furthest(Distances(id)) \in Distances(id)
      /\ \A m \in Distances(id) : m <= Furthest(Distances(id))
      /\ \A n \in Distances(id) :
           (\A m \in Distances(id) : m <= n) => Furthest(Distances(id)) = n
  BY <1>1, FurthestProperties, Zenon
<1> QED
  BY <1>2, <1>3, <1>4 DEF Distances

\* The same of the slots after a step.
LEMMA RemainingNext ==
  ASSUME tick' \in Slots, NEW id \in Id
  PROVE  /\ Holders(id)' = {} => Remaining(id)' = 0
         /\ \A p \in Holders(id)' :
              (\A s \in Holders(id)' : Ahead(s)' <= Ahead(p)') => Remaining(id)' = Ahead(p)'
<1>1. Distances(id)' \in SUBSET (1 .. Capacity)
  BY DEF Distances, Holders, Ahead, Slots
<1>2. Remaining(id)' = Furthest(Distances(id)')
  BY DEF Remaining, Distances, Furthest
<1>3. Distances(id)' = {} <=> Holders(id)' = {}
  BY DEF Distances
<1>4. ASSUME NEW p \in Holders(id)', \A s \in Holders(id)' : Ahead(s)' <= Ahead(p)'
      PROVE  Remaining(id)' = Ahead(p)'
  <2>1. /\ Ahead(p)' \in Distances(id)'
        /\ \A n \in Distances(id)' : n <= Ahead(p)'
    BY <1>4 DEF Distances
  <2> QED
    BY <1>1, <1>2, <2>1, FurthestProperties
<1> QED
  BY <1>1, <1>2, <1>3, <1>4, FurthestProperties

\* A refresh, or an addition, makes the whole delay remain.
LEMMA RemainingPush ==
  ASSUME IInv, NEW id \in Id, NEW d \in Delays,
         tick' = tick, wheel' = [wheel EXCEPT ![Pos(d)] = @ \cup {id}],
         Holders(id) # {} => d = delay[id],
         NEW i \in Id
  PROVE  Remaining(i)' = IF i = id THEN Wrapped(d) ELSE Remaining(i)
<1> USE DEF IInv, TypeOK
<1>1. PICK p \in Slots : p = Pos(d) /\ Ahead(p) = Wrapped(d)
  BY AheadOfPos
<1>2. Holders(i)' = IF i = id THEN Holders(i) \cup {p} ELSE Holders(i)
  BY <1>1, HoldersPush
<1>3. \A s : Ahead(s)' = Ahead(s)
  BY DEF Ahead
<1>4. CASE i = id
  <2>1. ASSUME NEW s \in Holders(i)' PROVE Ahead(s)' <= Ahead(p)'
    <3>1. CASE s \in Holders(i)
      <4>1. Ahead(s) <= Wrapped(delay[i])
        BY <3>1 DEF WithinDelay
      <4>2. d = delay[i]
        BY <1>4, <3>1
      <4> QED
        BY <1>1, <1>3, <4>1, <4>2
    <3>2. CASE s = p
      <4>1. Ahead(s) \in 1 .. Capacity
        BY <1>1, <3>2, AheadRange
      <4> QED
        BY <1>3, <3>2, <4>1
    <3> QED
      BY <1>2, <1>4, <2>1, <3>1, <3>2
  <2>2. p \in Holders(i)'
    BY <1>2, <1>4
  <2>3. Remaining(i)' = Ahead(p)'
    BY <2>1, <2>2, RemainingNext
  <2> QED
    BY <1>1, <1>3, <1>4, <2>3
<1>5. CASE i # id
  <2>1. Holders(i)' = Holders(i)
    BY <1>2, <1>5
  <2>2. Distances(i)' = Distances(i)
    BY <1>3, <2>1 DEF Distances
  <2>3. Remaining(i)' = Furthest(Distances(i)') /\ Remaining(i) = Furthest(Distances(i))
    BY Zenon DEF Remaining, Distances, Furthest
  <2> QED
    BY <1>5, <2>2, <2>3
<1> QED
  BY <1>4, <1>5

\* A tick brings every task one tick closer to its end; the tasks that the
\* step destroys are those with one tick left.
LEMMA RemainingTick ==
  ASSUME IInv, RunTimerTask, NEW i \in Id
  PROVE  /\ Remaining(i)' = IF Remaining(i) = 0 THEN 0 ELSE Remaining(i) - 1
         /\ Remaining(i) = 1 <=> Holders(i) = {tick'}
<1> USE DEF IInv, TypeOK
<1> DEFINE p == tick'
<1>1. p = (tick + 1) % Capacity /\ p \in Slots
  BY AheadTick DEF RunTimerTask, Destroyed
<1>2. Holders(i)' = Holders(i) \ {p}
  BY <1>1, HoldersClear DEF RunTimerTask, Destroyed
<1>3. ASSUME NEW s \in Slots
      PROVE  /\ Ahead(s) \in 1 .. Capacity
             /\ IF s = p THEN Ahead(s) = 1 ELSE Ahead(s) >= 2 /\ Ahead(s)' = Ahead(s) - 1
  BY <1>1, AheadTick, AheadRange
<1>4. Holders(i) \subseteq Slots
  BY DEF Holders
<1>5. CASE Holders(i) = {}
  BY <1>1, <1>2, <1>5, RemainingProperties, RemainingNext
<1>6. CASE Holders(i) = {p}
  <2>1. Remaining(i) = 1
    BY <1>1, <1>3, <1>6, RemainingProperties
  <2> QED
    BY <1>1, <1>2, <1>6, <2>1, RemainingNext
<1>7. CASE Holders(i) # {} /\ Holders(i) # {p}
  <2>1. PICK q \in Holders(i) : Ahead(q) = Remaining(i)
    BY <1>7, RemainingProperties
  <2>2. \A s \in Holders(i) : Ahead(s) <= Ahead(q)
    BY <2>1, RemainingProperties
  <2>3. q # p
    BY <1>3, <1>4, <1>7, <2>2
  <2>4. Ahead(q) >= 2 /\ Ahead(q)' = Ahead(q) - 1 /\ Ahead(q) \in Nat
    BY <1>3, <1>4, <2>3
  <2>5. q \in Holders(i)' /\ \A s \in Holders(i)' : Ahead(s)' <= Ahead(q)'
    BY <1>2, <1>3, <1>4, <2>2, <2>3, <2>4
  <2>6. Remaining(i)' = Ahead(q)'
    BY <1>1, <2>5, RemainingNext
  <2> QED
    BY <1>7, <2>1, <2>4, <2>6
<1> QED
  BY <1>5, <1>6, <1>7

\* The wheel implements the table of deadlines: a task runs when its delay,
\* counted from its last refresh, is over, and at no other tick.
THEOREM WheelImplementsDeadlines == Safety => ImplementsDeadlines
<1> DEFINE left == [id \in Id |-> Remaining(id)]
<1>1. Init => Deadlines!Init
  <2> SUFFICES ASSUME Init PROVE Deadlines!Init
    OBVIOUS
  <2>1. ASSUME NEW id \in Id PROVE Remaining(id) = 0
    <3>1. Holders(id) = {} /\ tick \in Slots
      BY DEF Init, Holders, Slots
    <3> QED
      BY <3>1, RemainingProperties
  <2> QED
    BY <2>1 DEF Init, Deadlines!Init
<1>2. IInv /\ [Next]_vars => [Deadlines!Next]_(Deadlines!vars)
  <2> SUFFICES ASSUME IInv, [Next]_vars PROVE [Deadlines!Next]_(Deadlines!vars)
    OBVIOUS
  <2> USE DEF IInv, TypeOK
  <2>1. \A id \in Id : id \in Deadlines!Live <=> HasTimer(id)
    BY RemainingProperties DEF Deadlines!Live, TimersAlive, HasTimer
  <2>2. ASSUME NEW id \in Id, NEW d \in Delays, TimerAddInLoop(id, d)
        PROVE  Deadlines!Add(id, d)
    <3>1. Holders(id) = {}
      BY <2>2 DEF TimersAlive, TimerAddInLoop, HasTimer
    <3>2. \A i \in Id : Remaining(i)' = IF i = id THEN Wrapped(d) ELSE Remaining(i)
      BY <2>2, <3>1, RemainingPush DEF TimerAddInLoop
    <3>3. left' = [left EXCEPT ![id] = Wrapped(d)]
      BY <3>2
    <3> QED
      BY <2>1, <2>2, <3>3 DEF TimerAddInLoop, Deadlines!Add
  <2>3. ASSUME NEW id \in Id, TimerRefreshInLoop(id) PROVE Deadlines!Refresh(id)
    <3>1. \A i \in Id :
            Remaining(i)' = IF i = id THEN Wrapped(delay[id]) ELSE Remaining(i)
      BY <2>3, RemainingPush DEF TimerRefreshInLoop
    <3>2. left' = [left EXCEPT ![id] = Wrapped(delay[id])]
      BY <3>1
    <3> QED
      BY <2>1, <2>3, <3>2 DEF TimerRefreshInLoop, Deadlines!Refresh
  <2>4. ASSUME UNCHANGED <<tick, wheel>> PROVE left' = left
    BY <2>4 DEF Remaining, Furthest, Holders, Ahead
  <2>5. ASSUME NEW id \in Id, TimerCancelInLoop(id) PROVE Deadlines!Cancel(id)
    BY <2>1, <2>4, <2>5 DEF TimerCancelInLoop, Deadlines!Cancel
  <2>6. CASE RunTimerTask
    <3>1. left' = [id \in Id |-> IF left[id] = 0 THEN 0 ELSE left[id] - 1]
      BY <2>6, RemainingTick
    <3>2. fired' = fired \cup {id \in Id \ canceled : left[id] = 1}
      <4>1. tick' = (tick + 1) % Capacity /\ tick' \in Slots
        BY <2>6, AheadTick DEF RunTimerTask, Destroyed
      <4>2. \A id \in Id : left[id] = 1 <=> Holders(id) = {tick'}
        BY <2>6, RemainingTick
      <4>3. {id \in wheel[tick'] : Holders(id) = {tick'}} = {id \in Id : Holders(id) = {tick'}}
        BY <4>1 DEF Holders
      <4> QED
        BY <2>6, <4>1, <4>2, <4>3 DEF RunTimerTask, Destroyed
    <3> QED
      BY <2>6, <3>1, <3>2 DEF RunTimerTask, Destroyed, Deadlines!Next, Deadlines!Tick
  <2>7. ASSUME UNCHANGED wheelVars PROVE UNCHANGED Deadlines!vars
    BY <2>4, <2>7 DEF wheelVars, Deadlines!vars
  <2> QED
    BY <2>2, <2>3, <2>5, <2>6, <2>7
    DEF Next, Expire, OnTime, vars, wheelVars, Deadlines!Next
<1> QED
  BY <1>1, <1>2, Invariance, PTL DEF Safety, ImplementsDeadlines, Deadlines!Safety

-----------------------------------------------------------------------------
USE InactiveReleaseAssumption

(***************************************************************************)
(* The wheel of the loop is the one of TimerWheel, and its proofs hold.    *)
(***************************************************************************)

\* What the connections do to the wheel are steps of the wheel.
LEMMA WheelStep == [NextAll]_allVars => [Next]_vars
<1> SUFFICES ASSUME [NextAll]_allVars PROVE [Next]_vars
  OBVIOUS
<1>1. ASSUME NEW c \in Id, NEW sec \in Delays, EnableInactiveRelease(c, sec) PROVE Next
  BY <1>1 DEF EnableInactiveRelease, Next
<1>2. ASSUME NEW c \in Id, CancelTimer(c) PROVE Next \/ UNCHANGED vars
  BY <1>2 DEF CancelTimer, Next
<1>3. ASSUME NEW c \in Id, HandleEvent(c) PROVE Next \/ UNCHANGED vars
  BY <1>3 DEF HandleEvent, Next
<1>4. CASE ReleaseInactive \/ Second \/ ReadTimerfd
  BY <1>4 DEF ReleaseInactive, Second, ReadTimerfd, Next
<1> QED
  BY <1>1, <1>2, <1>3, <1>4 DEF NextAll, CancelInactiveRelease, Release, ReleaseInLoop, allVars

-----------------------------------------------------------------------------
(***************************************************************************)
(* No callback after the release.                                          *)
(***************************************************************************)

\* ReleaseInLoop cancels the timer that is there, a refresh arms nothing, and who gets a
\* new timer is not released or late.
LEMMA NextNoCallback ==
  NoCallbackAfterRelease /\ [NextAll]_allVars => NoCallbackAfterRelease'
<1> SUFFICES ASSUME NoCallbackAfterRelease, [NextAll]_allVars
             PROVE  NoCallbackAfterRelease'
  OBVIOUS
<1> USE DEF NoCallbackAfterRelease
<1>1. ASSUME NEW c \in Id, NEW sec \in Delays, EnableInactiveRelease(c, sec)
      PROVE  NoCallbackAfterRelease'
  BY <1>1 DEF EnableInactiveRelease, TimerRefreshInLoop, TimerAddInLoop, vars
<1>2. ASSUME NEW c \in Id, CancelInactiveRelease(c) PROVE NoCallbackAfterRelease'
  BY <1>2 DEF CancelInactiveRelease, CancelTimer, TimerCancelInLoop, vars
<1>3. ASSUME NEW c \in Id, HandleEvent(c) PROVE NoCallbackAfterRelease'
  BY <1>3 DEF HandleEvent, TimerRefreshInLoop, vars
<1>4. ASSUME NEW c \in Id, Release(c) PROVE NoCallbackAfterRelease'
  BY <1>4 DEF Release, vars
<1>5. ASSUME NEW c \in Id, ReleaseInLoop(c) PROVE NoCallbackAfterRelease'
  BY <1>5 DEF ReleaseInLoop, CancelTimer, TimerCancelInLoop, HasTimer, vars
<1>6. CASE ReleaseInactive
  BY <1>6 DEF ReleaseInactive, RunTimerTask
<1>7. CASE Second
  BY <1>7 DEF Second, Expire, wheelVars
<1>8. CASE ReadTimerfd
  BY <1>8 DEF ReadTimerfd, OnTime, wheelVars, connVars
<1>9. CASE UNCHANGED allVars
  BY <1>9 DEF allVars, vars, connVars
<1> QED
  BY <1>1, <1>2, <1>3, <1>4, <1>5, <1>6, <1>7, <1>8, <1>9 DEF NextAll

\* No timer task calls into a connection that has been released (949), whichever of
\* timer, peer and user came first, unless an Enable ran behind the release (940).
THEOREM NeverCalledAfterRelease == SafetyAll => []NoCallbackAfterRelease
<1>1. InitAll => NoCallbackAfterRelease
  BY DEF InitAll, NoCallbackAfterRelease
<1> QED
  BY <1>1, NextNoCallback, PTL DEF SafetyAll

-----------------------------------------------------------------------------
(***************************************************************************)
(* The account of idle time.                                               *)
(***************************************************************************)

\* The inductive invariant: WithinDelay, in IInv, makes a refresh set the whole delay;
\* the account itself shows that the count of idle seconds never meets its bound.
AccountInv == IInv /\ ConnTypeOK /\ IdleAccounted

Accounted(c) == Remaining(c) + idle[c] + lag[c] = delay[c] + expirations + todo

\* A delay that fits the wheel is not wrapped.
LEMMA DelayFits ==
  ASSUME NEW d \in Delays
  PROVE  d \in 1 .. Capacity /\ Wrapped(d) = d
<1>1. d \in 0 .. 2 * Capacity - 1
  OBVIOUS
<1> QED
  BY <1>1, ModOnce DEF Wrapped

\* What remains depends on the hand and the slots only.
LEMMA RemainingSame ==
  ASSUME UNCHANGED <<tick, wheel>>, NEW c
  PROVE  Remaining(c)' = Remaining(c)
  BY DEF Remaining, Furthest, Holders, Ahead

\* Every variable keeps its type.
LEMMA NextConnTypeOK ==
  ASSUME TypeOK, ConnTypeOK, [NextAll]_allVars
  PROVE  ConnTypeOK'
<1> USE DEF ConnTypeOK, TypeOK
<1>1. ASSUME NEW c \in Id, NEW sec \in Delays, EnableInactiveRelease(c, sec)
      PROVE  ConnTypeOK'
  BY <1>1 DEF EnableInactiveRelease, Active, Refreshed
<1>2. ASSUME NEW c \in Id, CancelInactiveRelease(c) PROVE ConnTypeOK'
  BY <1>2 DEF CancelInactiveRelease
<1>3. ASSUME NEW c \in Id, HandleEvent(c) PROVE ConnTypeOK'
  BY <1>3 DEF HandleEvent, Active, Refreshed
<1>4. ASSUME NEW c \in Id, Release(c) \/ ReleaseInLoop(c) PROVE ConnTypeOK'
  BY <1>4 DEF Release, ReleaseInLoop
<1>5. CASE ReleaseInactive
  BY <1>5 DEF ReleaseInactive, RunTimerTask, Destroyed, Holders
<1>6. CASE Second
  BY <1>6 DEF Second
<1>7. CASE ReadTimerfd
  BY <1>7 DEF ReadTimerfd, connVars
<1>8. CASE UNCHANGED allVars
  BY <1>8 DEF allVars, connVars
<1> QED
  BY <1>1, <1>2, <1>3, <1>4, <1>5, <1>6, <1>7, <1>8 DEF NextAll

\* A connection whose timer is set anew, by a refresh or by an addition, has its whole
\* delay before it; the others are not touched.
LEMMA SetAnew ==
  ASSUME AccountInv, NEW c \in Id, NEW d \in Delays,
         (TimerRefreshInLoop(c) /\ d = delay[c]) \/ TimerAddInLoop(c, d),
         Active(c), Refreshed(c),
         enabled' \ {c} = enabled \ {c}, UNCHANGED released
  PROVE  IdleAccounted'
<1> USE DEF AccountInv, IInv, TypeOK, ConnTypeOK
<1>1. /\ tick' = tick /\ wheel' = [wheel EXCEPT ![Pos(d)] = @ \cup {c}]
      /\ expirations' = expirations /\ todo = 0 /\ todo' = 0
      /\ Holders(c) # {} => d = delay[c]
      /\ timers' = timers \cup {c}
      /\ delay' = [delay EXCEPT ![c] = d]
  BY DEF TimerRefreshInLoop, TimerAddInLoop, TimersAlive, HasTimer
<1>2. /\ idle' = [idle EXCEPT ![c] = 0] /\ lag' = [lag EXCEPT ![c] = expirations]
  BY DEF Active, Refreshed
<1>3. \A i \in Id : Remaining(i)' = IF i = c THEN d ELSE Remaining(i)
  BY <1>1, RemainingPush, DelayFits
<1>4. ASSUME NEW i \in (enabled' \cap timers') \ released' PROVE Accounted(i)'
  <2>1. CASE i = c
    BY <1>1, <1>2, <1>3, <2>1, DelayFits DEF Accounted
  <2>2. CASE i # c
    <3>1. i \in Id /\ Accounted(i)
      BY <1>1, <1>4, <2>2 DEF IdleAccounted, Accounted
    <3>2. Remaining(i)' = Remaining(i) /\ idle'[i] = idle[i] /\ lag'[i] = lag[i]
          /\ delay'[i] = delay[i]
      BY <1>1, <1>2, <1>3, <2>2, <3>1
    <3> QED
      BY <1>1, <3>1, <3>2 DEF Accounted
  <2> QED
    BY <2>1, <2>2
<1> QED
  BY <1>4 DEF IdleAccounted, Accounted

\* Steps that move neither hand nor deadline, and add no connection to the account.
LEMMA NotTouched ==
  ASSUME IdleAccounted,
         UNCHANGED <<tick, wheel, timers, delay, expirations, todo, lag>>,
         enabled' \in SUBSET enabled, enabled \in SUBSET Id, released \subseteq released',
         \A c \in Id : c \in enabled \cap timers => idle'[c] = idle[c]
  PROVE  IdleAccounted'
<1> SUFFICES ASSUME NEW c \in (enabled' \cap timers') \ released' PROVE Accounted(c)'
  BY DEF IdleAccounted, Accounted
<1>1. Accounted(c) /\ idle'[c] = idle[c]
  BY DEF IdleAccounted, Accounted
<1>2. Remaining(c)' = Remaining(c)
  BY RemainingSame
<1> QED
  BY <1>1, <1>2 DEF Accounted

\* A tick of the wheel, a second, and the read of the timerfd.
LEMMA TimePasses ==
  ASSUME AccountInv, ReleaseInactive \/ Second \/ ReadTimerfd
  PROVE  IdleAccounted'
<1> USE DEF AccountInv, IInv, TypeOK, ConnTypeOK
<1> SUFFICES ASSUME NEW c \in (enabled' \cap timers') \ released' PROVE Accounted(c)'
  BY DEF IdleAccounted, Accounted
<1>1. c \in (enabled \cap timers) \ released /\ c \in Id
  BY DEF ReleaseInactive, RunTimerTask, Second, Expire, ReadTimerfd, OnTime, wheelVars, connVars
<1>2. /\ Accounted(c) /\ Remaining(c) \in 1 .. Capacity
      /\ idle[c] \in Nat /\ lag[c] \in Nat /\ delay[c] \in 1 .. Capacity
  <2>1. Holders(c) # {}
    BY <1>1 DEF TimersAlive
  <2>2. Remaining(c) \in 0 .. Capacity /\ Remaining(c) # 0
    BY <1>1, <2>1, RemainingProperties
  <2>3. Accounted(c)
    BY <1>1 DEF IdleAccounted, Accounted
  <2>4. delay[c] \in 1 .. Capacity
    BY <1>1, DelayFits
  <2>5. idle[c] \in Nat /\ lag[c] \in Nat
    BY <1>1
  <2> QED
    BY <2>2, <2>3, <2>4, <2>5
<1>3. CASE ReleaseInactive
  <2>1. Remaining(c)' = Remaining(c) - 1
    BY <1>1, <1>2, <1>3, RemainingTick DEF ReleaseInactive
  <2>2. /\ todo' = todo - 1 /\ expirations' = expirations /\ idle' = idle /\ lag' = lag
        /\ delay' = delay
    BY <1>3 DEF ReleaseInactive, RunTimerTask
  <2> QED
    BY <1>2, <2>1, <2>2 DEF Accounted
<1>4. CASE Second
  <2>1. Remaining(c)' = Remaining(c)
    BY <1>4, RemainingSame DEF Second, Expire, wheelVars
  <2>2. /\ todo' = todo /\ expirations' = expirations + 1 /\ expirations < MaxLag
        /\ lag' = lag /\ delay' = delay
    BY <1>4 DEF Second, Expire, wheelVars
  <2>3. idle[c] < MaxIdle
    BY <1>2, <2>2 DEF Accounted
  <2>4. idle'[c] = idle[c] + 1
    BY <1>1, <1>4, <2>3 DEF Second
  <2> QED
    BY <1>2, <2>1, <2>2, <2>4 DEF Accounted
<1>5. CASE ReadTimerfd
  <2>1. Remaining(c)' = Remaining(c)
    BY <1>5, RemainingSame DEF ReadTimerfd, OnTime, wheelVars
  <2>2. /\ todo = 0 /\ todo' = expirations /\ expirations' = 0
        /\ idle' = idle /\ lag' = lag /\ delay' = delay
    BY <1>5 DEF ReadTimerfd, OnTime, wheelVars, connVars
  <2> QED
    BY <1>2, <2>1, <2>2 DEF Accounted
<1> QED
  BY <1>3, <1>4, <1>5

\* The account is kept by every step.
LEMMA NextAccountInv == AccountInv /\ [NextAll]_allVars => AccountInv'
<1> SUFFICES ASSUME AccountInv, [NextAll]_allVars PROVE AccountInv'
  OBVIOUS
<1>1. IInv'
  BY WheelStep, NextIInv DEF AccountInv
<1>2. ConnTypeOK'
  BY NextConnTypeOK DEF AccountInv, IInv
<1>3. IdleAccounted'
  <2> USE DEF AccountInv, ConnTypeOK
  <2>1. ASSUME NEW c \in Id, NEW sec \in Delays, EnableInactiveRelease(c, sec)
        PROVE  IdleAccounted'
    <3>1. delay[c] \in Delays
      BY DEF IInv, TypeOK
    <3>2. /\ Active(c) /\ Refreshed(c) /\ released' = released
          /\ enabled' \ {c} = enabled \ {c}
          /\ TimerRefreshInLoop(c) \/ TimerAddInLoop(c, sec)
      BY <2>1 DEF EnableInactiveRelease
    <3> QED
      BY <3>1, <3>2, SetAnew
  <2>2. ASSUME NEW c \in Id, CancelInactiveRelease(c) \/ Release(c) \/ ReleaseInLoop(c)
        PROVE  IdleAccounted'
    <3>1. /\ UNCHANGED <<tick, wheel, timers, delay, expirations, todo, lag, idle>>
          /\ enabled' \in SUBSET enabled /\ released \subseteq released'
      BY <2>2 DEF CancelInactiveRelease, Release, ReleaseInLoop, CancelTimer,
         TimerCancelInLoop, vars
    <3> QED
      BY <3>1, NotTouched
  <2>3. ASSUME NEW c \in Id, HandleEvent(c) PROVE IdleAccounted'
    <3>1. CASE c \in enabled /\ TimerRefreshInLoop(c) /\ Refreshed(c)
      <4>1. delay[c] \in Delays
        BY DEF IInv, TypeOK
      <4>2. Active(c) /\ released' = released /\ enabled' = enabled
        BY <2>3 DEF HandleEvent
      <4> QED
        BY <3>1, <4>1, <4>2, SetAnew
    <3>2. CASE ~(c \in enabled /\ HasTimer(c)) /\ UNCHANGED <<vars, lag, served>>
      <4>1. /\ UNCHANGED <<tick, wheel, timers, delay, expirations, todo, lag>>
            /\ enabled' = enabled /\ released' = released
            /\ \A i \in Id : i \in enabled \cap timers => idle'[i] = idle[i]
        BY <2>3, <3>2 DEF HandleEvent, Active, HasTimer, vars
      <4> QED
        BY <4>1, NotTouched
    <3> QED
      BY <2>3, <3>1, <3>2 DEF HandleEvent
  <2>4. CASE ReleaseInactive \/ Second \/ ReadTimerfd
    BY <2>4, TimePasses
  <2>5. CASE UNCHANGED allVars
    <3>1. /\ UNCHANGED <<tick, wheel, timers, delay, expirations, todo, lag>>
          /\ enabled' = enabled /\ released' = released
          /\ idle' = idle
      BY <2>5 DEF allVars, vars, connVars
    <3> QED
      BY <3>1, NotTouched
  <2> QED
    BY <2>1, <2>2, <2>3, <2>4, <2>5 DEF NextAll
<1> QED
  BY <1>1, <1>2, <1>3 DEF AccountInv

\* What remains of a deadline and the time without an event add up to the delay, but for
\* the expirations the loop has not worked off: no tick is lost, none counted twice, and
\* no refresh is overtaken by an older pointer (520-545).
THEOREM IdleAlwaysAccounted == SafetyAll => []IdleAccounted
<1>1. ASSUME InitAll PROVE AccountInv
  <2>1. IInv
    BY <1>1, InitIInv DEF InitAll
  <2>2. MaxIdle \in Nat /\ MaxLag \in Nat
    OBVIOUS
  <2>3. ConnTypeOK
    BY <1>1, <2>2 DEF InitAll, ConnTypeOK
  <2>4. IdleAccounted
    BY <1>1 DEF InitAll, IdleAccounted
  <2> QED
    BY <2>1, <2>3, <2>4 DEF AccountInv
<1>2. AccountInv => IdleAccounted
  BY DEF AccountInv
<1> QED
  BY <1>1, <1>2, NextAccountInv, PTL DEF SafetyAll
=============================================================================
