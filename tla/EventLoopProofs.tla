--------------------------- MODULE EventLoopProofs --------------------------
(***************************************************************************)
(* Proofs about EventLoop, for any number of threads, channels, functors   *)
(* and any bound on the pool.                                              *)
(***************************************************************************)
EXTENDS EventLoop, SequenceTheorems, TLAPS

USE EventLoopAssumption

-----------------------------------------------------------------------------
(***************************************************************************)
(* Sequences.                                                              *)
(***************************************************************************)

\* The first element of a sequence that is followed by another one is the
\* first of the whole.
LEMMA TailConcat ==
  ASSUME NEW S, NEW s \in Seq(S), NEW r \in Seq(S), s # <<>>
  PROVE  s \o r # <<>> /\ Tail(s \o r) = Tail(s) \o r
<1>1. /\ s \o r \in Seq(S)
      /\ Tail(s) \in Seq(S)
      /\ Len(s) \in Nat \ {0}
  BY EmptySeq, LenProperties, ConcatProperties, HeadTailProperties
<1>2. s \o r # <<>>
  BY <1>1, LenProperties, ConcatProperties, EmptySeq
<1>3. Len(Tail(s \o r)) = Len(Tail(s) \o r)
  BY <1>1, <1>2, LenProperties, ConcatProperties, HeadTailProperties
<1>4. ASSUME NEW i \in 1 .. Len(Tail(s \o r))
      PROVE  Tail(s \o r)[i] = (Tail(s) \o r)[i]
  BY <1>1, <1>2, LenProperties, ConcatProperties, HeadTailProperties
<1> QED
  BY <1>1, <1>2, <1>3, <1>4, SeqEqual, ConcatProperties, HeadTailProperties

\* What is queued at the end of the pool is queued at the end of the whole.
LEMMA AppendConcat ==
  ASSUME NEW S, NEW s \in Seq(S), NEW r \in Seq(S), NEW f \in S
  PROVE  s \o Append(r, f) = Append(s \o r, f)
  BY AppendIsConcat, ConcatAssociative, ConcatProperties, SMT

-----------------------------------------------------------------------------
(***************************************************************************)
(* The inductive invariant.  NoLostWakeup speaks of epoll_wait only; to be *)
(* preserved it needs WakeupOwed, which follows the outstanding wake-up    *)
(* through the whole turn, and BatchLocal.                                 *)
(***************************************************************************)

\* The empty pool of the constructor satisfies the invariant.
LEMMA InitIInv == Init => IInv
<1> SUFFICES ASSUME Init PROVE IInv
  OBVIOUS
<1>1. TypeOK
  BY EmptySeq DEF Init, TypeOK, PCs
<1>2. WakeupOwed /\ BatchLocal
  BY DEF Init, WakeupOwed, BatchLocal
<1> QED
  BY <1>1, <1>2 DEF IInv

\* Handing over a functor keeps the invariant: whoever pushes still owes the
\* write to the eventfd.
LEMMA EnqueueIInv ==
  ASSUME IInv, NEW t \in Threads \cup {LoopThread}, NEW f \in Task, Enqueue(t, f),
         t = LoopThread => pc \in {"callback", "task"}
  PROVE  IInv'
<1>1. TypeOK'
  BY DEF IInv, TypeOK, Enqueue
<1>2. WakeupOwed'
  BY DEF Enqueue, WakeupOwed
<1>3. BatchLocal'
  BY DEF IInv, BatchLocal, Enqueue
<1> QED
  BY <1>1, <1>2, <1>3 DEF IInv

\* Every step of the loop thread by itself keeps the invariant.
LEMMA LoopStepIInv ==
  ASSUME IInv, LoopStep
  PROVE  IInv'
<1> USE DEF IInv, TypeOK, WakeupOwed, BatchLocal, PCs
<1>1. CASE ReadEventfd
  BY <1>1 DEF ReadEventfd
<1>2. CASE \E c \in Channels : HandleEvent(c)
  BY <1>2 DEF HandleEvent
<1>3. CASE CallbackReturn
  BY <1>3 DEF CallbackReturn, LoopFree
<1>4. CASE RunAllTask
  BY <1>4 DEF RunAllTask
<1>5. CASE RunTask
  BY <1>5, HeadTailProperties DEF RunTask
<1>6. CASE TaskReturn
  BY <1>6 DEF TaskReturn, LoopFree
<1>7. CASE EndRun
  BY <1>7 DEF EndRun
<1> QED
  BY <1>1, <1>2, <1>3, <1>4, <1>5, <1>6, <1>7 DEF LoopStep

\* The invariant is inductive.
LEMMA NextIInv == IInv /\ [Next]_vars => IInv'
<1> SUFFICES ASSUME IInv, [Next]_vars PROVE IInv'
  OBVIOUS
<1>1. CASE \E t \in Threads, f \in Task : RunInLoop(t, f)
  BY <1>1, EnqueueIInv DEF RunInLoop
<1>2. CASE \E f \in Task : QueueInLoop(f)
  BY <1>2, EnqueueIInv DEF QueueInLoop
<1>3. CASE \E t \in Threads \cup {LoopThread} : WeakUpEventFd(t)
  BY <1>3 DEF WeakUpEventFd, IInv, TypeOK, WakeupOwed, BatchLocal
<1>4. CASE \E ready \in SUBSET (Channels \cup {EventChannel}) : Poll(ready)
  BY <1>4 DEF Poll, IInv, TypeOK, WakeupOwed, BatchLocal, PCs
<1>5. CASE PollInterrupted
  BY <1>5 DEF PollInterrupted, IInv, TypeOK, WakeupOwed, BatchLocal, PCs
<1>6. CASE LoopStep
  BY <1>6, LoopStepIInv
<1>7. CASE UNCHANGED vars
  BY <1>7 DEF vars, IInv, TypeOK, WakeupOwed, BatchLocal
<1> QED
  BY <1>1, <1>2, <1>3, <1>4, <1>5, <1>6, <1>7 DEF Next

\* The variables keep their types, a pool that holds a functor is always owed
\* a wake-up, and the batch of RunAllTask is private to its turn.
THEOREM Invariance == Safety => []IInv
  BY InitIInv, NextIInv, PTL DEF Safety

\* The loop never sleeps on a functor without a wake-up on its way, for any
\* number of threads that call RunInLoop.
THEOREM WakeupNeverLost == Safety => []NoLostWakeup
<1>1. IInv => NoLostWakeup
  BY DEF IInv, WakeupOwed, NoLostWakeup
<1> QED
  BY <1>1, Invariance, PTL

-----------------------------------------------------------------------------
(***************************************************************************)
(* Refinement of TaskPool.                                                 *)
(***************************************************************************)

\* The loop starts functors in the order in which they were handed over, each
\* of them once, whatever the threads and the loop do meanwhile.
THEOREM LoopImplementsPool == Safety => ImplementsTaskPool
<1>1. Init => Pool!Init
  BY DEF Init, Pool!Init
<1>2. IInv /\ [Next]_vars => [Pool!Next]_(functor \o tasks)
  <2> SUFFICES ASSUME IInv, [Next]_vars,
                      functor' \o tasks' # functor \o tasks
               PROVE  Pool!Next
    OBVIOUS
  <2> USE DEF IInv, TypeOK
  <2>1. ASSUME NEW t, NEW f \in Task, Enqueue(t, f) PROVE Pool!Next
    BY <2>1, AppendConcat DEF Enqueue, Pool!Next, Pool!Submit
  <2>2. CASE RunTask
    BY <2>2, TailConcat DEF RunTask, Pool!Next, Pool!Start
  <2>3. ASSUME RunAllTask PROVE FALSE
    BY <2>3 DEF RunAllTask, BatchLocal
  <2> QED
    BY <2>1, <2>2, <2>3 DEF Next, RunInLoop, QueueInLoop, WeakUpEventFd, Poll,
       PollInterrupted, LoopStep, ReadEventfd, HandleEvent, CallbackReturn,
       TaskReturn, EndRun, vars
<1> QED
  BY <1>1, <1>2, Invariance, PTL DEF Safety, ImplementsTaskPool, Pool!Safety
=============================================================================
