--------------------------- MODULE PortLoopProofs ---------------------------
(***************************************************************************)
(* Proofs about PortLoop, for any functors and however many are handed     *)
(* over.                                                                   *)
(***************************************************************************)
EXTENDS PortLoop, SequenceTheorems, TLAPS

-----------------------------------------------------------------------------
(***************************************************************************)
(* Sequences.                                                              *)
(***************************************************************************)

\* The first element of a sequence that is followed by another one is the
\* first of the whole.
LEMMA TailConcat ==
  ASSUME NEW S, NEW s \in Seq(S), NEW r \in Seq(S), s # <<>>
  PROVE  s \o r # <<>> /\ Tail(s \o r) = Tail(s) \o r
<1>1. /\ s \o r \in Seq(S)
      /\ Tail(s) \in Seq(S)
      /\ Len(s) \in Nat \ {0}
  BY EmptySeq, LenProperties, ConcatProperties, HeadTailProperties
<1>2. s \o r # <<>>
  BY <1>1, LenProperties, ConcatProperties, EmptySeq
<1>3. Len(Tail(s \o r)) = Len(Tail(s) \o r)
  BY <1>1, <1>2, LenProperties, ConcatProperties, HeadTailProperties
<1>4. ASSUME NEW i \in 1 .. Len(Tail(s \o r))
      PROVE  Tail(s \o r)[i] = (Tail(s) \o r)[i]
  BY <1>1, <1>2, LenProperties, ConcatProperties, HeadTailProperties
<1> QED
  BY <1>1, <1>2, <1>3, <1>4, SeqEqual, ConcatProperties, HeadTailProperties

\* What is queued at the end of the pool is queued at the end of the whole.
LEMMA AppendConcat ==
  ASSUME NEW S, NEW s \in Seq(S), NEW r \in Seq(S), NEW f \in S
  PROVE  s \o Append(r, f) = Append(s \o r, f)
  BY AppendIsConcat, ConcatAssociative, ConcatProperties, SMT

-----------------------------------------------------------------------------
(***************************************************************************)
(* The poller.                                                             *)
(***************************************************************************)

PollerTypes ==
    /\ index \in [Channel -> {"new", "added", "deleted"}]
    /\ channels \subseteq Channel
    /\ DOMAIN interest \subseteq Channel

PollerInv == PollerTypes /\ IndexMatches /\ WritersWatched

\* Update for an add or a modification of a channel leaves epoll watching it for
\* its events, and every other channel as it was.
LEMMA AddOrModify ==
  ASSUME NEW op \in {"ADD", "MOD"}, NEW c \in Channel, Update(op, c),
         op = "ADD" => c \notin DOMAIN interest,
         op = "MOD" => c \in DOMAIN interest
  PROVE  /\ fatal' = FALSE
         /\ DOMAIN interest' = DOMAIN interest \union {c}
         /\ interest'[c] = events[c]
<1>1. CASE op = "ADD"
  <2>1. interest' = [d \in DOMAIN interest \union {c} |->
                        IF d = c THEN events[c] ELSE interest[d]]
        /\ fatal' = (c \in DOMAIN interest)
    BY <1>1 DEF Update
  <2>2. fatal' = FALSE
    <3>1. c \notin DOMAIN interest /\ fatal' = (c \in DOMAIN interest)
      BY <1>1, <2>1
    <3>2. (c \in DOMAIN interest) = FALSE
      BY <3>1
    <3> QED
      BY <3>1, <3>2
  <2>3. DOMAIN interest' = DOMAIN interest \union {c} /\ interest'[c] = events[c]
    BY <2>1
  <2> QED
    BY <2>2, <2>3
<1>2. CASE op = "MOD"
  <2>1. interest' = [d \in DOMAIN interest |-> IF d = c THEN events[c] ELSE interest[d]]
        /\ fatal' = (c \notin DOMAIN interest)
    BY <1>2 DEF Update
  <2> QED
    BY <1>2, <2>1
<1> QED
  BY <1>1, <1>2

\* A channel's update keeps index, table and epoll together and watches a writer for
\* all that it wants.
LEMMA UpdateKeeps ==
  ASSUME PollerInv, updateChannel("socket"), asked' = events["socket"]
  PROVE  PollerInv'
<1> USE DEF PollerInv, PollerTypes, IndexMatches, WritersWatched, Channel
<1>1. CASE index["socket"] \in {"new", "deleted"}
  <2>1. /\ channels' = IF index["socket"] = "new" THEN channels \union {"socket"} ELSE channels
        /\ index' = [index EXCEPT !["socket"] = "added"]
        /\ Update("ADD", "socket")
    BY <1>1 DEF updateChannel
  <2>2. /\ fatal' = FALSE
        /\ DOMAIN interest' = DOMAIN interest \union {"socket"}
        /\ interest'["socket"] = events["socket"]
    BY <1>1, <2>1, AddOrModify
  <2> QED
    BY <1>1, <2>1, <2>2
<1>2. CASE index["socket"] = "added" /\ events["socket"] = KReadEvent
  <2>1. /\ interest' = [d \in DOMAIN interest \ {"socket"} |-> interest[d]]
        /\ fatal' = fatal /\ channels' = channels
        /\ index' = [index EXCEPT !["socket"] = "deleted"]
    BY <1>2 DEF updateChannel, Update
  <2>2. "write" \notin asked'
    BY <1>2 DEF KReadEvent
  <2> QED
    BY <1>2, <2>1, <2>2
<1>3. CASE index["socket"] = "added" /\ events["socket"] # KReadEvent
  <2>1. index' = index /\ channels' = channels /\ Update("MOD", "socket")
    BY <1>3 DEF updateChannel
  <2>2. /\ fatal' = FALSE
        /\ DOMAIN interest' = DOMAIN interest \union {"socket"}
        /\ interest'["socket"] = events["socket"]
    BY <1>3, <2>1, AddOrModify
  <2> QED
    BY <1>3, <2>1, <2>2
<1> QED
  BY <1>1, <1>2, <1>3

\* So does its removal.
LEMMA RemoveKeeps ==
  ASSUME PollerInv, removeChannel("socket"), asked' = KNoneEvent
  PROVE  PollerInv'
<1> USE DEF PollerInv, PollerTypes, IndexMatches, WritersWatched, Channel
<1>1. /\ channels' = channels \ {"socket"}
      /\ index' = [index EXCEPT !["socket"] = "new"]
      /\ fatal' = fatal /\ "write" \notin asked'
  BY DEF removeChannel, Update, KNoneEvent
<1>2. DOMAIN interest' = DOMAIN interest \ {"socket"}
  <2>1. CASE index["socket"] = "added"
    BY <2>1 DEF removeChannel, Update
  <2>2. CASE index["socket"] # "added"
    BY <2>2 DEF removeChannel
  <2> QED
    BY <2>1, <2>2
<1> QED
  BY <1>1, <1>2

\* Only changeChannel reaches the poller.
LEMMA NextPollerInv == PollerInv /\ [Next]_vars => PollerInv'
<1> SUFFICES ASSUME PollerInv, [Next]_vars PROVE PollerInv'
  OBVIOUS
<1>1. CASE changeChannel
  BY <1>1, UpdateKeeps, RemoveKeeps DEF changeChannel
<1>2. CASE UNCHANGED <<poller, asked>>
  BY <1>2 DEF poller, PollerInv, PollerTypes, IndexMatches, WritersWatched
<1>3. changeChannel \/ UNCHANGED <<poller, asked>>
  BY DEF Next, vars, poller, LoopThread, threadFunc, start, poll, handleEvent,
         doPendingFunctors, return, queueInLoop, queueInLoopFrom, quitSelf, setEvents,
         startLoop, destructor
<1> QED
  BY <1>1, <1>2, <1>3

\* index_, channels_ and epoll agree, and epoll_ctl never fails, through every order of
\* updates and removals (62-98).
THEOREM IndexAlwaysMatches == Spec => []IndexMatches
<1>1. Init => PollerInv
  BY DEF Init, PollerInv, PollerTypes, IndexMatches, WritersWatched, KNoneEvent
<1>2. PollerInv => IndexMatches
  BY DEF PollerInv
<1> QED
  BY <1>1, <1>2, NextPollerInv, PTL DEF Spec

\* A channel that wanted to write at its last update is watched for all that it wanted
\* (64-85).
THEOREM WritersAlwaysWatched == Spec => []WritersWatched
<1>1. Init => PollerInv
  BY DEF Init, PollerInv, PollerTypes, IndexMatches, WritersWatched, KNoneEvent
<1>2. PollerInv => WritersWatched
  BY DEF PollerInv
<1> QED
  BY <1>1, <1>2, NextPollerInv, PTL DEF Spec

-----------------------------------------------------------------------------
(***************************************************************************)
(* The functors.                                                           *)
(***************************************************************************)

\* What has been swapped out is worked off before the loop comes back to the swap.
BatchLocal ==
    /\ pending \in Seq(Task) /\ functors \in Seq(Task)
    /\ thread \notin {"functors", "functor"} => functors = <<>>
    /\ owner = "start" => thread = "none"

\* To hand over a functor is to append it, or to write the wake-up.
LEMMA HandOver ==
  ASSUME NEW f \in Task, queueInLoop(f) \/ queueInLoopFrom(f)
  PROVE  /\ functors' = functors /\ thread' = thread
         /\ pending' = Append(pending, f) \/ pending' = pending
         /\ owner' = owner \/ owner' # "start"
BY Zenon DEF queueInLoop, queueInLoopFrom

\* Only the loop takes functors out, all at once, and starts the first of them.
LEMMA NextBatchLocal == BatchLocal /\ [Next]_vars => BatchLocal'
<1> SUFFICES ASSUME BatchLocal, [Next]_vars PROVE BatchLocal'
  OBVIOUS
<1> USE DEF BatchLocal, Calling
<1>1. CASE doPendingFunctors
  BY <1>1, EmptySeq, HeadTailProperties DEF doPendingFunctors
<1>2. CASE \E f \in Task : queueInLoop(f) \/ queueInLoopFrom(f)
  BY <1>2, HandOver, AppendProperties
<1>3. CASE threadFunc \/ start \/ poll \/ handleEvent \/ return
  BY <1>3 DEF threadFunc, start, poll, handleEvent, return, pool
<1>4. CASE quitSelf \/ setEvents \/ changeChannel \/ startLoop \/ destructor
  BY <1>4 DEF quitSelf, setEvents, changeChannel, startLoop, destructor, pool
<1>5. CASE UNCHANGED vars
  BY <1>5 DEF vars
<1> QED
  BY <1>1, <1>2, <1>3, <1>4, <1>5 DEF Next, LoopThread

\* Every functor is started once and in the order in which it was handed over, though
\* the vector is swapped out and run without the mutex (165).
THEOREM PortLoopImplementsPool == Spec => ImplementsTaskPool
<1>1. Init => BatchLocal /\ Pool!Init
  BY EmptySeq DEF Init, BatchLocal, Pool!Init
<1>2. BatchLocal /\ [Next]_vars => [Pool!Next]_(functors \o pending)
  <2> SUFFICES ASSUME BatchLocal, [Next]_vars,
                      functors' \o pending' # functors \o pending
               PROVE  Pool!Next
    OBVIOUS
  <2>1. ASSUME NEW f \in Task, queueInLoop(f) \/ queueInLoopFrom(f) PROVE Pool!Next
    <3>1. functors' = functors /\ pending' = Append(pending, f)
      BY <2>1, HandOver
    <3>2. functors' \o pending' = Append(functors \o pending, f)
      BY <3>1, AppendConcat DEF BatchLocal
    <3> QED
      BY <3>2 DEF Pool!Next, Pool!Submit
  <2>2. CASE doPendingFunctors
    <3>1. CASE thread = "handle"
      BY <2>2, <3>1, ConcatEmptySeq, EmptySeq DEF BatchLocal, doPendingFunctors
    <3>2. CASE thread = "functors"
      BY <2>2, <3>2, TailConcat DEF BatchLocal, doPendingFunctors, Pool!Next, Pool!Start
    <3> QED
      BY <2>2, <3>1, <3>2 DEF doPendingFunctors
  <2> QED
    BY <2>1, <2>2 DEF Next, LoopThread, threadFunc, start, poll, handleEvent, return,
       quitSelf, setEvents, changeChannel, startLoop, destructor, pool, vars
<1> QED
  BY <1>1, <1>2, NextBatchLocal, PTL DEF Spec, ImplementsTaskPool, Pool!Safety
=============================================================================
