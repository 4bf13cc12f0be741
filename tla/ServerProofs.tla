---------------------------- MODULE ServerProofs ----------------------------
(***************************************************************************)
(* Proofs about Server, for any number of worker threads.                  *)
(***************************************************************************)
EXTENDS Server, SequenceTheorems, WellFoundedInduction, TLAPS

-----------------------------------------------------------------------------
(***************************************************************************)
(* Sequences and numbers.                                                  *)
(***************************************************************************)

\* What is in a queue that has got one more element was there before, or is that element.
LEMMA AppendIndex ==
  ASSUME NEW S, NEW s \in Seq(S), NEW x \in S, NEW i \in 1 .. Len(Append(s, x))
  PROVE  (i \in 1 .. Len(s) /\ Append(s, x)[i] = s[i]) \/ Append(s, x)[i] = x
<1>1. /\ Len(s) \in Nat /\ Len(Append(s, x)) = Len(s) + 1
      /\ \A j \in 1 .. Len(s) : Append(s, x)[j] = s[j]
      /\ Append(s, x)[Len(s) + 1] = x
  BY AppendProperties, LenProperties
<1>2. i \in 1 .. Len(s) \/ i = Len(s) + 1
  BY <1>1
<1> QED
  BY <1>1, <1>2

\* A set of numbers that is not empty has a smallest one.
LEMMA SmallestExists ==
  ASSUME NEW S \in SUBSET Nat, S # {}
  PROVE  \E x \in S : \A y \in S : x <= y
<1>1. PICK x \in S : \A y \in S : ~(<<y, x>> \in OpToRel(<, Nat))
  BY NatLessThanWellFounded, WFMin
<1>2. ASSUME NEW y \in S PROVE x <= y
  <2>1. <<y, x>> \in Nat \X Nat /\ <<y, x>>[1] = y /\ <<y, x>>[2] = x
    OBVIOUS
  <2>2. ~(y < x)
    BY <1>1, <2>1 DEF OpToRel
  <2> QED
    BY <2>2
<1> QED
  BY <1>1, <1>2

-----------------------------------------------------------------------------
(***************************************************************************)
(* The start of the server.                                                *)
(***************************************************************************)

Starting == pc \in {"create", "getloop", "waiting"}

\* The inductive invariant.  GetLoop stands between one thread and the next, so that at
\* most the last thread has its loop still to publish; and nothing is made or handed to
\* a worker before the base loop runs.
PublicationInv ==
    /\ count \in Nat
    /\ threads \in 0 .. count
    /\ loop \in [Workers -> BOOLEAN]
    /\ DOMAIN pool = Loops
    /\ pc = "create" => \A t \in 1 .. threads : loop[t]
    /\ pc \in {"getloop", "waiting"} => threads > 0 /\ \A t \in 1 .. threads - 1 : loop[t]
    /\ ~Starting => \A t \in Workers : loop[t]
    /\ Starting => conn = <<>> /\ \A l \in Workers : pool[l] = <<>>

-----------------------------------------------------------------------------

\* At first there is no thread.
LEMMA InitPublicationInv == Init => PublicationInv
  BY ServerAssumption DEF Init, PublicationInv, Starting, Workers, Loops, ServerAssumption

\* A step of the start: only here can the argument fail.
LEMMA StartStep ==
  ASSUME PublicationInv, NewThread \/ GetLoop \/ ThreadEntry
  PROVE  PublicationInv'
<1> USE DEF PublicationInv, Starting, Workers, Loops
<1>1. CASE NewThread
  BY <1>1 DEF NewThread, ServerVars
<1>2. CASE GetLoop
  BY <1>2 DEF GetLoop, ServerVars
<1>3. CASE ThreadEntry
  BY <1>3 DEF ThreadEntry, ServerVars
<1> QED
  BY <1>1, <1>2, <1>3

\* The base loop at work: it never goes back to the start.
LEMMA BaseStep ==
  ASSUME PublicationInv, Poll \/ RunAllTask \/ Accept \/ Insert \/ BaseTask \/ EndTasks
  PROVE  PublicationInv'
<1>1. /\ ~Starting /\ ~Starting'
      /\ UNCHANGED <<count, threads, loop>>
  BY DEF Poll, RunAllTask, Accept, Insert, BaseTask, EndTasks, Starting, PoolVars, ServerVars
<1>2. DOMAIN pool' = DOMAIN pool
  <2>1. CASE Poll \/ RunAllTask \/ Insert \/ EndTasks
    BY <2>1 DEF Poll, RunAllTask, Insert, EndTasks, ServerVars
  <2>2. CASE Accept
    BY <2>2 DEF Accept, NewConnection, Queue
  <2>3. CASE BaseTask
    BY <2>3 DEF BaseTask, ReleaseInLoop, RemoveConnection, ShutdownInLoop
  <2> QED
    BY <2>1, <2>2, <2>3
<1>3. pc \notin {"create", "getloop", "waiting"} /\ pc' \notin {"create", "getloop", "waiting"}
  BY <1>1 DEF Starting
<1> QED
  BY <1>1, <1>2, <1>3 DEF PublicationInv, Workers, Loops, Starting

\* What others do: it changes neither threads nor the place of the base thread, and
\* while the server starts there is neither connection nor functor of a worker.
LEMMA OtherStep ==
  ASSUME PublicationInv,
         \/ \E l \in Workers : WorkerTask(l)
         \/ Release \/ Shutdown \/ RunAfter \/ Connect \/ Abort
  PROVE  PublicationInv'
<1>1. UNCHANGED <<count, threads, loop, pc>>
  BY DEF WorkerTask, Release, Shutdown, RunAfter, Connect, Abort, PoolVars, ServerVars
<1>2. DOMAIN pool' = DOMAIN pool
  BY DEF WorkerTask, Release, Shutdown, RunAfter, Connect, Abort, ServerVars, Queue,
     ReleaseInLoop, RemoveConnection, ShutdownInLoop
<1>3. ASSUME Starting PROVE conn' = <<>> /\ \A l \in Workers : pool'[l] = <<>>
  <2>1. conn = <<>> /\ Connected = {} /\ \A l \in Workers : pool[l] = <<>>
    BY <1>3 DEF PublicationInv, Connected
  <2>2. RunAfter \/ Connect \/ Abort
    BY <2>1 DEF WorkerTask, Release, Shutdown
  <2>3. \A l \in Workers : l # Base /\ l \in DOMAIN pool
    BY DEF PublicationInv, Workers, Base, Loops
  <2> QED
    BY <2>1, <2>2, <2>3 DEF RunAfter, Connect, Abort, ServerVars, Queue
<1> QED
  BY <1>1, <1>2, <1>3 DEF PublicationInv, Workers, Loops, Starting

\* Every step keeps the invariant.
LEMMA NextPublicationInv == PublicationInv /\ [Next]_vars => PublicationInv'
<1> SUFFICES ASSUME PublicationInv, [Next]_vars PROVE PublicationInv'
  OBVIOUS
<1>1. CASE UNCHANGED vars
  BY <1>1 DEF vars, PublicationInv, Workers, Loops, Starting
<1> QED
  BY <1>1, StartStep, BaseStep, OtherStep DEF Next, BaseThread

\* No connection is made, and so none handed to a worker, before every worker has
\* published its loop (698, 712, 735): GetLoop tests the predicate under the mutex.
THEOREM LoopsAlwaysPublished == Spec => []LoopsPublished
<1>1. PublicationInv => LoopsPublished
  BY DEF PublicationInv, LoopsPublished, Starting
<1> QED
  BY <1>1, InitPublicationInv, NextPublicationInv, PTL DEF Spec

-----------------------------------------------------------------------------
(***************************************************************************)
(* Pollers and connections, where no other thread calls Shutdown.          *)
(***************************************************************************)

Functors == [what : {"Established", "Release", "Shutdown", "Remove", "RunAfter"}, id : Nat]

\* Descriptors are shared by no two connections that are not released.
ConnInv ==
    /\ next_id \in Nat
    /\ DOMAIN conn \subseteq 1 .. next_id
    /\ conn \in [DOMAIN conn -> [fd : Fds, loop : Loops, stage : {"new", "connected", "released"},
                                 releases : Nat]]
    /\ \A x, y \in DOMAIN conn :
          x # y /\ conn[x].stage # "released" /\ conn[y].stage # "released" => conn[x].fd # conn[y].fd

\* A worker establishes new connections and releases others of its own.  Behind the task
\* that establishes one, and while it is connected, no task in the loop is about another
\* one that has, or had, its descriptor.
WorkerInv(l) ==
    /\ \A i \in 1 .. Len(pool[l]) :
          LET f == pool[l][i]
          IN  /\ f.id \in DOMAIN conn /\ conn[f.id].loop = l
              /\ \/ f.what = "Established" /\ conn[f.id].stage = "new"
                 \/ f.what = "Release" /\ conn[f.id].stage # "new"
    /\ \A i, j \in 1 .. Len(pool[l]) :
          i < j /\ pool[l][i].what = "Established"
            => conn[pool[l][i].id].fd # conn[pool[l][j].id].fd
    /\ \A i \in 1 .. Len(pool[l]), z \in Connected :
          pool[l][i].what = "Release" /\ conn[z].loop = l /\ z # pool[l][i].id
            => conn[z].fd # conn[pool[l][i].id].fd

\* In the base loop a batch is worked off before accept is called again.
BaseInv ==
    /\ \A i \in 1 .. Len(pool[Base]) :
          LET f == pool[Base][i]
          IN  /\ f.what \in {"Release", "Remove", "RunAfter"}
              /\ f.what = "Release"
                   => f.id \in Connected /\ conn[f.id].loop = Base /\ pc # "tasks"
    /\ \A i \in 1 .. Len(batch) :
          LET f == batch[i]
          IN  /\ f.what \in {"Release", "Remove", "RunAfter"}
              /\ f.what = "Release"
                   => /\ f.id \in DOMAIN conn /\ conn[f.id].loop = Base /\ conn[f.id].stage # "new"
                      /\ \A z \in Connected :
                            conn[z].loop = Base /\ z # f.id => conn[z].fd # conn[f.id].fd
    /\ pc # "tasks" => batch = <<>>

\* The channels of a poller, one by one.
Matches(l) ==
    /\ interest[l] = DOMAIN channels[l]
    /\ \A fd \in DOMAIN channels[l] :
          LET id == channels[l][fd] IN id \in Connected /\ conn[id].loop = l /\ conn[id].fd = fd
    /\ \A id \in Connected :
          conn[id].loop = l => conn[id].fd \in DOMAIN channels[l] /\ channels[l][conn[id].fd] = id

WatchInv ==
    /\ count \in Nat /\ next_idx \in Nat
    /\ pool \in [Loops -> Seq(Functors)] /\ batch \in Seq(Functors)
    /\ DOMAIN channels = Loops /\ DOMAIN interest = Loops
    /\ ConnInv
    /\ BaseInv
    /\ \A l \in Workers : WorkerInv(l)
    /\ \A l \in Loops : Matches(l)

\* What a step has done to the connections of other loops than those it is about: they
\* are as they were, and new ones may be on their way to the loop.
Others(l) ==
    \A z \in DOMAIN conn' :
       conn'[z].loop = l => conn'[z].stage = IF z \in DOMAIN conn THEN conn[z].stage ELSE "new"

\* A connection keeps its descriptor and its loop.
Keeps ==
    /\ DOMAIN conn \subseteq DOMAIN conn'
    /\ \A z \in DOMAIN conn : conn'[z].fd = conn[z].fd /\ conn'[z].loop = conn[z].loop

\* A connection is new, or new to the server, and its poller takes it.
LEMMA EstablishedStep ==
  ASSUME ConnInv, \A m \in Loops : Matches(m), DOMAIN channels = Loops, DOMAIN interest = Loops,
         NEW l \in Loops, NEW id \in 1 .. next_id', NEW fd \in Fds, Established(l, id, fd),
         next_id' \in Nat, next_id' >= next_id, count' = count,
         id \in DOMAIN conn => conn[id].fd = fd /\ conn[id].loop = l /\ conn[id].stage = "new",
         \A z \in DOMAIN conn \ {id} : conn[z].stage # "released" => conn[z].fd # fd
  PROVE  /\ ConnInv' /\ DOMAIN channels' = Loops /\ DOMAIN interest' = Loops
         /\ \A m \in Loops : Matches(m)'
         /\ Keeps
         /\ Connected' = Connected \union {id}
         /\ \A z \in DOMAIN conn' : z # id => z \in DOMAIN conn /\ conn'[z] = conn[z]
         /\ conn'[id].fd = fd /\ conn'[id].loop = l
<1> DEFINE rec == [fd |-> fd, loop |-> l, stage |-> "connected", releases |-> 0]
<1>1. /\ DOMAIN conn' = DOMAIN conn \union {id}
      /\ conn'[id] = rec
      /\ \A z \in DOMAIN conn : z # id => conn'[z] = conn[z]
      /\ conn' = [z \in DOMAIN conn \union {id} |-> IF z = id THEN rec ELSE conn[z]]
  <2>1. conn' = With(conn, id, rec)
    BY DEF Established
  <2> HIDE DEF rec
  <2> QED
    BY <2>1 DEF With
<1>2. /\ rec.fd = fd /\ rec.loop = l /\ rec.stage = "connected"
      /\ rec \in [fd : Fds, loop : Loops, stage : {"new", "connected", "released"}, releases : Nat]
  OBVIOUS
<1> HIDE DEF rec
<1>3. Keeps
  BY <1>1, <1>2 DEF Keeps
<1>4. Connected' = Connected \union {id}
  BY <1>1, <1>2 DEF Connected
<1>5. ConnInv'
  <2>1. next_id' \in Nat /\ DOMAIN conn' \subseteq 1 .. next_id'
    BY <1>1 DEF ConnInv
  <2>2. Loops' = Loops
    BY DEF Loops, Workers
  <2>3. conn' \in [DOMAIN conn' -> [fd : Fds, loop : Loops, stage : {"new", "connected", "released"},
                                    releases : Nat]]
    BY <1>1, <1>2 DEF ConnInv
  <2>4. ASSUME NEW x \in DOMAIN conn', NEW y \in DOMAIN conn', x # y,
               conn'[x].stage # "released", conn'[y].stage # "released"
        PROVE  conn'[x].fd # conn'[y].fd
    BY <1>1, <1>2, <2>4 DEF ConnInv
  <2> QED
    BY <2>1, <2>2, <2>3, <2>4 DEF ConnInv
<1>6. fd \notin DOMAIN channels[l] /\ fd \notin interest[l]
  BY DEF Matches, Connected
<1>7. fd \in Opened \union {fd}
  OBVIOUS
<1>8. /\ channels' = [channels EXCEPT ![l] = With(channels[l], fd, id)]
      /\ interest' = [interest EXCEPT ![l] = interest[l] \union {fd}]
  BY <1>6, <1>7 DEF Established, UpdateEvent
<1>9. /\ DOMAIN channels'[l] = DOMAIN channels[l] \union {fd}
      /\ channels'[l][fd] = id
      /\ \A d \in DOMAIN channels[l] : channels'[l][d] = channels[l][d]
      /\ interest'[l] = interest[l] \union {fd}
  <2>1. channels'[l] = [d \in DOMAIN channels[l] \union {fd} |->
                          IF d = fd THEN id ELSE channels[l][d]]
    BY <1>8 DEF With
  <2> QED
    BY <1>6, <1>8, <2>1
<1>10. ASSUME NEW m \in Loops PROVE Matches(m)'
  <2>1. CASE m = l
    <3>1. interest'[m] = DOMAIN channels'[m]
      BY <1>9, <2>1 DEF Matches
    <3>2. ASSUME NEW d \in DOMAIN channels'[m]
          PROVE  /\ channels'[m][d] \in Connected'
                 /\ conn'[channels'[m][d]].loop = m /\ conn'[channels'[m][d]].fd = d
      <4>1. CASE d = fd
        BY <1>1, <1>2, <1>4, <1>9, <2>1, <4>1
      <4>2. CASE d # fd
        <5>1. d \in DOMAIN channels[m] /\ channels'[m][d] = channels[m][d]
          BY <1>9, <2>1, <3>2, <4>2
        <5>2. channels[m][d] \in Connected /\ conn[channels[m][d]].loop = m /\ conn[channels[m][d]].fd = d
          BY <5>1 DEF Matches
        <5>3. channels[m][d] \in DOMAIN conn
          BY <5>2 DEF Connected
        <5> QED
          BY <1>3, <1>4, <5>1, <5>2, <5>3 DEF Keeps
      <4> QED
        BY <4>1, <4>2
    <3>3. ASSUME NEW z \in Connected', conn'[z].loop = m
          PROVE  conn'[z].fd \in DOMAIN channels'[m] /\ channels'[m][conn'[z].fd] = z
      <4>1. CASE z = id
        BY <1>1, <1>2, <1>9, <2>1, <4>1
      <4>2. CASE z # id
        <5>1. z \in Connected /\ z \in DOMAIN conn /\ conn'[z] = conn[z]
          BY <1>1, <1>4, <4>2 DEF Connected
        <5>2. conn[z].fd \in DOMAIN channels[m] /\ channels[m][conn[z].fd] = z
          BY <3>3, <5>1 DEF Matches
        <5> QED
          BY <1>9, <2>1, <5>1, <5>2
      <4> QED
        BY <4>1, <4>2
    <3> QED
      BY <3>1, <3>2, <3>3 DEF Matches
  <2>2. CASE m # l
    <3>1. channels'[m] = channels[m] /\ interest'[m] = interest[m]
      BY <1>8, <2>2
    <3>2. ASSUME NEW d \in DOMAIN channels[m]
          PROVE  /\ channels[m][d] \in Connected'
                 /\ conn'[channels[m][d]].loop = m /\ conn'[channels[m][d]].fd = d
      <4>1. channels[m][d] \in Connected /\ conn[channels[m][d]].loop = m /\ conn[channels[m][d]].fd = d
        BY DEF Matches
      <4>2. channels[m][d] \in DOMAIN conn
        BY <4>1 DEF Connected
      <4> QED
        BY <1>3, <1>4, <4>1, <4>2 DEF Keeps
    <3>3. ASSUME NEW z \in Connected', conn'[z].loop = m
          PROVE  conn'[z].fd \in DOMAIN channels[m] /\ channels[m][conn'[z].fd] = z
      <4>1. z # id
        BY <1>1, <1>2, <2>2, <3>3
      <4>2. z \in Connected /\ z \in DOMAIN conn /\ conn'[z] = conn[z]
        BY <1>1, <1>4, <4>1 DEF Connected
      <4> QED
        BY <3>3, <4>2 DEF Matches
    <3> QED
      BY <3>1, <3>2, <3>3 DEF Matches
  <2> QED
    BY <2>1, <2>2
<1> QED
  BY <1>1, <1>2, <1>3, <1>4, <1>5, <1>8, <1>10

\* A connection is released: the channel its poller gives up is its own, or there is none.
LEMMA UnmonitoredStep ==
  ASSUME ConnInv, \A m \in Loops : Matches(m), DOMAIN channels = Loops, DOMAIN interest = Loops,
         NEW l \in Loops, NEW id \in DOMAIN conn, Unmonitored(l, id),
         UNCHANGED <<count, next_id>>, conn[id].loop = l,
         \A z \in Connected : conn[z].loop = l /\ z # id => conn[z].fd # conn[id].fd
  PROVE  /\ ConnInv' /\ DOMAIN channels' = Loops /\ DOMAIN interest' = Loops
         /\ \A m \in Loops : Matches(m)'
         /\ Keeps /\ DOMAIN conn' = DOMAIN conn
         /\ Connected' = Connected \ {id}
         /\ \A z \in DOMAIN conn : z # id => conn'[z] = conn[z]
         /\ conn'[id].stage = "released"
<1> DEFINE fd == conn[id].fd
<1>1. /\ DOMAIN conn' = DOMAIN conn
      /\ \A z \in DOMAIN conn : z # id => conn'[z] = conn[z]
      /\ conn'[id].stage = "released" /\ conn'[id].fd = conn[id].fd /\ conn'[id].loop = conn[id].loop
      /\ conn' \in [DOMAIN conn -> [fd : Fds, loop : Loops, stage : {"new", "connected", "released"},
                                    releases : Nat]]
  BY DEF Unmonitored, ConnInv
<1>2. Keeps
  BY <1>1 DEF Keeps
<1>3. Connected' = Connected \ {id}
  BY <1>1 DEF Connected
<1>4. ConnInv'
  <2>1. Loops' = Loops
    BY DEF Loops, Workers
  <2> QED
    BY <1>1, <2>1 DEF ConnInv
<1>5. /\ DOMAIN channels' = Loops /\ DOMAIN interest' = Loops
      /\ \A m \in Loops : m # l => channels'[m] = channels[m] /\ interest'[m] = interest[m]
      /\ channels'[l] = [d \in DOMAIN channels[l] \ {fd} |-> channels[l][d]]
      /\ interest'[l] = interest[l] \ {fd}
  BY DEF Unmonitored, RemoveEvent
<1> HIDE DEF fd
<1>6. ASSUME NEW m \in Loops PROVE Matches(m)'
  <2>0. /\ DOMAIN channels'[m] = DOMAIN channels[m] \ (IF m = l THEN {fd} ELSE {})
        /\ \A d \in DOMAIN channels'[m] : channels'[m][d] = channels[m][d]
        /\ interest'[m] = interest[m] \ (IF m = l THEN {fd} ELSE {})
    BY <1>5
  <2>1. interest'[m] = DOMAIN channels'[m]
    BY <2>0 DEF Matches
  <2>2. ASSUME NEW d \in DOMAIN channels'[m]
        PROVE  /\ channels'[m][d] \in Connected'
               /\ conn'[channels'[m][d]].loop = m /\ conn'[channels'[m][d]].fd = d
    <3>1. d \in DOMAIN channels[m] /\ channels'[m][d] = channels[m][d] /\ (m = l => d # fd)
      BY <2>0
    <3>2. channels[m][d] \in Connected /\ conn[channels[m][d]].loop = m /\ conn[channels[m][d]].fd = d
      BY <3>1 DEF Matches
    <3>3. channels[m][d] # id
      BY <3>1, <3>2 DEF fd
    <3>4. channels[m][d] \in DOMAIN conn
      BY <3>2 DEF Connected
    <3> QED
      BY <1>1, <1>3, <3>1, <3>2, <3>3, <3>4
  <2>3. ASSUME NEW z \in Connected', conn'[z].loop = m
        PROVE  conn'[z].fd \in DOMAIN channels'[m] /\ channels'[m][conn'[z].fd] = z
    <3>1. z \in Connected /\ z \in DOMAIN conn /\ z # id /\ conn'[z] = conn[z]
      BY <1>1, <1>3 DEF Connected
    <3>2. conn[z].fd \in DOMAIN channels[m] /\ channels[m][conn[z].fd] = z
      BY <2>3, <3>1 DEF Matches
    <3>3. m = l => conn[z].fd # fd
      BY <2>3, <3>1 DEF fd
    <3> QED
      BY <2>0, <3>1, <3>2, <3>3
  <2> QED
    BY <2>1, <2>2, <2>3 DEF Matches
<1> QED
  BY <1>1, <1>2, <1>3, <1>4, <1>5, <1>6

\* Nothing has happened to the stages, descriptors and loops of the connections.
LEMMA SameConnections ==
  ASSUME ConnInv, \A m \in Loops : Matches(m), DOMAIN channels = Loops, DOMAIN interest = Loops,
         UNCHANGED <<count, channels, interest>>, next_id' \in Nat, next_id' >= next_id,
         DOMAIN conn' = DOMAIN conn,
         conn' \in [DOMAIN conn -> [fd : Fds, loop : Loops, stage : {"new", "connected", "released"},
                                    releases : Nat]],
         \A z \in DOMAIN conn : /\ conn'[z].fd = conn[z].fd /\ conn'[z].loop = conn[z].loop
                                /\ conn'[z].stage = conn[z].stage
  PROVE  /\ ConnInv' /\ DOMAIN channels' = Loops /\ DOMAIN interest' = Loops
         /\ \A m \in Loops : Matches(m)'
         /\ Keeps /\ Connected' = Connected
<1>1. Loops' = Loops /\ Connected' = Connected /\ Keeps
  BY DEF Loops, Workers, Connected, Keeps
<1>2. ConnInv'
  <2>1. DOMAIN conn' \subseteq 1 .. next_id'
    BY DEF ConnInv
  <2> QED
    BY <1>1, <2>1 DEF ConnInv
<1>3. ASSUME NEW m \in Loops PROVE Matches(m)'
  BY <1>1 DEF Matches, Connected
<1> QED
  BY <1>1, <1>2, <1>3

-----------------------------------------------------------------------------
(* The pools. *)

\* A loop that the step is not about.
LEMMA WorkerSame ==
  ASSUME ConnInv, NEW l \in Workers, WorkerInv(l), pool'[l] = pool[l], Keeps, Others(l)
  PROVE  WorkerInv(l)'
<1>1. ASSUME NEW z \in Connected', conn'[z].loop = l PROVE z \in Connected
  BY <1>1 DEF Connected, Others
<1>2. \A z \in DOMAIN conn : /\ z \in DOMAIN conn'
                             /\ conn'[z].fd = conn[z].fd /\ conn'[z].loop = conn[z].loop
                             /\ conn[z].loop = l => conn'[z].stage = conn[z].stage
  BY DEF Keeps, Others
<1>3. Connected \subseteq DOMAIN conn
  BY DEF Connected
<1>4. ASSUME NEW i \in 1 .. Len(pool[l])
      PROVE  /\ pool[l][i].id \in DOMAIN conn /\ conn[pool[l][i].id].loop = l
             /\ \/ pool[l][i].what = "Established" /\ conn[pool[l][i].id].stage = "new"
                \/ pool[l][i].what = "Release" /\ conn[pool[l][i].id].stage # "new"
  BY DEF WorkerInv
<1>5. ASSUME NEW i \in 1 .. Len(pool[l]), NEW j \in 1 .. Len(pool[l]),
             i < j, pool[l][i].what = "Established"
      PROVE  conn'[pool[l][i].id].fd # conn'[pool[l][j].id].fd
  <2>1. conn[pool[l][i].id].fd # conn[pool[l][j].id].fd
    BY <1>5 DEF WorkerInv
  <2> QED
    BY <1>2, <1>4, <2>1
<1>6. ASSUME NEW i \in 1 .. Len(pool[l]), NEW z \in Connected', pool[l][i].what = "Release",
             conn'[z].loop = l, z # pool[l][i].id
      PROVE  conn'[z].fd # conn'[pool[l][i].id].fd
  <2>1. z \in Connected /\ z \in DOMAIN conn /\ conn[z].loop = l
    BY <1>1, <1>2, <1>3, <1>6
  <2>2. conn[z].fd # conn[pool[l][i].id].fd
    BY <1>6, <2>1 DEF WorkerInv
  <2> QED
    BY <1>2, <1>4, <2>1, <2>2
<1> QED
  BY <1>2, <1>4, <1>5, <1>6 DEF WorkerInv

\* A task is queued in a worker.
LEMMA WorkerAppend ==
  ASSUME ConnInv, NEW l \in Workers, WorkerInv(l), Keeps, Others(l),
         pool[l] \in Seq(Functors), NEW f \in Functors, pool'[l] = Append(pool[l], f),
         f.id \in DOMAIN conn', conn'[f.id].loop = l,
         \/ f.what = "Established" /\ conn'[f.id].stage = "new"
         \/ /\ f.what = "Release" /\ conn'[f.id].stage # "new"
            /\ \A z \in Connected' : conn'[z].loop = l /\ z # f.id => conn'[z].fd # conn'[f.id].fd,
         \A i \in 1 .. Len(pool[l]) :
            pool[l][i].what = "Established" => conn[pool[l][i].id].fd # conn'[f.id].fd
  PROVE  WorkerInv(l)'
<1> DEFINE n == Len(pool[l])
<1>1. /\ n \in Nat /\ Len(pool'[l]) = n + 1
      /\ \A i \in 1 .. n : pool'[l][i] = pool[l][i]
      /\ pool'[l][n + 1] = f
  BY AppendProperties, LenProperties
<1>2. \A i \in 1 .. n + 1 : i \in 1 .. n \/ i = n + 1
  BY <1>1
<1>3. /\ \A z \in DOMAIN conn : /\ z \in DOMAIN conn'
                                /\ conn'[z].fd = conn[z].fd /\ conn'[z].loop = conn[z].loop
                                /\ conn[z].loop = l => conn'[z].stage = conn[z].stage
      /\ \A z \in Connected' : conn'[z].loop = l => z \in Connected
      /\ Connected \subseteq DOMAIN conn
  BY DEF Keeps, Others, Connected
<1>4. \A i \in 1 .. n : /\ pool[l][i].id \in DOMAIN conn /\ conn[pool[l][i].id].loop = l
                        /\ \/ pool[l][i].what = "Established" /\ conn[pool[l][i].id].stage = "new"
                           \/ pool[l][i].what = "Release" /\ conn[pool[l][i].id].stage # "new"
  BY DEF WorkerInv
<1> HIDE DEF n
<1>5. ASSUME NEW i \in 1 .. n + 1
      PROVE  /\ pool'[l][i].id \in DOMAIN conn' /\ conn'[pool'[l][i].id].loop = l
             /\ \/ pool'[l][i].what = "Established" /\ conn'[pool'[l][i].id].stage = "new"
                \/ pool'[l][i].what = "Release" /\ conn'[pool'[l][i].id].stage # "new"
  BY <1>1, <1>2, <1>3, <1>4
<1>6. ASSUME NEW i \in 1 .. n + 1, NEW j \in 1 .. n + 1, i < j, pool'[l][i].what = "Established"
      PROVE  conn'[pool'[l][i].id].fd # conn'[pool'[l][j].id].fd
  <2>1. i \in 1 .. n /\ pool'[l][i] = pool[l][i]
    BY <1>1, <1>6
  <2>2. CASE j = n + 1
    BY <1>1, <1>3, <1>4, <1>6, <2>1, <2>2 DEF n
  <2>3. CASE j # n + 1
    <3>1. j \in 1 .. n /\ pool'[l][j] = pool[l][j]
      BY <1>1, <1>2, <2>3
    <3>2. conn[pool[l][i].id].fd # conn[pool[l][j].id].fd
      BY <1>6, <2>1, <3>1 DEF WorkerInv, n
    <3> QED
      BY <1>3, <1>4, <2>1, <3>1, <3>2
  <2> QED
    BY <2>2, <2>3
<1>7. ASSUME NEW i \in 1 .. n + 1, NEW z \in Connected', pool'[l][i].what = "Release",
             conn'[z].loop = l, z # pool'[l][i].id
      PROVE  conn'[z].fd # conn'[pool'[l][i].id].fd
  <2>1. CASE i = n + 1
    BY <1>1, <1>7, <2>1
  <2>2. CASE i # n + 1
    <3>1. i \in 1 .. n /\ pool'[l][i] = pool[l][i]
      BY <1>1, <1>2, <2>2
    <3>2. z \in Connected /\ z \in DOMAIN conn /\ conn[z].loop = l
      BY <1>3, <1>7
    <3>3. conn[z].fd # conn[pool[l][i].id].fd
      BY <1>7, <3>1, <3>2 DEF WorkerInv, n
    <3> QED
      BY <1>3, <1>4, <3>1, <3>2, <3>3
  <2> QED
    BY <2>1, <2>2
<1> QED
  BY <1>1, <1>5, <1>6, <1>7 DEF WorkerInv

\* A worker has run the first task of its pool.
LEMMA WorkerTail ==
  ASSUME ConnInv, NEW l \in Workers, WorkerInv(l), Keeps, DOMAIN conn' = DOMAIN conn,
         pool[l] \in Seq(Functors), pool[l] # <<>>, pool'[l] = Tail(pool[l]),
         NEW f, f = Head(pool[l]),
         \/ f.what = "Established" /\ conn'[f.id].stage = "connected"
         \/ f.what = "Release" /\ conn'[f.id].stage = "released",
         \A z \in DOMAIN conn : z # f.id => conn'[z].stage = conn[z].stage
  PROVE  WorkerInv(l)'
<1> DEFINE n == Len(pool[l])
           q == pool'[l]
<1>1. /\ n \in Nat \ {0} /\ Len(q) = n - 1
      /\ \A i \in 1 .. Len(q) : q[i] = pool[l][i + 1]
      /\ f = pool[l][1]
  BY HeadTailProperties, EmptySeq
<1>2. 1 \in 1 .. n /\ \A i \in 1 .. Len(q) : i + 1 \in 1 .. n /\ 1 < i + 1
  BY <1>1
<1> HIDE DEF n, q
<1>3. /\ \A i \in 1 .. n : /\ pool[l][i].id \in DOMAIN conn /\ conn[pool[l][i].id].loop = l
                           /\ \/ pool[l][i].what = "Established" /\ conn[pool[l][i].id].stage = "new"
                              \/ pool[l][i].what = "Release" /\ conn[pool[l][i].id].stage # "new"
      /\ \A i, j \in 1 .. n :
            i < j /\ pool[l][i].what = "Established" => conn[pool[l][i].id].fd # conn[pool[l][j].id].fd
      /\ \A i \in 1 .. n, z \in Connected :
            pool[l][i].what = "Release" /\ conn[z].loop = l /\ z # pool[l][i].id
              => conn[z].fd # conn[pool[l][i].id].fd
  BY DEF WorkerInv, n
<1>4. \A z \in DOMAIN conn : conn'[z].fd = conn[z].fd /\ conn'[z].loop = conn[z].loop
  BY DEF Keeps
<1>5. ASSUME NEW i \in 1 .. Len(q)
      PROVE  /\ q[i].id \in DOMAIN conn /\ q[i].what \in {"Established", "Release"}
             /\ conn'[q[i].id].loop = l
             /\ f.what = "Established" => conn'[f.id].fd # conn'[q[i].id].fd
             /\ \/ q[i].what = "Established" /\ conn'[q[i].id].stage = "new"
                \/ q[i].what = "Release" /\ conn'[q[i].id].stage # "new"
  <2>1. /\ f.id \in DOMAIN conn /\ (f.what = "Established" \/ conn[f.id].stage # "new")
        /\ i + 1 \in 1 .. n /\ q[i] = pool[l][i + 1]
    BY <1>1, <1>2, <1>3
  <2>2. f.what = "Established" => conn[f.id].fd # conn[q[i].id].fd
    BY <1>1, <1>2, <1>3, <2>1
  <2>3. /\ q[i].id \in DOMAIN conn /\ conn[q[i].id].loop = l
        /\ \/ q[i].what = "Established" /\ conn[q[i].id].stage = "new"
           \/ q[i].what = "Release" /\ conn[q[i].id].stage # "new"
    BY <1>3, <2>1
  <2>4. CASE q[i].id = f.id
    BY <1>4, <2>1, <2>2, <2>3, <2>4
  <2>5. CASE q[i].id # f.id
    BY <1>4, <2>1, <2>2, <2>3, <2>5
  <2> QED
    BY <2>4, <2>5
<1>6. ASSUME NEW i \in 1 .. Len(q), NEW j \in 1 .. Len(q), i < j, q[i].what = "Established"
      PROVE  conn'[q[i].id].fd # conn'[q[j].id].fd
  <2>1. i + 1 \in 1 .. n /\ j + 1 \in 1 .. n /\ q[i] = pool[l][i + 1] /\ q[j] = pool[l][j + 1]
    BY <1>1, <1>2
  <2>2. i + 1 < j + 1
    BY <1>1, <1>6
  <2>3. conn[q[i].id].fd # conn[q[j].id].fd
    BY <1>3, <1>6, <2>1, <2>2
  <2> QED
    BY <1>4, <1>5, <2>3
<1>7. ASSUME NEW i \in 1 .. Len(q), NEW z \in Connected', q[i].what = "Release",
             conn'[z].loop = l, z # q[i].id
      PROVE  conn'[z].fd # conn'[q[i].id].fd
  <2>1. z \in DOMAIN conn /\ conn'[z].stage = "connected" /\ conn[z].loop = l
    BY <1>4, <1>7 DEF Connected
  <2>2. CASE z = f.id
    BY <1>5, <2>1, <2>2
  <2>3. CASE z # f.id
    <3>1. z \in Connected
      BY <2>1, <2>3 DEF Connected
    <3>2. i + 1 \in 1 .. n /\ q[i] = pool[l][i + 1]
      BY <1>1, <1>2
    <3>3. conn[z].fd # conn[q[i].id].fd
      BY <1>3, <1>7, <2>1, <3>1, <3>2
    <3> QED
      BY <1>4, <1>5, <2>1, <3>3
  <2> QED
    BY <2>2, <2>3
<1> QED
  BY <1>5, <1>6, <1>7 DEF WorkerInv, q

\* The base loop keeps what it has to do, or more is queued there.
LEMMA BaseQueued ==
  ASSUME BaseInv, Keeps, Others(Base), UNCHANGED batch, pc' = "tasks" <=> pc = "tasks",
         Connected \subseteq DOMAIN conn,
         \A i \in 1 .. Len(pool'[Base]) :
            \/ i \in 1 .. Len(pool[Base]) /\ pool'[Base][i] = pool[Base][i]
            \/ pool'[Base][i].what \in {"Remove", "RunAfter"}
            \/ /\ pool'[Base][i].what = "Release" /\ pool'[Base][i].id \in Connected'
               /\ conn'[pool'[Base][i].id].loop = Base /\ pc # "tasks"
  PROVE  BaseInv'
<1>1. /\ \A z \in DOMAIN conn : /\ z \in DOMAIN conn'
                                /\ conn'[z].fd = conn[z].fd /\ conn'[z].loop = conn[z].loop
                                /\ conn[z].loop = Base => conn'[z].stage = conn[z].stage
      /\ \A z \in Connected' : conn'[z].loop = Base => z \in Connected
      /\ \A z \in Connected : conn[z].loop = Base => z \in Connected'
  BY DEF Keeps, Others, Connected
<1>2. ASSUME NEW i \in 1 .. Len(pool'[Base])
      PROVE  /\ pool'[Base][i].what \in {"Release", "Remove", "RunAfter"}
             /\ pool'[Base][i].what = "Release"
                  => /\ pool'[Base][i].id \in Connected' /\ conn'[pool'[Base][i].id].loop = Base
                     /\ pc' # "tasks"
  <2>1. CASE i \in 1 .. Len(pool[Base]) /\ pool'[Base][i] = pool[Base][i]
    <3>1. /\ pool[Base][i].what \in {"Release", "Remove", "RunAfter"}
          /\ pool[Base][i].what = "Release"
               => pool[Base][i].id \in Connected /\ conn[pool[Base][i].id].loop = Base /\ pc # "tasks"
      BY <2>1 DEF BaseInv
    <3> QED
      BY <1>1, <2>1, <3>1
  <2>2. CASE ~(i \in 1 .. Len(pool[Base]) /\ pool'[Base][i] = pool[Base][i])
    BY <2>2
  <2> QED
    BY <2>1, <2>2
<1>3. ASSUME NEW i \in 1 .. Len(batch)
      PROVE  /\ batch[i].what \in {"Release", "Remove", "RunAfter"}
             /\ batch[i].what = "Release"
                  => /\ batch[i].id \in DOMAIN conn' /\ conn'[batch[i].id].loop = Base
                     /\ conn'[batch[i].id].stage # "new"
                     /\ \A z \in Connected' :
                           conn'[z].loop = Base /\ z # batch[i].id => conn'[z].fd # conn'[batch[i].id].fd
  <2>1. /\ batch[i].what \in {"Release", "Remove", "RunAfter"}
        /\ batch[i].what = "Release"
             => /\ batch[i].id \in DOMAIN conn /\ conn[batch[i].id].loop = Base
                /\ conn[batch[i].id].stage # "new"
                /\ \A z \in Connected :
                      conn[z].loop = Base /\ z # batch[i].id => conn[z].fd # conn[batch[i].id].fd
    BY DEF BaseInv
  <2> QED
    BY <1>1, <2>1
<1> QED
  BY <1>2, <1>3 DEF BaseInv

\* The base loop has run the first task of its batch.
LEMMA BatchTail ==
  ASSUME BaseInv, Keeps, pc = "tasks", UNCHANGED pc, pool'[Base] = pool[Base],
         batch \in Seq(Functors), batch # <<>>, batch' = Tail(batch),
         Connected' \subseteq Connected, Connected \subseteq DOMAIN conn,
         \A z \in DOMAIN conn : conn[z].stage # "new" => conn'[z].stage # "new"
  PROVE  BaseInv'
<1>1. /\ Len(batch) \in Nat \ {0} /\ Len(batch') = Len(batch) - 1
      /\ \A i \in 1 .. Len(batch') : batch'[i] = batch[i + 1]
  BY HeadTailProperties, EmptySeq
<1>2. \A z \in DOMAIN conn : /\ z \in DOMAIN conn'
                             /\ conn'[z].fd = conn[z].fd /\ conn'[z].loop = conn[z].loop
  BY DEF Keeps
<1>3. ASSUME NEW i \in 1 .. Len(batch')
      PROVE  /\ batch'[i].what \in {"Release", "Remove", "RunAfter"}
             /\ batch'[i].what = "Release"
                  => /\ batch'[i].id \in DOMAIN conn' /\ conn'[batch'[i].id].loop = Base
                     /\ conn'[batch'[i].id].stage # "new"
                     /\ \A z \in Connected' :
                           conn'[z].loop = Base /\ z # batch'[i].id => conn'[z].fd # conn'[batch'[i].id].fd
  <2>1. PICK j \in 1 .. Len(batch) : batch'[i] = batch[j]
    <3>1. i + 1 \in 1 .. Len(batch)
      BY <1>1
    <3> QED
      BY <1>1, <3>1
  <2>2. /\ batch[j].what \in {"Release", "Remove", "RunAfter"}
        /\ batch[j].what = "Release"
             => /\ batch[j].id \in DOMAIN conn /\ conn[batch[j].id].loop = Base
                /\ conn[batch[j].id].stage # "new"
                /\ \A z \in Connected :
                      conn[z].loop = Base /\ z # batch[j].id => conn[z].fd # conn[batch[j].id].fd
    BY DEF BaseInv
  <2> QED
    BY <1>2, <2>1, <2>2
<1>4. ASSUME NEW i \in 1 .. Len(pool[Base])
      PROVE  pool[Base][i].what \in {"Remove", "RunAfter"}
  BY DEF BaseInv
<1> QED
  BY <1>3, <1>4 DEF BaseInv

-----------------------------------------------------------------------------
(* The steps. *)

\* The loops are the same as long as there is no other thread.
LEMMA SameLoops ==
  ASSUME UNCHANGED count
  PROVE  Loops' = Loops /\ Workers' = Workers
  BY DEF Loops, Workers

\* Where the connections and the pools are left alone.
LEMMA QuietStep ==
  ASSUME WatchInv, UNCHANGED <<count, next_idx, pool, batch, channels, interest, conn, next_id>>,
         pc' = "tasks" => pc = "tasks", pc' # "tasks" => batch = <<>>
  PROVE  WatchInv'
<1>1. Loops' = Loops /\ Workers' = Workers /\ Connected' = Connected
  BY SameLoops DEF Connected
<1>2. ConnInv' /\ \A l \in Loops : Matches(l)'
  BY <1>1 DEF WatchInv, ConnInv, Matches
<1>3. \A l \in Workers : WorkerInv(l)'
  BY <1>1 DEF WatchInv, WorkerInv
<1>4. BaseInv'
  BY <1>1 DEF WatchInv, BaseInv
<1> QED
  BY <1>1, <1>2, <1>3, <1>4 DEF WatchInv

\* The steps that leave them alone.
LEMMA QuietSteps ==
  ASSUME WatchInv, NewThread \/ GetLoop \/ ThreadEntry \/ Poll \/ Insert \/ EndTasks \/ Connect \/ Abort
  PROVE  WatchInv'
<1>1. UNCHANGED <<count, next_idx, pool, batch, channels, interest, conn, next_id>>
  BY DEF NewThread, GetLoop, ThreadEntry, Poll, Insert, EndTasks, Connect, Abort, ServerVars, PoolVars
<1>2. (pc' = "tasks" => pc = "tasks") /\ (pc' # "tasks" => batch = <<>>)
  BY DEF NewThread, GetLoop, ThreadEntry, Poll, Insert, EndTasks, Connect, Abort, ServerVars, PoolVars,
     WatchInv, BaseInv
<1> QED
  BY <1>1, <1>2, QuietStep

\* The base loop takes its pool: no connection is accepted before the batch is worked off.
LEMMA RunAllTaskStep ==
  ASSUME WatchInv, RunAllTask
  PROVE  WatchInv'
<1>1. /\ Base \in Loops /\ Base \notin Workers /\ Workers \subseteq Loops
      /\ pool \in [Loops -> Seq(Functors)]
  BY DEF Base, Loops, Workers, WatchInv
<1>2. /\ UNCHANGED <<count, next_idx, channels, interest, conn, next_id>>
      /\ pc # "tasks" /\ pc' = "tasks" /\ batch' = pool[Base]
      /\ pool' = [pool EXCEPT ![Base] = <<>>]
  BY DEF RunAllTask, PoolVars
<1>3. Loops' = Loops /\ Workers' = Workers /\ Connected' = Connected
  BY <1>2, SameLoops DEF Connected
<1>4. ConnInv' /\ \A l \in Loops : Matches(l)'
  BY <1>2, <1>3 DEF WatchInv, ConnInv, Matches
<1>5. /\ pool' \in [Loops -> Seq(Functors)] /\ batch' \in Seq(Functors)
      /\ \A l \in Workers : pool'[l] = pool[l]
      /\ pool'[Base] = <<>>
  BY <1>1, <1>2
<1>6. \A l \in Workers : WorkerInv(l)'
  BY <1>2, <1>3, <1>5 DEF WatchInv, WorkerInv
<1>7. BaseInv'
  <2>1. ASSUME NEW i \in 1 .. Len(batch')
        PROVE  /\ batch'[i].what \in {"Release", "Remove", "RunAfter"}
               /\ batch'[i].what = "Release"
                    => /\ batch'[i].id \in Connected /\ conn[batch'[i].id].loop = Base
    BY <1>2 DEF WatchInv, BaseInv
  <2>2. ASSUME NEW x \in Connected, NEW z \in Connected, z # x
        PROVE  conn[z].fd # conn[x].fd
    BY <2>2 DEF WatchInv, ConnInv, Connected
  <2>3. \A x \in Connected : x \in DOMAIN conn /\ conn[x].stage # "new"
    BY DEF Connected
  <2>4. 1 .. Len(pool'[Base]) = {}
    BY <1>5
  <2> QED
    BY <1>2, <1>3, <2>1, <2>2, <2>3, <2>4 DEF BaseInv
<1> QED
  BY <1>2, <1>3, <1>4, <1>5, <1>6, <1>7 DEF WatchInv

\* A timer: the base loop draws an id for it.
LEMMA RunAfterStep ==
  ASSUME WatchInv, RunAfter
  PROVE  WatchInv'
<1> DEFINE f == Functor("RunAfter", 0)
<1>1. /\ Base \in Loops /\ Base \notin Workers /\ Workers \subseteq Loops
      /\ pool \in [Loops -> Seq(Functors)]
  BY DEF Base, Loops, Workers, WatchInv
<1>2. /\ UNCHANGED <<count, next_idx, channels, interest, conn, next_id, pc, batch>>
      /\ pool' = [pool EXCEPT ![Base] = Append(pool[Base], f)]
  BY DEF RunAfter, PoolVars, Queue
<1>3. f.what = "RunAfter" /\ f \in Functors
  BY DEF Functor, Functors
<1> HIDE DEF f
<1>4. Loops' = Loops /\ Workers' = Workers /\ Connected' = Connected
  BY <1>2, SameLoops DEF Connected
<1>5. /\ ConnInv' /\ \A l \in Loops : Matches(l)'
  BY <1>2, <1>4 DEF WatchInv, ConnInv, Matches
<1>6. /\ pool' \in [Loops -> Seq(Functors)]
      /\ \A l \in Workers : pool'[l] = pool[l]
      /\ pool'[Base] = Append(pool[Base], f)
  BY <1>1, <1>2, <1>3, AppendProperties
<1>7. ASSUME NEW l \in Workers PROVE WorkerInv(l)'
  <2>1. Keeps /\ Others(l)
    BY <1>2 DEF Keeps, Others
  <2> QED
    BY <1>6, <2>1, WorkerSame DEF WatchInv
<1>8. BaseInv'
  <2>1. Keeps /\ Others(Base) /\ Connected \subseteq DOMAIN conn
    BY <1>2 DEF Keeps, Others, Connected
  <2>2. ASSUME NEW i \in 1 .. Len(pool'[Base])
        PROVE  \/ i \in 1 .. Len(pool[Base]) /\ pool'[Base][i] = pool[Base][i]
               \/ pool'[Base][i].what \in {"Remove", "RunAfter"}
    <3>1. pool[Base] \in Seq(Functors)
      BY <1>1
    <3>2. (i \in 1 .. Len(pool[Base]) /\ pool'[Base][i] = pool[Base][i]) \/ pool'[Base][i] = f
      BY <1>3, <1>6, <3>1, AppendIndex
    <3> QED
      BY <1>3, <3>2
  <2> QED
    BY <1>2, <2>1, <2>2, BaseQueued DEF WatchInv
<1> QED
  BY <1>2, <1>4, <1>5, <1>6, <1>7, <1>8 DEF WatchInv

\* A connection that is established asks to be released: nobody else has its descriptor.
LEMMA ReleaseStep ==
  ASSUME WatchInv, Release
  PROVE  WatchInv'
<1>1. /\ Base \in Loops /\ Base \notin Workers /\ Loops = {Base} \union Workers
      /\ pool \in [Loops -> Seq(Functors)]
  BY DEF Base, Loops, Workers, WatchInv
<1>2. /\ UNCHANGED <<count, next_idx, channels, interest, next_id, pc, batch>>
      /\ \E id \in Connected : /\ conn[id].loop = Base => pc = "poll"
                               /\ conn' = [conn EXCEPT ![id].releases = @ + 1]
                               /\ pool' = Queue(conn[id].loop, Functor("Release", id))
  BY DEF Release, PoolVars
<1>3. PICK id \in Connected : /\ conn[id].loop = Base => pc = "poll"
                              /\ conn' = [conn EXCEPT ![id].releases = @ + 1]
                              /\ pool' = Queue(conn[id].loop, Functor("Release", id))
  BY <1>2
<1> DEFINE l == conn[id].loop
           f == Functor("Release", id)
<1>4. f.what = "Release" /\ f.id = id
  BY DEF Functor
<1>5. id \in Nat /\ f \in Functors /\ id \in DOMAIN conn /\ conn[id].stage = "connected" /\ l \in Loops
  BY DEF WatchInv, ConnInv, Connected, Functor, Functors
<1>6. /\ Loops' = Loops /\ Workers' = Workers
      /\ DOMAIN conn' = DOMAIN conn
      /\ conn' \in [DOMAIN conn -> [fd : Fds, loop : Loops, stage : {"new", "connected", "released"},
                                    releases : Nat]]
      /\ \A z \in DOMAIN conn : /\ conn'[z].fd = conn[z].fd /\ conn'[z].loop = conn[z].loop
                                /\ conn'[z].stage = conn[z].stage
  <2> DEFINE R == [fd : Fds, loop : Loops, stage : {"new", "connected", "released"}, releases : Nat]
             r == [conn[id] EXCEPT !.releases = @ + 1]
  <2>1. conn \in [DOMAIN conn -> R] /\ conn[id] \in R
    BY <1>5 DEF WatchInv, ConnInv
  <2>2. r \in R /\ r.fd = conn[id].fd /\ r.loop = conn[id].loop /\ r.stage = conn[id].stage
    BY <2>1
  <2>3. conn' = [conn EXCEPT ![id] = r]
    BY <1>3
  <2>4. Loops' = Loops /\ Workers' = Workers
    BY <1>2, SameLoops
  <2> HIDE DEF R, r
  <2>5. DOMAIN conn' = DOMAIN conn /\ conn' \in [DOMAIN conn -> R]
    BY <2>1, <2>2, <2>3
  <2>6. \A z \in DOMAIN conn : conn'[z] = IF z = id THEN r ELSE conn[z]
    BY <2>1, <2>3
  <2> QED
    BY <2>2, <2>4, <2>5, <2>6 DEF R
<1>7. /\ ConnInv' /\ DOMAIN channels' = Loops /\ DOMAIN interest' = Loops
      /\ \A m \in Loops : Matches(m)'
      /\ Keeps /\ Connected' = Connected
  <2>1. next_id' \in Nat /\ next_id' >= next_id
    BY <1>2 DEF WatchInv, ConnInv
  <2> QED
    BY <1>2, <1>6, <2>1, SameConnections DEF WatchInv
<1>8. \A m : Others(m)
  BY <1>6 DEF Others
<1> HIDE DEF l, f
<1>9. /\ pool' \in [Loops -> Seq(Functors)]
      /\ \A m \in Loops \ {l} : pool'[m] = pool[m]
      /\ pool'[l] = Append(pool[l], f)
  <2>1. pool' = [pool EXCEPT ![l] = Append(pool[l], f)]
    BY <1>3 DEF Queue, l, f
  <2> QED
    BY <1>1, <1>5, <2>1, AppendProperties
<1>10. \A z \in Connected : z # id => conn[z].fd # conn[id].fd
  BY <1>5 DEF WatchInv, ConnInv, Connected
<1>11. ASSUME NEW m \in Workers PROVE WorkerInv(m)'
  <2>1. CASE m # l
    BY <1>1, <1>7, <1>8, <1>9, <2>1, WorkerSame DEF WatchInv
  <2>2. CASE m = l
    <3>1. \A i \in 1 .. Len(pool[m]) :
             pool[m][i].what = "Established" => conn[pool[m][i].id].fd # conn'[f.id].fd
      <4>1. ASSUME NEW i \in 1 .. Len(pool[m]), pool[m][i].what = "Established"
            PROVE  pool[m][i].id \in DOMAIN conn /\ conn[pool[m][i].id].stage = "new"
        BY <4>1 DEF WatchInv, WorkerInv
      <4>2. ASSUME NEW i \in 1 .. Len(pool[m]), pool[m][i].what = "Established"
            PROVE  conn[pool[m][i].id].fd # conn[id].fd
        BY <1>5, <4>1, <4>2 DEF WatchInv, ConnInv
      <4> QED
        BY <1>4, <1>5, <1>6, <4>2
    <3>2. f.id \in DOMAIN conn' /\ conn'[f.id].loop = m /\ conn'[f.id].stage # "new"
      BY <1>4, <1>5, <1>6, <2>2 DEF l
    <3>3. \A z \in Connected' : conn'[z].loop = m /\ z # f.id => conn'[z].fd # conn'[f.id].fd
      BY <1>4, <1>5, <1>6, <1>7, <1>10 DEF Connected
    <3>4. pool[m] \in Seq(Functors) /\ pool'[m] = Append(pool[m], f)
      BY <1>1, <1>9, <2>2
    <3>5. ConnInv /\ WorkerInv(m)
      BY DEF WatchInv
    <3> QED
      BY <1>4, <1>5, <1>7, <1>8, <3>1, <3>2, <3>3, <3>4, <3>5, WorkerAppend
  <2> QED
    BY <2>1, <2>2
<1>12. BaseInv'
  <2>1. ASSUME NEW i \in 1 .. Len(pool'[Base])
        PROVE  \/ i \in 1 .. Len(pool[Base]) /\ pool'[Base][i] = pool[Base][i]
               \/ /\ pool'[Base][i].what = "Release" /\ pool'[Base][i].id \in Connected'
                  /\ conn'[pool'[Base][i].id].loop = Base /\ pc # "tasks"
    <3>1. CASE l # Base
      BY <1>1, <1>9, <3>1
    <3>2. CASE l = Base
      <4>1. (i \in 1 .. Len(pool[Base]) /\ pool'[Base][i] = pool[Base][i]) \/ pool'[Base][i] = f
        BY <1>1, <1>5, <1>9, <3>2, AppendIndex
      <4>2. f.id \in Connected' /\ conn'[f.id].loop = Base /\ pc # "tasks"
        BY <1>3, <1>4, <1>5, <1>6, <1>7, <3>2 DEF l
      <4> QED
        BY <1>4, <4>1, <4>2
    <3> QED
      BY <3>1, <3>2
  <2>2. Connected \subseteq DOMAIN conn
    BY DEF Connected
  <2> QED
    BY <1>2, <1>7, <1>8, <2>1, <2>2, BaseQueued DEF WatchInv
<1> QED
  BY <1>2, <1>6, <1>7, <1>9, <1>11, <1>12 DEF WatchInv

\* A task of the base loop, where nobody has asked for Shutdown.
LEMMA BaseTaskStep ==
  ASSUME WatchInv, BaseTask
  PROVE  WatchInv'
<1> DEFINE f == Head(batch)
<1>1. /\ Base \in Loops /\ Base \notin Workers /\ Loops = {Base} \union Workers
      /\ pool \in [Loops -> Seq(Functors)] /\ Connected \subseteq DOMAIN conn
  BY DEF Base, Loops, Workers, WatchInv, Connected
<1>2. /\ UNCHANGED <<count, next_idx, pc>> /\ pc = "tasks" /\ batch # <<>> /\ batch' = Tail(batch)
  BY DEF BaseTask, PoolVars
<1>3. batch \in Seq(Functors) /\ batch' \in Seq(Functors) /\ f \in Functors
      /\ f = batch[1] /\ 1 \in 1 .. Len(batch)
  <2>1. batch \in Seq(Functors)
    BY DEF WatchInv
  <2>2. Len(batch) \in Nat \ {0}
    BY <1>2, <2>1, EmptySeq
  <2>3. 1 \in 1 .. Len(batch)
    BY <2>2
  <2> QED
    BY <1>2, <2>1, <2>3, HeadTailProperties
<1>4. f.what \in {"Remove", "RunAfter", "Release"}
  BY <1>3 DEF WatchInv, BaseInv
<1>5. Loops' = Loops /\ Workers' = Workers
  BY <1>2, SameLoops
<1> HIDE DEF f
<1>6. CASE f.what # "Release"
  <2>1. /\ UNCHANGED <<pool, channels, interest, conn>>
        /\ next_id' \in {next_id, next_id + 1}
    BY <1>4, <1>6 DEF BaseTask, RunAfterInLoop, f
  <2>2. next_id' \in Nat /\ next_id' >= next_id
    BY <2>1 DEF WatchInv, ConnInv
  <2>3. /\ ConnInv' /\ \A m \in Loops : Matches(m)'
        /\ Keeps /\ Connected' = Connected
    BY <1>2, <2>1, <2>2, SameConnections DEF WatchInv, ConnInv
  <2>4. \A m : Others(m)
    BY <2>1 DEF Others
  <2>5. ASSUME NEW m \in Workers PROVE WorkerInv(m)'
    BY <2>1, <2>3, <2>4, WorkerSame DEF WatchInv
  <2>6. BaseInv'
    BY <1>1, <1>2, <1>3, <2>1, <2>3, BatchTail DEF WatchInv
  <2> QED
    BY <1>2, <1>3, <1>5, <2>1, <2>3, <2>5, <2>6 DEF WatchInv
<1>7. CASE f.what = "Release"
  <2>0. PICK id : id = f.id
    OBVIOUS
  <2>1. /\ Unmonitored(Base, id) /\ UNCHANGED <<pool, next_id>>
    BY <1>7, <2>0 DEF BaseTask, ReleaseInLoop, RemoveConnection, f
  <2>2. /\ id \in DOMAIN conn /\ conn[id].loop = Base /\ conn[id].stage # "new"
        /\ \A z \in Connected : conn[z].loop = Base /\ z # id => conn[z].fd # conn[id].fd
    BY <1>3, <1>7, <2>0 DEF WatchInv, BaseInv
  <2>3. /\ ConnInv' /\ DOMAIN channels' = Loops /\ DOMAIN interest' = Loops
        /\ \A m \in Loops : Matches(m)'
        /\ Keeps /\ DOMAIN conn' = DOMAIN conn
        /\ Connected' = Connected \ {id}
        /\ \A z \in DOMAIN conn : z # id => conn'[z] = conn[z]
        /\ conn'[id].stage = "released"
    <3>1. ConnInv /\ (\A m \in Loops : Matches(m)) /\ DOMAIN channels = Loops /\ DOMAIN interest = Loops
      BY DEF WatchInv
    <3>2. UNCHANGED <<count, next_id>>
      BY <1>2, <2>1
    <3>3. Base \in Loops /\ id \in DOMAIN conn /\ Unmonitored(Base, id) /\ conn[id].loop = Base
      BY <1>1, <2>1, <2>2
    <3>4. \A z \in Connected : conn[z].loop = Base /\ z # id => conn[z].fd # conn[id].fd
      BY <2>2
    <3> QED
      BY <3>1, <3>2, <3>3, <3>4, UnmonitoredStep
  <2>4. ASSUME NEW m \in Workers PROVE WorkerInv(m)'
    <3>1. Others(m)
      BY <1>1, <2>2, <2>3 DEF Others, Keeps
    <3> QED
      BY <2>1, <2>3, <3>1, WorkerSame DEF WatchInv
  <2>5. BaseInv'
    <3>1. \A z \in DOMAIN conn : conn[z].stage # "new" => conn'[z].stage # "new"
      BY <2>3
    <3> QED
      BY <1>1, <1>2, <1>3, <2>1, <2>3, <3>1, BatchTail DEF WatchInv
  <2> QED
    BY <1>2, <1>3, <1>5, <2>1, <2>3, <2>4, <2>5 DEF WatchInv
<1> QED
  BY <1>6, <1>7

\* What the base loop hands to the next loop.
LEMMA NextLoopIsOne ==
  ASSUME count \in Nat, next_idx \in Int
  PROVE  NextLoop \in Loops
  BY DEF NextLoop, NextIdx, Loops, Workers, Base

\* A connection is on its way to a worker.
LEMMA NewStep ==
  ASSUME ConnInv, \A m \in Loops : Matches(m), DOMAIN channels = Loops, DOMAIN interest = Loops,
         UNCHANGED <<count, channels, interest>>, next_id' = next_id + 1,
         NEW l \in Loops, NEW fd \in Fds \ Opened,
         conn' = With(conn, next_id', [fd |-> fd, loop |-> l, stage |-> "new", releases |-> 0])
  PROVE  /\ ConnInv' /\ DOMAIN channels' = Loops /\ DOMAIN interest' = Loops
         /\ \A m \in Loops : Matches(m)'
         /\ Keeps /\ Connected' = Connected /\ \A m : Others(m)
         /\ next_id' \in DOMAIN conn' \ DOMAIN conn
         /\ conn'[next_id'].fd = fd /\ conn'[next_id'].loop = l /\ conn'[next_id'].stage = "new"
<1> DEFINE rec == [fd |-> fd, loop |-> l, stage |-> "new", releases |-> 0]
           R == [fd : Fds, loop : Loops, stage : {"new", "connected", "released"}, releases : Nat]
<1>1. rec \in R /\ rec.fd = fd /\ rec.loop = l /\ rec.stage = "new"
  OBVIOUS
<1>2. /\ DOMAIN conn' = DOMAIN conn \union {next_id'}
      /\ \A z \in DOMAIN conn' : conn'[z] = IF z = next_id' THEN rec ELSE conn[z]
      /\ conn' = [z \in DOMAIN conn \union {next_id'} |-> IF z = next_id' THEN rec ELSE conn[z]]
  BY DEF With
<1> HIDE DEF rec
<1>3. /\ next_id' \in Nat /\ next_id' \notin DOMAIN conn
      /\ DOMAIN conn' \subseteq 1 .. next_id'
  BY <1>2 DEF ConnInv
<1>4. Loops' = Loops
  BY SameLoops
<1>5. Keeps /\ Connected' = Connected /\ \A m : Others(m)
  <2>1. \A z \in DOMAIN conn : conn'[z] = conn[z] /\ z # next_id'
    BY <1>2, <1>3
  <2> QED
    BY <1>1, <1>2, <1>3, <2>1 DEF Keeps, Connected, Others
<1>6. ConnInv'
  <2>1. conn' \in [DOMAIN conn' -> R]
    <3>1. conn \in [DOMAIN conn -> R]
      BY DEF ConnInv
    <3> HIDE DEF R
    <3> QED
      BY <1>1, <1>2, <3>1
  <2>2. ASSUME NEW x \in DOMAIN conn, conn[x].stage # "released" PROVE conn[x].fd # fd
    BY <2>2 DEF Opened
  <2>3. ASSUME NEW x \in DOMAIN conn', NEW y \in DOMAIN conn', x # y,
               conn'[x].stage # "released", conn'[y].stage # "released"
        PROVE  conn'[x].fd # conn'[y].fd
    <3>1. CASE x \in DOMAIN conn /\ y \in DOMAIN conn
      BY <1>2, <1>3, <2>3, <3>1 DEF ConnInv
    <3>2. CASE x = next_id' \/ y = next_id'
      BY <1>1, <1>2, <1>3, <2>2, <2>3, <3>2
    <3> QED
      BY <1>2, <3>1, <3>2
  <2> QED
    BY <1>3, <1>4, <2>1, <2>3 DEF ConnInv
<1>7. ASSUME NEW m \in Loops PROVE Matches(m)'
  <2>1. \A z \in Connected : z \in DOMAIN conn /\ conn'[z] = conn[z]
    BY <1>2, <1>3 DEF Connected
  <2> QED
    BY <1>5, <2>1 DEF Matches
<1> QED
  BY <1>1, <1>2, <1>3, <1>5, <1>6, <1>7

\* accept: the descriptor is one that is free, whatever loop had it last.
LEMMA AcceptStep ==
  ASSUME WatchInv, Accept
  PROVE  WatchInv'
<1>1. /\ Base \in Loops /\ Base \notin Workers /\ Loops = {Base} \union Workers
      /\ pool \in [Loops -> Seq(Functors)] /\ Connected \subseteq DOMAIN conn
      /\ count \in Nat /\ next_idx \in Nat /\ next_id \in Nat /\ batch \in Seq(Functors)
      /\ ConnInv /\ (\A m \in Loops : Matches(m)) /\ DOMAIN channels = Loops /\ DOMAIN interest = Loops
  BY DEF Base, Loops, Workers, WatchInv, Connected, ConnInv
<1>2. UNCHANGED <<count, batch>> /\ pc \notin {"tasks"} /\ pc' \notin {"tasks"}
  BY DEF Accept, PoolVars
<1>3. Loops' = Loops /\ Workers' = Workers
  BY <1>2, SameLoops
<1>4. CASE UNCHANGED <<pool, channels, interest, conn, next_id, next_idx>>
  BY <1>2, <1>4, QuietStep DEF WatchInv, BaseInv
<1>5. CASE Fds \ Opened # {} /\ NewConnection(Min(Fds \ Opened))
  <2>1. PICK fd \in Fds \ Opened : NewConnection(fd)
    <3>1. Fds \ Opened \in SUBSET Nat
      BY ServerAssumption DEF ServerAssumption
    <3>2. Min(Fds \ Opened) \in Fds \ Opened
      BY <1>5, <3>1, SmallestExists DEF Min
    <3> QED
      BY <1>5, <3>2
  <2>2. PICK l \in Loops : l = NextLoop
    BY <1>1, NextLoopIsOne
  <2>3. next_idx' \in Nat
    BY <1>1, <2>1 DEF NewConnection, NextIdx
  <2>4. next_id' = next_id + 1
    BY <2>1 DEF NewConnection
  <2>5. PICK id \in 1 .. next_id' : id = next_id'
    BY <1>1, <2>4
  <2>6. id \in Nat /\ id \notin DOMAIN conn /\ next_id' \in Nat /\ next_id' >= next_id
    BY <1>1, <2>4, <2>5 DEF ConnInv
  <2>7. CASE l = Base
    <3>1. Established(Base, id, fd) /\ UNCHANGED pool
      BY <2>1, <2>2, <2>5, <2>7 DEF NewConnection
    <3>2. \A z \in DOMAIN conn \ {id} : conn[z].stage # "released" => conn[z].fd # fd
      BY DEF Opened
    <3>3. /\ ConnInv' /\ DOMAIN channels' = Loops /\ DOMAIN interest' = Loops
          /\ \A m \in Loops : Matches(m)'
          /\ Keeps
          /\ Connected' = Connected \union {id}
          /\ \A z \in DOMAIN conn' : z # id => z \in DOMAIN conn /\ conn'[z] = conn[z]
          /\ conn'[id].fd = fd /\ conn'[id].loop = Base
      BY <1>1, <1>2, <2>6, <3>1, <3>2, EstablishedStep
    <3>4. ASSUME NEW m \in Workers PROVE WorkerInv(m)'
      <4>1. Others(m)
        BY <1>1, <3>3 DEF Others
      <4> QED
        BY <1>1, <3>1, <3>3, <4>1, WorkerSame DEF WatchInv
    <3>5. BaseInv'
      <4>1. batch = <<>> /\ batch' = <<>>
        BY <1>2 DEF WatchInv, BaseInv
      <4>2. ASSUME NEW i \in 1 .. Len(pool[Base])
            PROVE  /\ pool[Base][i].what \in {"Release", "Remove", "RunAfter"}
                   /\ pool[Base][i].what = "Release"
                        => pool[Base][i].id \in Connected' /\ conn'[pool[Base][i].id].loop = Base
        <5>1. /\ pool[Base][i].what \in {"Release", "Remove", "RunAfter"}
              /\ pool[Base][i].what = "Release"
                   => pool[Base][i].id \in Connected /\ conn[pool[Base][i].id].loop = Base
          BY DEF WatchInv, BaseInv
        <5> QED
          BY <1>1, <3>3, <5>1 DEF Keeps
      <4> QED
        BY <1>2, <3>1, <4>1, <4>2 DEF BaseInv
    <3> QED
      BY <1>1, <1>2, <1>3, <2>3, <3>1, <3>3, <3>4, <3>5 DEF WatchInv
  <2>8. CASE l # Base
    <3> DEFINE f == Functor("Established", id)
    <3>1. /\ conn' = With(conn, next_id', [fd |-> fd, loop |-> l, stage |-> "new", releases |-> 0])
          /\ pool' = [pool EXCEPT ![l] = Append(pool[l], f)]
          /\ UNCHANGED <<channels, interest>>
      BY <2>1, <2>2, <2>5, <2>8 DEF NewConnection, Queue
    <3>2. f \in Functors /\ f.what = "Established" /\ f.id = id
      BY <2>6 DEF Functor, Functors
    <3> HIDE DEF f
    <3>3. /\ ConnInv' /\ DOMAIN channels' = Loops /\ DOMAIN interest' = Loops
          /\ \A m \in Loops : Matches(m)'
          /\ Keeps /\ Connected' = Connected /\ \A m : Others(m)
          /\ id \in DOMAIN conn' \ DOMAIN conn
          /\ conn'[id].fd = fd /\ conn'[id].loop = l /\ conn'[id].stage = "new"
      <4>1. UNCHANGED <<count, channels, interest>>
        BY <1>2, <3>1
      <4> QED
        BY <1>1, <2>4, <2>5, <3>1, <4>1, NewStep
    <3>4. /\ pool' \in [Loops -> Seq(Functors)]
          /\ \A m \in Loops \ {l} : pool'[m] = pool[m]
          /\ pool'[l] = Append(pool[l], f)
      BY <1>1, <3>1, <3>2, AppendProperties
    <3>5. ASSUME NEW m \in Workers PROVE WorkerInv(m)'
      <4>1. CASE m # l
        BY <1>1, <3>3, <3>4, <4>1, WorkerSame DEF WatchInv
      <4>2. CASE m = l
        <5>1. ASSUME NEW i \in 1 .. Len(pool[m]), pool[m][i].what = "Established"
              PROVE  conn[pool[m][i].id].fd # conn'[f.id].fd
          <6>1. pool[m][i].id \in DOMAIN conn /\ conn[pool[m][i].id].stage = "new"
            BY <5>1 DEF WatchInv, WorkerInv
          <6>2. conn[pool[m][i].id].fd \in Opened
            BY <6>1 DEF Opened
          <6> QED
            BY <3>2, <3>3, <6>2
        <5>2. pool[m] \in Seq(Functors) /\ pool'[m] = Append(pool[m], f)
          BY <1>1, <3>4, <4>2
        <5>3. ConnInv /\ WorkerInv(m)
          BY <1>1 DEF WatchInv
        <5>4. f.id \in DOMAIN conn' /\ conn'[f.id].loop = m /\ conn'[f.id].stage = "new"
          BY <3>2, <3>3, <4>2
        <5> QED
          BY <3>2, <3>3, <5>1, <5>2, <5>3, <5>4, WorkerAppend
      <4> QED
        BY <4>1, <4>2
    <3>6. BaseInv'
      <4>1. pool'[Base] = pool[Base]
        BY <1>1, <2>8, <3>4
      <4> QED
        BY <1>1, <1>2, <3>3, <4>1, BaseQueued DEF WatchInv
    <3> QED
      BY <1>1, <1>2, <1>3, <2>3, <3>3, <3>4, <3>5, <3>6 DEF WatchInv
  <2> QED
    BY <2>7, <2>8
<1> QED
  BY <1>4, <1>5 DEF Accept, NewConnection

\* A task of a worker, where nobody has asked for Shutdown.
LEMMA WorkerTaskStep ==
  ASSUME WatchInv, NEW l \in Workers, WorkerTask(l)
  PROVE  WatchInv'
<1>1. /\ Base \in Loops /\ Base \notin Workers /\ Loops = {Base} \union Workers /\ l \in Loops /\ l # Base
      /\ pool \in [Loops -> Seq(Functors)] /\ Connected \subseteq DOMAIN conn
      /\ next_id \in Nat /\ batch \in Seq(Functors)
      /\ ConnInv /\ (\A m \in Loops : Matches(m)) /\ DOMAIN channels = Loops /\ DOMAIN interest = Loops
  BY DEF Base, Loops, Workers, WatchInv, Connected, ConnInv
<1>2. UNCHANGED <<count, next_idx, pc, batch, next_id>> /\ pool[l] # <<>>
  BY DEF WorkerTask, PoolVars
<1>3. Loops' = Loops /\ Workers' = Workers
  BY <1>2, SameLoops
<1>4. PICK f : f = Head(pool[l])
  OBVIOUS
<1>5. /\ pool[l] \in Seq(Functors) /\ Tail(pool[l]) \in Seq(Functors) /\ f \in Functors
      /\ f = pool[l][1] /\ 1 \in 1 .. Len(pool[l])
  <2>1. pool[l] \in Seq(Functors)
    BY <1>1
  <2>2. Len(pool[l]) \in Nat \ {0}
    BY <1>2, <2>1, EmptySeq
  <2>3. 1 \in 1 .. Len(pool[l])
    BY <2>2
  <2> QED
    BY <1>2, <1>4, <2>1, <2>3, HeadTailProperties
<1>6. PICK id : id = f.id
  OBVIOUS
<1>7. /\ id \in DOMAIN conn /\ conn[id].loop = l
      /\ \/ f.what = "Established" /\ conn[id].stage = "new"
         \/ f.what = "Release" /\ conn[id].stage # "new"
  BY <1>5, <1>6 DEF WatchInv, WorkerInv
<1>8. CASE f.what = "Established"
  <2>1. /\ Established(l, id, conn[id].fd)
        /\ pool' = [pool EXCEPT ![l] = Tail(pool[l])]
    BY <1>4, <1>6, <1>8 DEF WorkerTask
  <2>2. PICK fd : fd = conn[id].fd
    OBVIOUS
  <2>3. conn[id].stage = "new" /\ id \in 1 .. next_id' /\ fd \in Fds
    BY <1>1, <1>2, <1>7, <1>8, <2>2 DEF ConnInv
  <2>4. \A z \in DOMAIN conn \ {id} : conn[z].stage # "released" => conn[z].fd # fd
    BY <1>1, <1>7, <2>2, <2>3 DEF ConnInv
  <2>5. /\ ConnInv' /\ DOMAIN channels' = Loops /\ DOMAIN interest' = Loops
        /\ \A m \in Loops : Matches(m)'
        /\ Keeps
        /\ Connected' = Connected \union {id}
        /\ \A z \in DOMAIN conn' : z # id => z \in DOMAIN conn /\ conn'[z] = conn[z]
        /\ conn'[id].fd = fd /\ conn'[id].loop = l
    <3>1. Established(l, id, fd) /\ next_id' \in Nat /\ next_id' >= next_id /\ count' = count
      BY <1>1, <1>2, <2>1, <2>2
    <3>2. l \in Loops /\ ConnInv /\ (\A m \in Loops : Matches(m)) /\ DOMAIN channels = Loops
          /\ DOMAIN interest = Loops
      BY <1>1
    <3>3. conn[id].fd = fd /\ conn[id].loop = l /\ conn[id].stage = "new"
      BY <1>7, <2>2, <2>3
    <3> QED
      BY <2>3, <2>4, <3>1, <3>2, <3>3, EstablishedStep
  <2>6. DOMAIN conn' = DOMAIN conn /\ conn'[id].stage = "connected"
    <3>1. DOMAIN conn' \subseteq DOMAIN conn
      BY <1>7, <2>5
    <3> QED
      BY <2>5, <3>1 DEF Keeps, Connected
  <2>7. /\ pool' \in [Loops -> Seq(Functors)] /\ pool'[l] = Tail(pool[l])
        /\ \A m \in Loops \ {l} : pool'[m] = pool[m]
    BY <1>1, <1>5, <2>1
  <2>8. \A m : m # l => Others(m)
    BY <2>5, <2>6 DEF Others
  <2>9. ASSUME NEW m \in Workers PROVE WorkerInv(m)'
    <3>1. CASE m # l
      BY <1>1, <2>5, <2>7, <2>8, <3>1, WorkerSame DEF WatchInv
    <3>2. CASE m = l
      <4>1. \A z \in DOMAIN conn : z # f.id => conn'[z].stage = conn[z].stage
        BY <1>6, <2>5, <2>6
      <4>2. WorkerInv(l) /\ f.what = "Established" /\ conn'[f.id].stage = "connected"
        BY <1>6, <1>8, <2>6 DEF WatchInv
      <4> QED
        BY <1>1, <1>2, <1>4, <1>5, <2>5, <2>6, <2>7, <3>2, <4>1, <4>2, WorkerTail
    <3> QED
      BY <3>1, <3>2
  <2>10. BaseInv'
    <3>1. pool'[Base] = pool[Base] /\ Others(Base)
      BY <1>1, <2>7, <2>8
    <3> QED
      BY <1>1, <1>2, <2>5, <3>1, BaseQueued DEF WatchInv
  <2> QED
    BY <1>1, <1>2, <1>3, <2>5, <2>7, <2>9, <2>10 DEF WatchInv
<1>9. CASE f.what = "Release"
  <2> DEFINE r == Functor("Remove", id)
  <2>1. /\ Unmonitored(l, id)
        /\ pool' = [pool EXCEPT ![l] = Tail(pool[l]), ![Base] = Append(pool[Base], r)]
    BY <1>1, <1>4, <1>6, <1>9 DEF WorkerTask, ReleaseInLoop, RemoveConnection
  <2>2. r.what = "Remove" /\ r \in Functors
    <3>1. id \in Nat
      BY <1>5, <1>6 DEF Functors
    <3> QED
      BY <3>1 DEF Functor, Functors
  <2> HIDE DEF r
  <2>3. \A z \in Connected : conn[z].loop = l /\ z # id => conn[z].fd # conn[id].fd
    BY <1>5, <1>6, <1>9 DEF WatchInv, WorkerInv
  <2>4. /\ ConnInv' /\ DOMAIN channels' = Loops /\ DOMAIN interest' = Loops
        /\ \A m \in Loops : Matches(m)'
        /\ Keeps /\ DOMAIN conn' = DOMAIN conn
        /\ Connected' = Connected \ {id}
        /\ \A z \in DOMAIN conn : z # id => conn'[z] = conn[z]
        /\ conn'[id].stage = "released"
    <3>1. ConnInv /\ (\A m \in Loops : Matches(m)) /\ DOMAIN channels = Loops /\ DOMAIN interest = Loops
      BY <1>1
    <3>2. UNCHANGED <<count, next_id>>
      BY <1>2
    <3>3. l \in Loops /\ id \in DOMAIN conn /\ Unmonitored(l, id) /\ conn[id].loop = l
      BY <1>1, <1>7, <2>1
    <3> QED
      BY <2>3, <3>1, <3>2, <3>3, UnmonitoredStep
  <2>5. /\ pool' \in [Loops -> Seq(Functors)] /\ pool'[l] = Tail(pool[l])
        /\ \A m \in Workers \ {l} : pool'[m] = pool[m]
        /\ pool'[Base] = Append(pool[Base], r)
    <3>1. Append(pool[Base], r) \in Seq(Functors)
      BY <1>1, <2>2, AppendProperties
    <3> QED
      BY <1>1, <1>5, <2>1, <3>1
  <2>6. \A m : m # l => Others(m)
    <3>1. conn'[id].loop = l
      BY <1>7, <2>4 DEF Keeps
    <3> QED
      BY <2>4, <3>1 DEF Others
  <2>7. ASSUME NEW m \in Workers PROVE WorkerInv(m)'
    <3>1. CASE m # l
      BY <1>1, <2>4, <2>5, <2>6, <3>1, WorkerSame DEF WatchInv
    <3>2. CASE m = l
      <4>1. \A z \in DOMAIN conn : z # f.id => conn'[z].stage = conn[z].stage
        BY <1>6, <2>4
      <4>2. WorkerInv(l) /\ f.what = "Release" /\ conn'[f.id].stage = "released"
        BY <1>6, <1>9, <2>4 DEF WatchInv
      <4> QED
        BY <1>1, <1>2, <1>4, <1>5, <2>4, <2>5, <3>2, <4>1, <4>2, WorkerTail
    <3> QED
      BY <3>1, <3>2
  <2>8. BaseInv'
    <3>1. ASSUME NEW i \in 1 .. Len(pool'[Base])
          PROVE  \/ i \in 1 .. Len(pool[Base]) /\ pool'[Base][i] = pool[Base][i]
                 \/ pool'[Base][i].what \in {"Remove", "RunAfter"}
      <4>1. (i \in 1 .. Len(pool[Base]) /\ pool'[Base][i] = pool[Base][i]) \/ pool'[Base][i] = r
        BY <1>1, <2>2, <2>5, AppendIndex
      <4> QED
        BY <2>2, <4>1
    <3>2. Others(Base)
      BY <1>1, <2>6
    <3> QED
      BY <1>1, <1>2, <2>4, <3>1, <3>2, BaseQueued DEF WatchInv
  <2> QED
    BY <1>1, <1>2, <1>3, <2>4, <2>5, <2>7, <2>8 DEF WatchInv
<1> QED
  BY <1>7, <1>8, <1>9

\* What holds of a server that nobody else shuts down.
LEMMA InitWatchInv == Init => WatchInv
<1> SUFFICES ASSUME Init PROVE WatchInv
  OBVIOUS
<1>1. /\ count \in Nat /\ next_idx = 0 /\ pool = [l \in Loops |-> <<>>] /\ batch = <<>>
      /\ channels = [l \in Loops |-> <<>>] /\ interest = [l \in Loops |-> {}]
      /\ conn = <<>> /\ next_id = 0
  BY ServerAssumption DEF Init, ServerAssumption
<1>2. DOMAIN conn = {} /\ Connected = {}
  BY <1>1 DEF Connected
<1>3. Workers \subseteq Loops /\ Base \in Loops
  BY DEF Loops
<1>4. ConnInv
  BY <1>1, <1>2 DEF ConnInv
<1>5. \A l \in Loops : Matches(l)
  BY <1>1, <1>2 DEF Matches
<1>6. \A l \in Loops : 1 .. Len(pool[l]) = {}
  BY <1>1
<1>7. \A l \in Workers : WorkerInv(l)
  BY <1>3, <1>6 DEF WorkerInv
<1>8. BaseInv
  BY <1>1, <1>3, <1>6 DEF BaseInv
<1>9. pool \in [Loops -> Seq(Functors)] /\ batch \in Seq(Functors)
  BY <1>1
<1> QED
  BY <1>1, <1>4, <1>5, <1>7, <1>8, <1>9 DEF WatchInv

\* Every step keeps it.
LEMMA NextWatchInv == (~strangers => WatchInv) /\ [Next]_vars => (~strangers => WatchInv)'
<1> SUFFICES ASSUME ~strangers' , ~strangers => WatchInv, [Next]_vars PROVE WatchInv'
  OBVIOUS
<1>1. ASSUME Next PROVE UNCHANGED strangers
  BY <1>1 DEF Next, BaseThread, NewThread, GetLoop, ThreadEntry, Poll, RunAllTask, Accept, Insert, BaseTask,
     EndTasks, WorkerTask, Release, Shutdown, RunAfter, Connect, Abort, ServerVars, PoolVars
<1>2. CASE UNCHANGED vars
  <2>1. WatchInv /\ UNCHANGED <<count, next_idx, pool, batch, channels, interest, conn, next_id, pc>>
    BY <1>2 DEF vars
  <2> QED
    BY <2>1, QuietStep DEF WatchInv, BaseInv
<1>3. CASE Next
  <2>1. WatchInv /\ ~Shutdown
    BY <1>1, <1>3 DEF Shutdown
  <2> QED
    BY <1>3, <2>1, QuietSteps, RunAllTaskStep, AcceptStep, BaseTaskStep, WorkerTaskStep, ReleaseStep,
       RunAfterStep DEF Next, BaseThread
<1> QED
  BY <1>2, <1>3

\* As long as a connection is shut down in its own loop only, its poller has its channel
\* under its descriptor and no other (408-440), however many loops there are, however
\* they come to run, and whichever connection had the descriptor before.
THEOREM ChannelsAlwaysMatch == Spec => []ChannelsMatch
<1>1. (~strangers => WatchInv) => ChannelsMatch
  <2> SUFFICES ASSUME WatchInv, NEW l \in Loops
               PROVE  /\ interest[l] = DOMAIN channels[l]
                      /\ {<<fd, channels[l][fd]>> : fd \in DOMAIN channels[l]} =
                            {<<conn[id].fd, id>> : id \in {i \in Connected : conn[i].loop = l}}
    BY DEF ChannelsMatch
  <2>1. Matches(l)
    BY DEF WatchInv
  <2>2. ASSUME NEW fd \in DOMAIN channels[l]
        PROVE  \E id \in {i \in Connected : conn[i].loop = l} : <<fd, channels[l][fd]>> = <<conn[id].fd, id>>
    BY <2>1 DEF Matches
  <2>3. ASSUME NEW id \in {i \in Connected : conn[i].loop = l}
        PROVE  \E fd \in DOMAIN channels[l] : <<conn[id].fd, id>> = <<fd, channels[l][fd]>>
    BY <2>1 DEF Matches
  <2> QED
    BY <2>1, <2>2, <2>3 DEF Matches
<1> QED
  BY <1>1, InitWatchInv, NextWatchInv, PTL DEF Spec
=============================================================================
