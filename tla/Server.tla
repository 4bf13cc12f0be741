------------------------------- MODULE Server -------------------------------
(***************************************************************************)
(* TcpServer, Acceptor, LoopThread, LoopThreadPool and the pollers of      *)
(* source/server.hpp: how connections are accepted by the base loop,       *)
(* handed to worker loops, released there and forgotten by the server.     *)
(* A loop runs its functors one after another in the order in which they   *)
(* were queued, as TaskPool states and EventLoop shows.  Of a connection   *)
(* the model keeps its descriptor, its loop and how far its life has come. *)
(***************************************************************************)
EXTENDS Integers, Sequences, FiniteSetsExt, Functions

CONSTANTS ThreadCounts, \* arguments of SetThreadCount
          Fds,          \* descriptors there are for connections
          IntMax,       \* the largest int (2^31 - 1)
          MaxReleases,  \* bound: calls of Release and Shutdown
          MaxTimers,    \* bound: calls of RunAfter
          MaxClients    \* bound: clients that connect

ASSUME ServerAssumption ==
    /\ ThreadCounts \subseteq Nat /\ Fds \subseteq Nat
    /\ {IntMax, MaxReleases, MaxTimers, MaxClients} \subseteq Nat

VARIABLES
  strangers, \* do other threads call Shutdown? (no thread of the HTTP server does)
  count,     \* _thread_count
  next_idx,  \* _next_idx
  loop,      \* LoopThread::_loop: is it published?
  notified,  \* the notifications a waiting GetLoop has got
  threads,   \* threads created
  pc,        \* where the base thread is
  pool,      \* the task pools, base loop 0 first
  batch,     \* functors the base loop has swapped out
  channels,  \* _channels of the pollers: from descriptors to connections
  interest,  \* the descriptors epoll watches for them
  conn,      \* the connections made
  conns,     \* _conns, by key
  next_id,   \* _next_id
  timers,    \* history: the ids RunAfter has given to timers
  backlog,   \* connections the kernel has for accept
  clients    \* connections there have been

vars == <<strangers, count, next_idx, loop, notified, threads, pc, pool, batch, channels, interest, conn,
          conns, next_id, timers, backlog, clients>>

Base == 0
Workers == 1 .. count
Loops == {Base} \union Workers
Functor(what, id) == [what |-> what, id |-> id]

Queue(l, f) == [pool EXCEPT ![l] = Append(@, f)]

ServerVars == <<strangers, count, pool, batch, channels, interest, conn, conns, next_id, next_idx, timers>>
PoolVars == <<strangers, count, loop, notified, threads>>

-----------------------------------------------------------------------------
(* LoopThread and LoopThreadPool.                                          *)

\* TcpServer::Start and LoopThreadPool::Create, which makes the threads one by one.
NewThread ==
    /\ pc = "create"
    /\ IF threads < count
       THEN threads' = threads + 1 /\ pc' = "getloop"
       ELSE UNCHANGED threads /\ pc' = "poll"
    /\ UNCHANGED <<ServerVars, loop, notified, backlog, clients>>

\* ThreadEntry: the thread has its loop, publishes it and wakes the waiter.
ThreadEntry ==
    \E t \in 1 .. threads :
       /\ ~loop[t]
       /\ loop' = [loop EXCEPT ![t] = TRUE]
       /\ notified' = (notified \/ pc = "waiting")
       /\ UNCHANGED <<ServerVars, threads, pc, backlog, clients>>

\* A faulty variant: waits without looking at what it waits for.
GetLoop_NoPredicate ==
    /\ \/ pc = "getloop" /\ pc' = "waiting" /\ UNCHANGED notified
       \/ pc = "waiting" /\ notified /\ pc' = "create" /\ notified' = FALSE
    /\ UNCHANGED <<ServerVars, loop, threads, backlog, clients>>

\* A faulty variant: takes the loop as it is.
GetLoop_NoWait ==
    /\ pc = "getloop" /\ pc' = "create"
    /\ UNCHANGED <<ServerVars, loop, notified, threads, backlog, clients>>

\* wait tests the predicate under the mutex, before it waits and after.
GetLoop ==
    /\ \/ /\ pc \in {"getloop", "waiting"} /\ loop[threads]
          /\ pc = "waiting" => notified
          /\ pc' = "create" /\ notified' = FALSE
       \/ /\ pc = "getloop" /\ ~loop[threads]
          /\ pc' = "waiting" /\ UNCHANGED notified
    /\ UNCHANGED <<ServerVars, loop, threads, backlog, clients>>

NextIdx == IF count = 0 THEN 0 ELSE (next_idx + 1) % count

\* Loop i of _loops is worker i + 1.
NextLoop == IF count = 0 THEN Base ELSE NextIdx + 1

-----------------------------------------------------------------------------
(* What the functors do.                                                   *)

Connected == {id \in DOMAIN conn : conn[id].stage = "connected"}

\* The numbers in use.
Opened == {conn[id].fd : id \in {i \in DOMAIN conn : conn[i].stage # "released"}}

\* The table f with the entry e under k.
With(f, k, e) == [x \in DOMAIN f \union {k} |-> IF x = k THEN e ELSE f[x]]

\* UpdateEvent adds the descriptor, or modifies it if there is a channel under its
\* number; epoll refuses a closed one.
UpdateEvent(l, id, fd, open) ==
    /\ channels' = [channels EXCEPT ![l] = IF fd \in DOMAIN @ THEN @ ELSE With(@, fd, id)]
    /\ interest' = [interest EXCEPT ![l] =
                       IF fd \in open \ DOMAIN channels[l] THEN @ \union {fd} ELSE @]

\* EstablishedInLoop, of which the poller sees EnableRead.
Established(l, id, fd) ==
    /\ conn' = With(conn, id, [fd |-> fd, loop |-> l, stage |-> "connected", releases |-> 0])
    /\ UpdateEvent(l, id, fd, Opened \union {fd})

\* int Id() of an unsigned number.
Id(id) ==
    LET n == id % (2 * (IntMax + 1)) IN IF n > IntMax THEN n - 2 * (IntMax + 1) ELSE n

RemoveConnectionInLoop(id) == conns \ {Id(id)}

\* RemoveEvent goes by the number of the descriptor, whosever it is by now.
RemoveEvent(l, fd) ==
    /\ channels' = [channels EXCEPT ![l] = [d \in DOMAIN @ \ {fd} |-> @[d]]]
    /\ interest' = [interest EXCEPT ![l] = @ \ {fd}]

\* A faulty variant: the descriptor is closed and its channel left in the poller.
Unmonitored_Close(l, id) ==
    /\ channels' = channels
    /\ interest' = [interest EXCEPT ![l] = @ \ {conn[id].fd}]
    /\ conn' = [conn EXCEPT ![id].stage = "released"]

\* ReleaseInLoop up to the callbacks; Close closes the descriptor only once.
Unmonitored(l, id) ==
    /\ RemoveEvent(l, conn[id].fd)
    /\ conn' = [conn EXCEPT ![id].stage = "released"]

\* The server's closed callback; RunInLoop runs the rest inline in the base loop.
RemoveConnection(l, id) ==
    IF l = Base
    THEN conns' = RemoveConnectionInLoop(id) /\ UNCHANGED pool
    ELSE /\ pool' = [pool EXCEPT ![l] = Tail(@), ![Base] = Append(@, Functor("Remove", id))]
         /\ UNCHANGED conns

\* A faulty variant: the worker itself removes the connection from _conns.
ReleaseInLoop_Direct(l, id) ==
    /\ Unmonitored(l, id)
    /\ conns' = RemoveConnectionInLoop(id)
    /\ pool' = IF l = Base THEN pool ELSE [pool EXCEPT ![l] = Tail(@)]

ReleaseInLoop(l, id) == Unmonitored(l, id) /\ RemoveConnection(l, id)

\* ShutdownInLoop looks at no status: it releases the connection, or has output
\* to wait for.
ShutdownInLoop(l, id, queued) ==
    \/ /\ pool' = [queued EXCEPT ![l] = Append(@, Functor("Release", id))]
       /\ UNCHANGED <<channels, interest>>
    \/ /\ UpdateEvent(l, id, conn[id].fd, Opened)
       /\ pool' = queued

\* The next functor of a worker's pool.
WorkerTask(l) ==
    /\ pool[l] # <<>>
    /\ LET f == Head(pool[l])
       IN  \/ /\ f.what = "Established"
              /\ Established(l, f.id, conn[f.id].fd)
              /\ pool' = [pool EXCEPT ![l] = Tail(@)] /\ UNCHANGED conns
           \/ /\ f.what = "Release"
              /\ ReleaseInLoop(l, f.id)
           \/ /\ f.what = "Shutdown"
              /\ ShutdownInLoop(l, f.id, [pool EXCEPT ![l] = Tail(@)])
              /\ UNCHANGED <<conn, conns>>
    /\ UNCHANGED <<PoolVars, next_idx, pc, batch, next_id, timers, backlog, clients>>

\* A callback of the connection calls Release, which queues ReleaseInLoop in any
\* case.  In the base loop this falls between two waits.
Release ==
    /\ \E id \in Connected :
          /\ conn[id].loop = Base => pc = "poll"
          /\ SumFunction([i \in DOMAIN conn |-> conn[i].releases]) < MaxReleases
          /\ conn[id].fd \in interest[conn[id].loop]
          /\ conn' = [conn EXCEPT ![id].releases = @ + 1]
          /\ pool' = Queue(conn[id].loop, Functor("Release", id))
    /\ UNCHANGED <<PoolVars, next_idx, pc, batch, channels, interest, conns, next_id, timers,
                   backlog, clients>>

\* Shutdown, in a thread that is not the connection's.
Shutdown ==
    /\ strangers
    /\ \E id \in Connected :
          /\ SumFunction([i \in DOMAIN conn |-> conn[i].releases]) < MaxReleases
          /\ conn' = [conn EXCEPT ![id].releases = @ + 1]
          /\ pool' = Queue(conn[id].loop, Functor("Shutdown", id))
    /\ UNCHANGED <<PoolVars, next_idx, pc, batch, channels, interest, conns, next_id, timers,
                   backlog, clients>>

\* RunAfter, in any thread of the program: the id is drawn in the base loop.
RunAfter ==
    /\ LET waiting == SelectSeq(batch \o pool[Base], LAMBDA f : f.what = "RunAfter")
       IN  Cardinality(timers) + Len(waiting) < MaxTimers
    /\ pool' = Queue(Base, Functor("RunAfter", 0))
    /\ UNCHANGED <<PoolVars, next_idx, pc, batch, channels, interest, conn, conns, next_id, timers,
                   backlog, clients>>

-----------------------------------------------------------------------------
(* The base loop.                                                          *)

\* epoll_wait returns for the listening socket, or for the eventfd.
Poll ==
    /\ pc = "poll"
    /\ \/ backlog > 0 /\ pc' = "accept"
       \/ pool[Base] # <<>> /\ pc' = "run"
    /\ UNCHANGED <<ServerVars, loop, notified, threads, backlog, clients>>

\* RunAllTask takes the pool as it is behind the handlers.
RunAllTask ==
    /\ pc = "run" /\ pc' = "tasks"
    /\ batch' = pool[Base] /\ pool' = [pool EXCEPT ![Base] = <<>>]
    /\ UNCHANGED <<PoolVars, next_idx, channels, interest, conn, conns, next_id, timers, backlog,
                   clients>>

\* CreateServer makes the listening socket non-blocking if block_flag is set, and
\* Acceptor leaves it out.
NonBlocking == FALSE

\* NewConnection up to Established, which runs inline in the base loop.
NewConnection(fd) ==
    /\ next_id' = next_id + 1 /\ next_idx' = NextIdx
    /\ IF NextLoop = Base
       THEN Established(Base, next_id', fd) /\ UNCHANGED pool
       ELSE /\ conn' = With(conn, next_id', [fd |-> fd, loop |-> NextLoop, stage |-> "new",
                                             releases |-> 0])
            /\ pool' = Queue(NextLoop, Functor("Established", next_id'))
            /\ UNCHANGED <<channels, interest>>

\* Acceptor::HandleRead.  accept takes the smallest free descriptor, fails if there
\* is none, and with an empty backlog blocks or fails.
Accept ==
    /\ pc = "accept"
    /\ \/ /\ backlog > 0 /\ Fds \ Opened # {}
          /\ backlog' = backlog - 1
          /\ NewConnection(Min(Fds \ Opened))
          /\ pc' = "insert"
       \/ /\ IF backlog > 0 THEN Fds \ Opened = {} ELSE NonBlocking
          /\ pc' = "run"
          /\ UNCHANGED <<pool, channels, interest, conn, next_id, next_idx, backlog>>
    /\ UNCHANGED <<PoolVars, batch, conns, timers, clients>>

\* The end of NewConnection.
Insert ==
    /\ pc = "insert" /\ pc' = "run"
    /\ conns' = conns \union {next_id}
    /\ UNCHANGED <<PoolVars, next_idx, pool, batch, channels, interest, conn, next_id, timers,
                   backlog, clients>>

RunAfterInLoop == /\ next_id' = next_id + 1 /\ timers' = timers \union {next_id'}

\* The next functor of the batch.
BaseTask ==
    /\ pc = "tasks" /\ batch # <<>> /\ batch' = Tail(batch)
    /\ LET f == Head(batch)
       IN  \/ /\ f.what = "Remove"
              /\ conns' = RemoveConnectionInLoop(f.id)
              /\ UNCHANGED <<pool, channels, interest, conn, next_id, timers>>
           \/ /\ f.what = "Release"
              /\ ReleaseInLoop(Base, f.id)
              /\ UNCHANGED <<next_id, timers>>
           \/ /\ f.what = "Shutdown"
              /\ ShutdownInLoop(Base, f.id, pool)
              /\ UNCHANGED <<conn, conns, next_id, timers>>
           \/ /\ f.what = "RunAfter"
              /\ RunAfterInLoop
              /\ UNCHANGED <<pool, channels, interest, conn, conns>>
    /\ UNCHANGED <<PoolVars, next_idx, pc, backlog, clients>>

EndTasks ==
    /\ pc = "tasks" /\ batch = <<>> /\ pc' = "poll"
    /\ UNCHANGED <<ServerVars, loop, notified, threads, backlog, clients>>

-----------------------------------------------------------------------------
(* The clients.                                                            *)

Connect ==
    /\ clients < MaxClients /\ clients' = clients + 1 /\ backlog' = backlog + 1
    /\ UNCHANGED <<ServerVars, loop, notified, threads, pc>>

\* A client gives up, and the kernel drops its connection from the backlog.
Abort ==
    /\ backlog > 0 /\ backlog' = backlog - 1
    /\ UNCHANGED <<ServerVars, loop, notified, threads, pc, clients>>

Init ==
    /\ strangers \in BOOLEAN
    /\ count \in ThreadCounts
    /\ next_idx = 0 /\ loop = [t \in 1..count |-> FALSE] /\ notified = FALSE /\ threads = 0
    /\ pc = "create"
    /\ pool = [l \in Loops |-> <<>>] /\ batch = <<>>
    /\ channels = [l \in Loops |-> <<>>] /\ interest = [l \in Loops |-> {}]
    /\ conn = <<>> /\ conns = {} /\ next_id = 0 /\ timers = {}
    /\ backlog = 0 /\ clients = 0

BaseThread == NewThread \/ GetLoop \/ Poll \/ RunAllTask \/ Accept \/ Insert \/ BaseTask \/ EndTasks

Next ==
    \/ BaseThread
    \/ ThreadEntry
    \/ \E l \in Workers : WorkerTask(l)
    \/ Release \/ Shutdown \/ RunAfter
    \/ Connect \/ Abort

\* The threads are scheduled.
Fairness ==
    /\ WF_vars(BaseThread) /\ WF_vars(ThreadEntry)
    /\ \A l \in 1 .. Max(ThreadCounts) : WF_vars(l \in Workers /\ WorkerTask(l))

Spec == Init /\ [][Next]_vars /\ Fairness

-----------------------------------------------------------------------------
(* Properties.                                                             *)

\* A connection that is established is watched by the epoll of its own loop and
\* found there under its descriptor (408-440), and every channel of a poller is
\* the one of a connection that owns the descriptor now: the number is used
\* again as soon as it is closed, for a connection of any loop.  It needs that a
\* connection is shut down in its own loop only; see ConnectedWatched.
ChannelsMatch ==
    ~strangers => \A l \in Loops :
       /\ interest[l] = DOMAIN channels[l]
       /\ {<<fd, channels[l][fd]>> : fd \in DOMAIN channels[l]} =
             {<<conn[id].fd, id>> : id \in {i \in Connected : conn[i].loop = l}}

\* The comments at 360 and 905 take the events of a connection to be watched until its
\* release.  With Shutdown from other threads a second ReleaseInLoop, or a channel it
\* leaves behind, takes the events of the connection that has the number next.
ConnectedWatched ==
    \A id \in Connected : conn[id].fd \in interest[conn[id].loop]

\* GetLoop returns and the server starts (698, 712), however the threads come to run.
Starts == <>(pc \notin {"create", "getloop", "waiting"})

\* No connection is handed to a loop that is not there yet (735, 745).
LoopsPublished == conn # <<>> => \A t \in Workers : loop[t]

\* The server forgets a connection it has released (1101-1111), also one that was
\* released before NewConnection had put it into _conns (1099), or its memory
\* is never freed -- unless the base loop comes to accept, which may block it for
\* ever.  It holds for the ids that fit an int; from there on Id() finds nothing in
\* _conns (1102).
ReleasedForgotten ==
    \A id \in 1..IntMax :
       (id \in DOMAIN conn /\ conn[id].stage = "released") ~> (id \notin conns \/ pc = "accept")

\* The comment at 282 lists "4. set non-blocking" among the steps that create the
\* listening socket: then accept would always return.
AcceptReturns == pc = "accept" ~> pc # "accept"
=============================================================================
