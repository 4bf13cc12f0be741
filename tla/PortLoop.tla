------------------------------ MODULE PortLoop ------------------------------
(***************************************************************************)
(* The event loop of the unfinished port in src: an EventLoop with its     *)
(* Channels and EPollPoller in the thread of an EventLoopThread, and the   *)
(* owner of that object, who starts the loop, hands it functors and        *)
(* destroys it.  Channel::update and Channel::remove have empty bodies     *)
(* (Channel.cc:25-33), so what a channel wants to watch reaches the poller *)
(* only through EventLoop::updateChannel, and never for the eventfd.       *)
(***************************************************************************)
EXTENDS Naturals, Sequences

CONSTANTS Task,     \* functors
          MaxTasks  \* bound: functors handed over

ASSUME PortLoopAssumption == MaxTasks \in Nat

VARIABLES
  owner,     \* where the owner of the EventLoopThread is
  thread,    \* where the thread of the loop is
  loop,      \* loop_ of the EventLoopThread is set
  quit,      \* quit_
  pending,   \* pendingFunctors_
  functors,  \* what doPendingFunctors has swapped out
  calling,   \* callingPendingFunctors_
  handed,    \* functors handed over so far
  eventfd,   \* the counter of wakeupFd_ is not zero
  active,    \* channels of activeChannels_ still to be handled
  events,    \* events_ of each channel
  index,     \* index_ of each channel: kNew, kAdded, kDeleted
  channels,  \* channels_ of the poller
  interest,  \* what epoll watches: from channels to events
  fatal,     \* epoll_ctl has failed to add or modify
  asked      \* history: events_ of the socket's channel at its last update

vars == <<owner, thread, loop, quit, pending, functors, calling, handed, eventfd, active, events,
          index, channels, interest, fatal, asked>>

Channel == {"wakeup", "socket"}
KReadEvent == {"read"}
KNoneEvent == {}

pool == <<pending, functors, calling, handed>>
poller == <<index, channels, interest, fatal>>

\* The user's code runs in the thread of the loop: the ThreadInitCallback, a
\* callback of a channel, a functor.
Calling == thread \in {"init", "callback", "functor"}

-----------------------------------------------------------------------------
(* EPollPoller.                                                            *)

\* epoll_ctl; LOG_FATAL ends the program.
Update(op, c) ==
    CASE op = "ADD" -> /\ fatal' = (c \in DOMAIN interest)
                       /\ interest' = [d \in DOMAIN interest \union {c} |->
                                          IF d = c THEN events[c] ELSE interest[d]]
      [] op = "MOD" -> /\ fatal' = (c \notin DOMAIN interest)
                       /\ interest' = [d \in DOMAIN interest |->
                                          IF d = c THEN events[c] ELSE interest[d]]
      [] op = "DEL" -> /\ interest' = [d \in DOMAIN interest \ {c} |-> interest[d]]
                       /\ UNCHANGED fatal

\* A faulty variant: a channel that was taken out is not put back.
updateChannel_NewOnly(c) ==
    \/ /\ index[c] = "new"
       /\ channels' = channels \union {c}
       /\ index' = [index EXCEPT ![c] = "added"]
       /\ Update("ADD", c)
    \/ /\ index[c] # "new" /\ events[c] = KReadEvent
       /\ Update("DEL", c)
       /\ index' = [index EXCEPT ![c] = "deleted"]
       /\ UNCHANGED channels
    \/ /\ index[c] = "added" /\ events[c] # KReadEvent
       /\ Update("MOD", c)
       /\ UNCHANGED <<index, channels>>
    \/ /\ index[c] = "deleted" /\ events[c] # KReadEvent
       /\ UNCHANGED poller

\* A channel whose events are exactly KReadEvent is taken out when it is updated
\* (isKReadEvent), one without any is modified.
updateChannel(c) ==
    \/ /\ index[c] \in {"new", "deleted"}
       /\ channels' = IF index[c] = "new" THEN channels \union {c} ELSE channels
       /\ index' = [index EXCEPT ![c] = "added"]
       /\ Update("ADD", c)
    \/ /\ index[c] = "added" /\ events[c] = KReadEvent
       /\ Update("DEL", c)
       /\ index' = [index EXCEPT ![c] = "deleted"]
       /\ UNCHANGED channels
    \/ /\ index[c] = "added" /\ events[c] # KReadEvent
       /\ Update("MOD", c)
       /\ UNCHANGED <<index, channels>>

\* A faulty variant: the channel still counts as added.
removeChannel_Added(c) ==
    /\ channels' = channels \ {c}
    /\ Update("DEL", c)
    /\ UNCHANGED index

removeChannel(c) ==
    /\ channels' = channels \ {c}
    /\ IF index[c] = "added" THEN Update("DEL", c) ELSE UNCHANGED <<interest, fatal>>
    /\ index' = [index EXCEPT ![c] = "new"]

\* A faulty variant: no timeout, as in source/server.hpp.
poll_Forever ==
    /\ thread = "poll" /\ thread' = "handle"
    /\ \E ready \in (SUBSET DOMAIN interest) \ {{}} :
          /\ ("wakeup" \in ready) = (eventfd /\ "wakeup" \in DOMAIN interest)
          /\ active' = ready
    /\ UNCHANGED <<owner, loop, quit, pool, eventfd, events, poller, asked>>

\* poll returns at the latest after kPollTimeMs.  epoll reports the eventfd if it
\* is watched, and a socket that is, also for errors, which cannot be masked.
poll ==
    /\ thread = "poll" /\ thread' = "handle"
    /\ \E ready \in SUBSET DOMAIN interest :
          /\ ("wakeup" \in ready) = (eventfd /\ "wakeup" \in DOMAIN interest)
          /\ active' = ready
    /\ UNCHANGED <<owner, loop, quit, pool, eventfd, events, poller, asked>>

-----------------------------------------------------------------------------
(* EventLoop.                                                              *)

\* The second thing that queueInLoop does, and quit.
wakeup == eventfd' = TRUE

\* queueInLoop in the thread of the loop: no wake-up unless functors are being run.
queueInLoop(f) ==
    /\ Calling /\ handed < MaxTasks
    /\ pending' = Append(pending, f) /\ handed' = handed + 1
    /\ IF calling THEN wakeup ELSE UNCHANGED eventfd
    /\ UNCHANGED <<owner, thread, loop, quit, functors, calling, active, events, poller, asked>>

\* quit in the thread of the loop.
quitSelf ==
    /\ Calling /\ quit' = TRUE
    /\ UNCHANGED <<owner, thread, loop, pool, eventfd, active, events, poller, asked>>

\* The user changes what the socket's channel watches (enableReading, ...,
\* disableAll), which does nothing more, and updates or removes it.
setEvents ==
    /\ Calling
    /\ \E e \in {"read", "write"} :
          \E new \in {events["socket"] \union {e}, events["socket"] \ {e}, KNoneEvent} :
             events' = [events EXCEPT !["socket"] = new]
    /\ UNCHANGED <<owner, thread, loop, quit, pool, eventfd, active, poller, asked>>

changeChannel ==
    /\ Calling
    /\ \/ updateChannel("socket") /\ asked' = events["socket"]
       \/ removeChannel("socket") /\ asked' = KNoneEvent
    /\ UNCHANGED <<owner, thread, loop, quit, pool, eventfd, active, events>>

\* A faulty variant: quit_ is reset in every turn.
start_EveryTurn ==
    /\ \/ thread = "loop" /\ thread' = "while" /\ quit' = FALSE
       \/ thread = "while" /\ thread' = "poll" /\ quit' = FALSE
    /\ UNCHANGED <<owner, loop, pool, eventfd, active, events, poller, asked>>

\* loop(): quit_ is reset first, then tested in every turn.
start ==
    /\ \/ thread = "loop" /\ thread' = "while" /\ quit' = FALSE
       \/ thread = "while" /\ thread' = (IF quit THEN "end" ELSE "poll") /\ UNCHANGED quit
    /\ UNCHANGED <<owner, loop, pool, eventfd, active, events, poller, asked>>

\* The loop over activeChannels_: handleRead for the eventfd, else a callback of the
\* user's.
handleEvent ==
    /\ thread = "handle" /\ active # {}
    /\ \E c \in active :
          /\ active' = active \ {c}
          /\ thread' = IF c = "wakeup" THEN "handle" ELSE "callback"
          /\ eventfd' = (eventfd /\ c # "wakeup")
    /\ UNCHANGED <<owner, loop, quit, pool, events, poller, asked>>

\* A faulty variant: the functors are run from the member itself, and then cleared.
doPendingFunctors_Clear ==
    /\ \/ /\ thread = "handle" /\ active = {} /\ thread' = "functors"
          /\ functors' = pending /\ calling' = TRUE /\ UNCHANGED pending
       \/ /\ thread = "functors" /\ functors # <<>> /\ thread' = "functor"
          /\ functors' = Tail(functors) /\ UNCHANGED <<pending, calling>>
       \/ /\ thread = "functors" /\ functors = <<>> /\ thread' = "while"
          /\ calling' = FALSE /\ pending' = <<>> /\ UNCHANGED functors
    /\ UNCHANGED <<owner, loop, quit, handed, eventfd, active, events, poller, asked>>

doPendingFunctors ==
    /\ \/ /\ thread = "handle" /\ active = {} /\ thread' = "functors"
          /\ functors' = pending /\ pending' = <<>> /\ calling' = TRUE
       \/ /\ thread = "functors" /\ functors # <<>> /\ thread' = "functor"
          /\ functors' = Tail(functors) /\ UNCHANGED <<pending, calling>>
       \/ /\ thread = "functors" /\ functors = <<>> /\ thread' = "while"
          /\ calling' = FALSE /\ UNCHANGED <<pending, functors>>
    /\ UNCHANGED <<owner, loop, quit, handed, eventfd, active, events, poller, asked>>

\* The user's code returns.
return ==
    /\ Calling
    /\ thread' = CASE thread = "init" -> "publish" [] thread = "callback" -> "handle"
                   [] thread = "functor" -> "functors"
    /\ UNCHANGED <<owner, loop, quit, pool, eventfd, active, events, poller, asked>>

-----------------------------------------------------------------------------
(* EventLoopThread and Thread.                                             *)

\* threadFunc: the EventLoop is made, the callback called, loop_ set and the waiter
\* notified; behind loop() loop_ is reset, and the EventLoop goes with the frame.
threadFunc ==
    /\ \/ /\ thread = "born" /\ thread' = "init" /\ UNCHANGED loop
          /\ events' = [events EXCEPT !["wakeup"] = @ \union KReadEvent]
       \/ /\ thread = "publish" /\ thread' = "loop" /\ loop' = TRUE /\ UNCHANGED events
       \/ /\ thread = "end" /\ thread' = "dead" /\ loop' = FALSE
          /\ events' = [events EXCEPT !["wakeup"] = KNoneEvent]
    /\ UNCHANGED <<owner, quit, pool, eventfd, active, poller, asked>>

\* startLoop: Thread::start, whose semaphore only waits for tid_, and the wait for
\* loop_.  A loop that has ended by itself in the meantime is waited for in vain.
startLoop ==
    /\ \/ owner = "start" /\ owner' = "wait" /\ thread' = "born"
       \/ owner = "wait" /\ loop /\ owner' = "use" /\ UNCHANGED thread
    /\ UNCHANGED <<loop, quit, pool, eventfd, active, events, poller, asked>>

\* queueInLoop in the owner's thread: the push under the mutex, the wake-up after it.
queueInLoopFrom(f) ==
    /\ \/ /\ owner = "use" /\ loop /\ handed < MaxTasks /\ owner' = "wakeup"
          /\ pending' = Append(pending, f) /\ handed' = handed + 1 /\ UNCHANGED eventfd
       \/ /\ owner = "wakeup" /\ owner' = "use" /\ wakeup /\ UNCHANGED <<pending, handed>>
    /\ UNCHANGED <<thread, loop, quit, functors, calling, active, events, poller, asked>>

\* ~EventLoopThread: loop_ is read without the mutex; the quit of a loop that is no
\* more writes to memory that the model does not have.
destructor ==
    /\ \/ owner = "use" /\ owner' = (IF loop THEN "quit" ELSE "done") /\ UNCHANGED <<quit, eventfd>>
       \/ owner = "quit" /\ owner' = "join" /\ quit' = TRUE /\ wakeup
       \/ owner = "join" /\ thread = "dead" /\ owner' = "done" /\ UNCHANGED <<quit, eventfd>>
    /\ UNCHANGED <<thread, loop, pool, active, events, poller, asked>>

Init ==
    /\ owner = "start" /\ thread = "none" /\ loop = FALSE /\ quit = FALSE
    /\ pending = <<>> /\ functors = <<>> /\ calling = FALSE /\ handed = 0
    /\ eventfd = FALSE /\ active = {}
    /\ events = [c \in Channel |-> KNoneEvent]
    /\ index = [c \in Channel |-> "new"]
    /\ channels = {} /\ interest = <<>> /\ fatal = FALSE /\ asked = KNoneEvent

LoopThread == threadFunc \/ start \/ poll \/ handleEvent \/ doPendingFunctors \/ return

Next ==
    /\ ~fatal
    /\ \/ LoopThread
       \/ \E f \in Task : queueInLoop(f) \/ queueInLoopFrom(f)
       \/ quitSelf \/ setEvents \/ changeChannel
       \/ startLoop \/ destructor

\* Threads run, the user's code returns, and poll ends by its timeout; the owner
\* need not destroy the object.
Fairness ==
    /\ WF_vars(LoopThread)
    /\ WF_vars(startLoop) /\ WF_vars(owner \in {"quit", "join"} /\ destructor)
    /\ WF_vars(owner = "wakeup" /\ \E f \in Task : queueInLoopFrom(f))

Spec == Init /\ [][Next]_vars /\ Fairness

-----------------------------------------------------------------------------
(* Properties.                                                             *)

\* The functors the loop has still to start; each is started once and in order,
\* as in source/server.hpp.
Pool == INSTANCE TaskPool WITH pool <- functors \o pending

ImplementsTaskPool == Pool!Safety

\* Though no wake-up ever reaches the loop (46 says that it watches the eventfd, but
\* Channel::update does nothing), a functor is run: the timeout of poll (16) stands
\* in for the wake-up.
FunctorsRun == pending # <<>> ~> (pending = <<>> \/ quit \/ thread = "dead")

\* A loop that runs is ended by quit, in whatever part of its turn it comes and from
\* whatever thread (89-98).
QuitEndsLoop ==
    quit /\ thread \in {"while", "poll", "handle", "callback", "functors", "functor"} ~>
        thread = "dead"

\* The index of a channel tells what epoll knows of it (62-98), through every sequence
\* of updates and removals; else an epoll_ctl fails and ends the program (124).
IndexMatches ==
    /\ ~fatal
    /\ \A c \in Channel : /\ (index[c] = "added") = (c \in DOMAIN interest)
                          /\ (index[c] = "new") = (c \notin channels)

\* A channel that wanted to write when it was last updated is watched for all that it
\* wanted then, whatever was asked before (64-85): taken out as isKReadEvent (77), it
\* has to be added again.
WritersWatched ==
    "write" \in asked => "socket" \in DOMAIN interest /\ interest["socket"] = asked

\* The comment at EventLoop.cc:88 says: quit ends the loop, called in another thread
\* too.  If it comes before loop() has reset quit_ (62) the destructor waits for ever.
DestructorReturns == owner = "join" ~> owner = "done"
=============================================================================
