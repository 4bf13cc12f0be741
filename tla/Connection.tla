----------------------------- MODULE Connection -----------------------------
(***************************************************************************)
(* The life of one Connection of source/server.hpp, from the accept in     *)
(* TcpServer::NewConnection to the end of the object, together with the    *)
(* Channel that dispatches its events, the turn of its EventLoop, the      *)
(* socket underneath and the threads that call it.                         *)
(*                                                                         *)
(* The loop thread is a stack machine: calls is the list of the functions  *)
(* it has still to run, innermost first, and a step runs the first of them *)
(* up to the calls that it makes in turn.  The functions named in tasks    *)
(* and batch are bound to the connection by a raw pointer.  Data is        *)
(* counted in units of one request or one answer.  The eventfd and the     *)
(* slots of the timer wheel are left out: epoll_wait may return at any     *)
(* time (module EventLoop has the wake-up), and the inactivity timer runs  *)
(* out at any time while it is armed (module InactiveRelease has the       *)
(* delays).                                                                *)
(***************************************************************************)
EXTENDS Naturals, Sequences, Functions

CONSTANTS
  SameLoop,      \* TRUE: the connection may live in the base loop (no threads);
                 \* FALSE: in the loop of another thread
  Inactive,      \* TcpServer::_enable_inactive_release
  UserOps,       \* what a message callback may call, in order
  ForeignOps,    \* what another thread may ask of the connection
  MaxForeign,    \* bound of the model: requests of other threads
  MaxRecv,       \* bound of the model: units the peer sends
  MaxSend        \* bound of the model: units the callbacks and threads send

ASSUME ConnectionAssumption ==
  /\ SameLoop \subseteq BOOLEAN
  /\ Inactive \in BOOLEAN
  /\ UserOps \subseteq Seq({"SendInLoop", "ShutdownInLoop", "Release"})
  /\ ForeignOps \subseteq {"SendInLoop", "ShutdownInLoop", "ReleaseInLoop"}
  /\ MaxForeign \in Nat /\ MaxRecv \in Nat /\ MaxSend \in Nat

VARIABLES
  conn,    \* the Connection: statu, events (of its channel), monitored (the
           \* channel is in _channels of the poller and in epoll), open (its
           \* descriptor), in and out (units in the buffers), timer (its
           \* inactivity task: "none", "armed" or "canceled")
  turn,    \* Start(): phase ("poll", "dispatch" or "run"), ready (channels of
           \* this turn still to be handled: "conn", "timer"), revents (of the
           \* connection's channel), batch (the rest of RunAllTask's vector)
  calls,   \* functions the loop thread has still to run, innermost first
  tasks,   \* _tasks
  thread,  \* the loop thread: eagain (errno is EAGAIN or EINTR), failed (why
           \* the program has stopped: "no", "assert" or "destroyed")
  owner,   \* same (the loop is the base loop), accepting (progress of
           \* NewConnection), owned (the connection is in _conns), removals
           \* (RemoveConnectionInLoop tasks of the base loop), held (another
           \* thread has a PtrConnection), foreign (requests it has made)
  sock,    \* the socket: rcv (units to be read), rx (the receiving side: "open",
           \* "eof" or "reset"), arrived (units the peer has sent), delivered
           \* (units handed to the kernel for the peer)
  hist     \* history: promised (units delivered or pending when Shutdown first
           \* looked at them), shut (it has), hard (a reason to drop output has
           \* occurred), late (Shutdown has run on a released connection),
           \* releases (runs of ReleaseInLoop, counted up to two)

vars == <<conn, turn, calls, tasks, thread, owner, sock, hist>>

Status == {"CONNECTING", "CONNECTED", "DISCONNECTING", "DISCONNECTED"}

\* The functions that can be on the stack of the loop thread or in its pool.
Functions == {"EstablishedInLoop", "EnableInactiveReleaseInLoop", "SendInLoop",
              "ShutdownInLoop", "ShutdownTail", "ReleaseInLoop", "Release",
              "HandleRead", "HandleWrite", "HandleClose", "Message",
              "ConnectedCallback", "ServerClosed"}

Init ==
  /\ conn = [statu |-> "CONNECTING", events |-> {}, monitored |-> FALSE, open |-> TRUE,
             in |-> 0, out |-> 0, timer |-> "none"]
  /\ turn = [phase |-> "poll", ready |-> {}, revents |-> {}, batch |-> <<>>]
  /\ calls = <<>>
  /\ tasks = <<>>
  /\ thread \in [eagain : BOOLEAN, failed : {"no"}]
  /\ owner \in [same : SameLoop, accepting : {"accepted"}, owned : {FALSE},
                removals : {0}, held : {FALSE}, foreign : {0}]
  /\ sock = [rcv |-> 0, rx |-> "open", arrived |-> 0, delivered |-> 0]
  /\ hist = [promised |-> 0, shut |-> FALSE, hard |-> FALSE, late |-> FALSE, releases |-> 0]

-----------------------------------------------------------------------------
(***************************************************************************)
(* The loop thread's stack and the object's lifetime.                      *)
(***************************************************************************)

Running == thread.failed = "no"

\* The loop thread runs function f.
Calling(f) == Running /\ calls # <<>> /\ Head(calls) = f

\* The function returns after it has called the functions of s.
Calls(s) == calls' = s \o Tail(calls)

\* QueueInLoop: the function runs in a later RunAllTask.
Queue(f) == tasks' = Append(tasks, f)

QueueIf(cond, f) == IF cond THEN Queue(f) ELSE UNCHANGED tasks

\* The message callback is called if there is input.
MessageIfInput == IF conn.in > 0 THEN <<"Message">> ELSE <<>>

\* A shared pointer keeps the Connection: the local variable of NewConnection,
\* the map _conns, a RemoveConnectionInLoop task or a user's own.
Alive == owner.accepting # "done" \/ owner.owned \/ owner.removals > 0 \/ owner.held

\* EnableWrite where WriteAble() is false: Update puts the channel into the
\* poller if it is not there.
EnableWrite(c) ==
  [c EXCEPT !.events = @ \cup {"OUT"}, !.monitored = @ \/ "OUT" \notin c.events]

\* RemoveEvent of the poller, and Close of the socket.
Removed(c) == [c EXCEPT !.monitored = FALSE, !.open = FALSE]

\* recv at the end of the stream, which epoll reported (it reports IN only for
\* data or for the end).  At a normal end recv returns 0 and leaves errno as it
\* was, and Recv takes that for "no data" when errno still says EAGAIN or EINTR.
RecvEmpty == sock.rcv = 0 /\ sock.rx = "eof" /\ thread.eagain
RecvFails == sock.rcv = 0 /\ (sock.rx = "reset" \/ (sock.rx = "eof" /\ ~thread.eagain))

\* send on a connection that the peer has broken.
SendFails == sock.rx = "reset"

\* send takes n units; without output left the writable event is given up, by
\* an Update once more.
Sent(c, n) ==
  [c EXCEPT !.out = @ - n, !.events = IF n = c.out THEN @ \ {"OUT"} ELSE @,
            !.monitored = @ \/ n = c.out]

-----------------------------------------------------------------------------
(***************************************************************************)
(* Faulty variants: not part of the specification.                         *)
(***************************************************************************)

\* Queues data without asking for the writable event.
SendInLoopNoWrite ==
  /\ Calling("SendInLoop")
  /\ Calls(<<>>)
  /\ conn' = IF conn.statu = "DISCONNECTED" THEN conn ELSE [conn EXCEPT !.out = @ + 1]
  /\ UNCHANGED <<turn, tasks, thread, owner, sock, hist>>

\* Accepts data for a connection that is released.
SendInLoopAlways ==
  /\ Calling("SendInLoop")
  /\ Calls(<<>>)
  /\ conn' = EnableWrite([conn EXCEPT !.out = @ + 1])
  /\ UNCHANGED <<turn, tasks, thread, owner, sock, hist>>

\* Releases the connection with output still pending.
ShutdownTailHasty ==
  /\ Calling("ShutdownTail")
  /\ Calls(<<>>)
  /\ Queue("ReleaseInLoop")
  /\ hist' = [hist EXCEPT !.shut = TRUE,
                !.promised = IF hist.shut THEN @ ELSE sock.delivered + conn.out]
  /\ UNCHANGED <<conn, turn, thread, owner, sock>>

\* Forgets that the connection is closing.
HandleWriteNoRelease(n) ==
  /\ Calling("HandleWrite")
  /\ ~SendFails
  /\ Calls(<<>>)
  /\ conn' = Sent(conn, n)
  /\ sock' = [sock EXCEPT !.delivered = @ + n]
  /\ thread' = [thread EXCEPT !.eagain = @ \/ (n = 0 /\ conn.out > 0)]
  /\ UNCHANGED <<turn, tasks, owner, hist>>

\* Runs ReleaseInLoop at once instead of queueing it.
ReleaseAtOnce ==
  /\ Calling("Release")
  /\ Calls(<<"ReleaseInLoop">>)
  /\ hist' = [hist EXCEPT !.hard = TRUE]
  /\ UNCHANGED <<conn, turn, tasks, thread, owner, sock>>

\* Moves the write offset of the input buffer twice for what was read.
HandleReadPushTwice ==
  /\ Calling("HandleRead")
  /\ \E n \in 1 .. sock.rcv : /\ sock' = [sock EXCEPT !.rcv = @ - n]
                              /\ conn' = [conn EXCEPT !.in = @ + 2 * n]
  /\ Calls(<<"Message">>)
  /\ UNCHANGED <<turn, tasks, thread, owner, hist>>

\* Takes every result of recv that is not positive for "no data".
HandleReadNoEnd ==
  /\ Calling("HandleRead")
  /\ \/ \E n \in 1 .. sock.rcv : /\ sock' = [sock EXCEPT !.rcv = @ - n]
                                 /\ conn' = [conn EXCEPT !.in = @ + n]
                                 /\ Calls(<<"Message">>)
     \/ sock.rcv = 0 /\ Calls(MessageIfInput) /\ UNCHANGED <<conn, sock>>
  /\ UNCHANGED <<turn, tasks, thread, owner, hist>>

-----------------------------------------------------------------------------
(***************************************************************************)
(* Functions of Connection.                                                *)
(***************************************************************************)

\* EstablishedInLoop; its assert fails on a connection that is not new.
EstablishedInLoop ==
  /\ Calling("EstablishedInLoop")
  /\ \/ /\ conn.statu = "CONNECTING"
        /\ conn' = [conn EXCEPT !.statu = "CONNECTED", !.events = @ \cup {"IN"},
                                !.monitored = TRUE]
        /\ Calls(<<"ConnectedCallback">>)
        /\ UNCHANGED thread
     \/ /\ conn.statu # "CONNECTING"
        /\ thread' = [thread EXCEPT !.failed = "assert"]
        /\ UNCHANGED <<conn, calls>>
  /\ UNCHANGED <<turn, tasks, owner, sock, hist>>

\* The user's connected callback may give the connection to another thread.
ConnectedCallback ==
  /\ Calling("ConnectedCallback")
  /\ Calls(<<>>)
  /\ \E held \in {FALSE, MaxForeign > 0} : owner' = [owner EXCEPT !.held = held]
  /\ UNCHANGED <<conn, turn, tasks, thread, sock, hist>>

EnableInactiveReleaseInLoop ==
  /\ Calling("EnableInactiveReleaseInLoop")
  /\ Calls(<<>>)
  /\ conn' = [conn EXCEPT !.timer = IF @ = "none" THEN "armed" ELSE @]
  /\ UNCHANGED <<turn, tasks, thread, owner, sock, hist>>

\* The data goes to _out_buffer, and the writable event is asked for; nothing
\* is sent yet.
SendInLoop ==
  /\ Calling("SendInLoop")
  /\ Calls(<<>>)
  /\ conn' = IF conn.statu = "DISCONNECTED"
             THEN conn
             ELSE EnableWrite([conn EXCEPT !.out = @ + 1])
  /\ UNCHANGED <<turn, tasks, thread, owner, sock, hist>>

\* ShutdownInLoop up to the message callback, whatever _statu was.
ShutdownInLoop ==
  /\ Calling("ShutdownInLoop")
  /\ conn' = [conn EXCEPT !.statu = "DISCONNECTING"]
  /\ Calls(MessageIfInput \o <<"ShutdownTail">>)
  /\ hist' = [hist EXCEPT !.late = @ \/ conn.statu = "DISCONNECTED"]
  /\ UNCHANGED <<turn, tasks, thread, owner, sock>>

\* ShutdownInLoop after the message callback: pending output keeps the
\* connection, otherwise Release is called.
ShutdownTail ==
  /\ Calling("ShutdownTail")
  /\ Calls(<<>>)
  /\ conn' = IF conn.out > 0 THEN EnableWrite(conn) ELSE conn
  /\ QueueIf(conn.out = 0, "ReleaseInLoop")
  /\ hist' = [hist EXCEPT !.shut = TRUE,
                !.promised = IF hist.shut THEN @ ELSE sock.delivered + conn.out]
  /\ UNCHANGED <<turn, thread, owner, sock>>

\* Release, called for an error, a hang-up or by the user: output that is
\* pending will be dropped.
Release ==
  /\ Calling("Release")
  /\ Calls(<<>>)
  /\ Queue("ReleaseInLoop")
  /\ hist' = [hist EXCEPT !.hard = TRUE]
  /\ UNCHANGED <<conn, turn, thread, owner, sock>>

\* ReleaseInLoop up to the server's callback: status, poller, descriptor,
\* timer, the user's closed callback.
ReleaseInLoop ==
  /\ Calling("ReleaseInLoop")
  /\ conn' = [Removed(conn) EXCEPT !.statu = "DISCONNECTED",
                                   !.timer = IF @ = "armed" THEN "canceled" ELSE @]
  /\ hist' = [hist EXCEPT !.releases = IF @ < 2 THEN @ + 1 ELSE @]
  /\ Calls(<<"ServerClosed">>)
  /\ UNCHANGED <<turn, tasks, thread, owner, sock>>

\* TcpServer::RemoveConnection: in the base loop RemoveConnectionInLoop runs at
\* once, from another loop it is queued.
ServerClosed ==
  /\ Calling("ServerClosed")
  /\ Calls(<<>>)
  /\ owner' = IF owner.same THEN [owner EXCEPT !.owned = FALSE]
                            ELSE [owner EXCEPT !.removals = @ + 1]
  /\ UNCHANGED <<conn, turn, tasks, thread, sock, hist>>

\* HandleRead: recv yields data, nothing or an error.
HandleRead ==
  /\ Calling("HandleRead")
  /\ \/ \E n \in 1 .. sock.rcv :
          /\ sock' = [sock EXCEPT !.rcv = @ - n]
          /\ conn' = [conn EXCEPT !.in = @ + n]
          /\ Calls(<<"Message">>)
          /\ UNCHANGED thread
     \/ /\ RecvEmpty
        /\ Calls(MessageIfInput)
        /\ UNCHANGED <<conn, sock, thread>>
     \/ /\ RecvFails
        /\ thread' = [thread EXCEPT !.eagain = FALSE]
        /\ Calls(<<"ShutdownInLoop">>)
        /\ UNCHANGED <<conn, sock>>
  /\ UNCHANGED <<turn, tasks, owner, hist>>

\* HandleWrite, when send takes n units, perhaps none; without any output send
\* is not called.
HandleWrite(n) ==
  /\ Calling("HandleWrite")
  /\ ~SendFails
  /\ Calls(<<>>)
  /\ conn' = Sent(conn, n)
  /\ sock' = [sock EXCEPT !.delivered = @ + n]
  /\ thread' = [thread EXCEPT !.eagain = @ \/ (n = 0 /\ conn.out > 0)]
  /\ QueueIf(n = conn.out /\ conn.statu = "DISCONNECTING", "ReleaseInLoop")
  /\ UNCHANGED <<turn, owner, hist>>

\* HandleWrite, when send fails.
HandleWriteFails ==
  /\ Calling("HandleWrite")
  /\ SendFails
  /\ thread' = [thread EXCEPT !.eagain = FALSE]
  /\ Calls(MessageIfInput \o <<"Release">>)
  /\ UNCHANGED <<conn, turn, tasks, owner, sock, hist>>

\* HandleClose, and HandleError, which calls it.
HandleClose ==
  /\ Calling("HandleClose")
  /\ Calls(MessageIfInput \o <<"Release">>)
  /\ UNCHANGED <<conn, turn, tasks, thread, owner, sock, hist>>

\* The user's message callback takes some of the input and calls back into the
\* connection.  A callback that shuts the connection down has taken something:
\* otherwise it and ShutdownInLoop would call each other without end.
Message ==
  /\ Calling("Message")
  /\ \E n \in 0 .. conn.in, ops \in UserOps :
       /\ "ShutdownInLoop" \in Range(ops) => n > 0
       /\ "SendInLoop" \in Range(ops) => sock.delivered + conn.out < MaxSend
       /\ conn' = [conn EXCEPT !.in = @ - n]
       /\ Calls(ops)
  /\ UNCHANGED <<turn, tasks, thread, owner, sock, hist>>

ConnectionStep ==
  \/ EstablishedInLoop \/ ConnectedCallback \/ EnableInactiveReleaseInLoop
  \/ SendInLoop \/ ShutdownInLoop \/ ShutdownTail
  \/ Release \/ ReleaseInLoop \/ ServerClosed
  \/ HandleRead
  \/ \E n \in 0 .. conn.out : HandleWrite(n)
  \/ HandleWriteFails
  \/ HandleClose \/ Message

-----------------------------------------------------------------------------
(***************************************************************************)
(* The turn of the loop: Poll, dispatch, RunAllTask.                       *)
(***************************************************************************)

\* Between two callbacks or two tasks.
Idle(p) == Running /\ turn.phase = p /\ calls = <<>>

\* What epoll reports of the descriptor, level-triggered, if the kernel has
\* room for output or not.  A reset is reported whatever events is.
Reported(room) ==
  LET broken == sock.rx = "reset"
  IN  {e \in conn.events : \/ e = "IN" /\ (sock.rcv > 0 \/ sock.rx # "open")
                           \/ e = "OUT" /\ (room \/ broken)}
        \cup (IF broken THEN {"HUP"} ELSE {})

\* epoll_wait returns; other channels and the eventfd may be the reason.
Poll(room, timerfd) ==
  LET revents == IF conn.monitored THEN Reported(room) ELSE {}
  IN  /\ Idle("poll")
      /\ turn' = [turn EXCEPT !.phase = "dispatch", !.revents = revents,
                    !.ready = (IF revents # {} THEN {"conn"} ELSE {})
                                \cup (IF timerfd THEN {"timer"} ELSE {})]
      /\ UNCHANGED <<conn, calls, tasks, thread, owner, sock, hist>>

\* Channel::HandleEvent: the read callback, then one of the callbacks for the
\* other events.  (The refresh of the timer that follows is not visible here.)
HandleEvent ==
  /\ Idle("dispatch")
  /\ "conn" \in turn.ready
  /\ turn' = [turn EXCEPT !.ready = @ \ {"conn"}]
  /\ calls' = (IF "IN" \in turn.revents THEN <<"HandleRead">> ELSE <<>>)
               \o (IF "OUT" \in turn.revents THEN <<"HandleWrite">>
                   ELSE IF "HUP" \in turn.revents THEN <<"HandleClose">> ELSE <<>>)
  /\ UNCHANGED <<conn, tasks, thread, owner, sock, hist>>

\* OnTime reaches the slot that holds the last pointer to the inactivity task,
\* if there is one.
OnTime ==
  /\ Idle("dispatch")
  /\ "timer" \in turn.ready
  /\ turn' = [turn EXCEPT !.ready = @ \ {"timer"}]
  /\ conn' = [conn EXCEPT !.timer = "none"]
  /\ QueueIf(conn.timer = "armed", "ReleaseInLoop")
  /\ hist' = [hist EXCEPT !.hard = @ \/ conn.timer = "armed"]
  /\ UNCHANGED <<calls, thread, owner, sock>>

\* The handler of another descriptor leaves another errno behind.
OtherHandler ==
  /\ Idle("dispatch")
  /\ thread' = [thread EXCEPT !.eagain = ~@]
  /\ UNCHANGED <<conn, turn, calls, tasks, owner, sock, hist>>

\* RunAllTask takes the pool.
RunAllTask ==
  /\ Idle("dispatch")
  /\ turn.ready = {}
  /\ turn' = [turn EXCEPT !.phase = "run", !.batch = tasks]
  /\ tasks' = <<>>
  /\ UNCHANGED <<conn, calls, thread, owner, sock, hist>>

\* The next functor of the batch is called through its raw pointer.
RunTask ==
  /\ Idle("run")
  /\ turn.batch # <<>>
  /\ turn' = [turn EXCEPT !.batch = Tail(@)]
  /\ \/ Alive /\ calls' = <<Head(turn.batch)>> /\ UNCHANGED thread
     \/ ~Alive /\ thread' = [thread EXCEPT !.failed = "destroyed"] /\ UNCHANGED calls
  /\ UNCHANGED <<conn, tasks, owner, sock, hist>>

EndTurn ==
  /\ Idle("run")
  /\ turn.batch = <<>>
  /\ turn' = [turn EXCEPT !.phase = "poll"]
  /\ UNCHANGED <<conn, calls, tasks, thread, owner, sock, hist>>

LoopStep ==
  \/ ConnectionStep
  \/ HandleEvent \/ OnTime \/ RunAllTask \/ RunTask \/ EndTurn

-----------------------------------------------------------------------------
(***************************************************************************)
(* The base loop, the other threads and the peer.                          *)
(***************************************************************************)

EnableFirst == IF Inactive THEN <<"EnableInactiveReleaseInLoop">> ELSE <<>>

\* NewConnection in the connection's own loop: everything runs at once.
NewConnectionInline ==
  /\ owner.same
  /\ Idle("dispatch")
  /\ owner.accepting = "accepted"
  /\ owner' = [owner EXCEPT !.accepting = "done", !.owned = TRUE]
  /\ calls' = EnableFirst \o <<"EstablishedInLoop">>
  /\ UNCHANGED <<conn, turn, tasks, thread, sock, hist>>

\* NewConnection in the base loop for a connection of another loop: two tasks
\* are queued, one after the other, then the map takes the connection.
NewConnection(from, to, queued) ==
  /\ ~owner.same
  /\ Running
  /\ owner.accepting = from
  /\ owner' = [owner EXCEPT !.accepting = to, !.owned = to = "done"]
  /\ tasks' = tasks \o queued
  /\ UNCHANGED <<conn, turn, calls, thread, sock, hist>>

Accept ==
  \/ NewConnectionInline
  \/ NewConnection("accepted", "enabled", EnableFirst)
  \/ NewConnection("enabled", "established", <<"EstablishedInLoop">>)
  \/ NewConnection("established", "done", <<>>)

\* RemoveConnectionInLoop, in a RunAllTask of the base loop.
RemoveConnectionInLoop ==
  /\ Running
  /\ owner.removals > 0
  /\ owner.accepting = "done"
  /\ owner' = [owner EXCEPT !.removals = @ - 1, !.owned = FALSE]
  /\ UNCHANGED <<conn, turn, calls, tasks, thread, sock, hist>>

\* Another thread calls Send, Shutdown or Release.
Foreign(f) ==
  /\ Running
  /\ owner.held
  /\ owner.foreign < MaxForeign
  /\ owner' = [owner EXCEPT !.foreign = @ + 1]
  /\ Queue(f)
  /\ hist' = [hist EXCEPT !.hard = @ \/ f = "ReleaseInLoop"]
  /\ UNCHANGED <<conn, turn, calls, thread, sock>>

\* Another thread lets go of its PtrConnection.
DropConnection ==
  /\ Running
  /\ owner.held
  /\ owner' = [owner EXCEPT !.held = FALSE]
  /\ UNCHANGED <<conn, turn, calls, tasks, thread, sock, hist>>

PeerSends ==
  /\ Running
  /\ conn.open
  /\ sock.rx = "open"
  /\ sock.arrived < MaxRecv
  /\ sock' = [sock EXCEPT !.arrived = @ + 1, !.rcv = @ + 1]
  /\ UNCHANGED <<conn, turn, calls, tasks, thread, owner, hist>>

\* The peer closes its sending side, or the connection breaks.
PeerEnds(end) ==
  /\ Running
  /\ conn.open
  /\ sock.rx \in {"open", "eof"} \ {end}
  /\ sock' = [sock EXCEPT !.rx = end]
  /\ UNCHANGED <<conn, turn, calls, tasks, thread, owner, hist>>

Next ==
  \/ LoopStep
  \/ \E room \in BOOLEAN, timerfd \in BOOLEAN : Poll(room, timerfd)
  \/ OtherHandler
  \/ Accept
  \/ RemoveConnectionInLoop
  \/ \E f \in ForeignOps : Foreign(f)
  \/ DropConnection
  \/ PeerSends
  \/ \E end \in {"eof", "reset"} : PeerEnds(end)

Safety == Init /\ [][Next]_vars

\* epoll_wait returns when a task has been queued, or the connection or, in the
\* base loop, the listening descriptor is ready.
PollReady(room) ==
  /\ \/ tasks # <<>>
     \/ conn.monitored /\ Reported(room) # {}
     \/ owner.same /\ owner.accepting = "accepted"
  /\ \E timerfd \in BOOLEAN : Poll(room, timerfd)

\* Both loops run; a peer that does not break the connection goes on reading,
\* so that there is room for output again and again and send takes some of it.
\* The listening descriptor stays ready until its connection is accepted, so a
\* base loop that goes round handles it.
Fairness ==
  /\ WF_vars(LoopStep)
  /\ WF_vars(\E room \in BOOLEAN : PollReady(room))
  /\ SF_vars(PollReady(TRUE))
  /\ SF_vars(\E n \in 1 .. conn.out : HandleWrite(n))
  /\ SF_vars(Accept)
  /\ WF_vars(RemoveConnectionInLoop)

Spec == Safety /\ Fairness

-----------------------------------------------------------------------------
(***************************************************************************)
(* Properties.                                                             *)
(***************************************************************************)

Connections ==
  [statu : Status, events : SUBSET {"IN", "OUT"}, monitored : BOOLEAN, open : BOOLEAN,
   in : 0 .. MaxRecv, out : Nat, timer : {"none", "armed", "canceled"}]
Turns ==
  [phase : {"poll", "dispatch", "run"}, ready : SUBSET {"conn", "timer"},
   revents : SUBSET {"IN", "OUT", "HUP"}, batch : Seq(Functions)]
Threads == [eagain : BOOLEAN, failed : {"no", "assert", "destroyed"}]
Owners ==
  [same : SameLoop, accepting : {"accepted", "enabled", "established", "done"},
   owned : BOOLEAN, removals : Nat, held : BOOLEAN, foreign : 0 .. MaxForeign]
Sockets ==
  [rcv : 0 .. MaxRecv, rx : {"open", "eof", "reset"}, arrived : 0 .. MaxRecv, delivered : Nat]
Histories ==
  [promised : Nat, shut : BOOLEAN, hard : BOOLEAN, late : BOOLEAN, releases : 0 .. 2]

\* No input is counted that has not arrived.
TypeOK ==
  /\ conn \in Connections /\ turn \in Turns /\ thread \in Threads
  /\ owner \in Owners /\ sock \in Sockets /\ hist \in Histories
  /\ calls \in Seq(Functions) /\ tasks \in Seq(Functions)
  /\ sock.rcv + conn.in <= sock.arrived

Closed == conn.statu = "DISCONNECTED"

\* Shutdown is graceful: all that was in the output buffer when Shutdown looked
\* at it, what the message callback answered to the rest of the input included,
\* is handed to the kernel before the connection is released, unless an error,
\* a hang-up, the inactivity timer or an explicit Release cuts it short.
ShutdownFlushes == Closed /\ ~hist.hard => sock.delivered >= hist.promised

\* Between two callbacks the writable event is asked for exactly as long as
\* there is output: otherwise the output would wait for ever, or level-triggered
\* epoll would wake the loop without end.
WriteEventMatches ==
  calls = <<>> /\ conn.monitored => ("OUT" \in conn.events <=> conn.out > 0)

\* The poller never has an entry for a descriptor that is closed: the number
\* may by then belong to another connection.  (A Shutdown that arrives after the
\* release breaks this, see ReleasedUnmonitored.)
NoStaleChannel == conn.monitored => conn.open \/ hist.late

\* The event handlers and the message callback never run for a connection that
\* is released: Release only queues ReleaseInLoop, and its descriptor stays closed
\* from then on.  The one exception is a Shutdown that runs behind the release
\* (late): it undoes the status and calls the message callback, until the
\* connection is released once more.
NoCallbackAfterRelease ==
  Closed \/ (~conn.open /\ ~hist.late) =>
    Range(calls) \cap {"HandleRead", "HandleWrite", "HandleClose", "Message"} = {}

\* A connection that is being closed is closed in the end.
ShutdownEnds == conn.statu = "DISCONNECTING" ~> Closed

\* A connection that its peer has closed or broken is released in the end,
\* unless errno says EAGAIN from another call.
PeerGoneReleases == sock.rx # "open" ~> Closed \/ thread.eagain

-----------------------------------------------------------------------------
(***************************************************************************)
(* What the repository says, and the code does not do.                     *)
(***************************************************************************)

\* source/server.hpp, Channel::HandleEvent: "the operations that may release
\* the connection are handled one at a time".  ReleaseInLoop, and with it the
\* user's closed callback, then runs once.
ReleasedOnce == hist.releases <= 1

\* source/server.hpp, ReleaseInLoop: the user's callback comes before the
\* removal from the server, "so that the Connection is not released first and
\* handled afterwards".  No task runs on a connection that is destroyed.
NoTaskOnDestroyed == thread.failed # "destroyed"

\* source/server.hpp, ReleaseInLoop: "remove the event monitoring of the
\* connection", "close the descriptor".  The poller then has no entry for it.
ReleasedUnmonitored == conn.monitored => conn.open

\* source/server.hpp, EstablishedInLoop: assert(_statu == CONNECTING).
EstablishedOnNew == thread.failed # "assert"

\* source/server.hpp, HandleRead: 0 means that no data was read "and not that
\* the connection is closed; for that -1 is returned".  A connection closed by
\* its peer is then shut down and released.
EofReleases == sock.rx = "eof" ~> Closed \/ sock.rx # "eof"
=============================================================================
