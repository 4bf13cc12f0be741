# TLA+ models of the muduo-style server library

Models of `src/source/server.hpp`, a one-loop-per-thread TCP server library in
the style of muduo, of `src/source/http.hpp`, the HTTP server built on it, and
of what there is of a port of muduo itself in `src/src`; the TLC configurations
that check them, and TLAPS proofs of every safety property the runs check: of the
event loops, the timer wheel and its use, the connections, the server, the buffers,
the HTTP server over a stream and the answer to one request.

Line numbers below are those of `src/source/server.hpp` unless another file is
named. `PROJECT.json` holds the map from definitions to lines, the runs, the
faulty variants, the hazards and the findings in machine-readable form.

## 1. The system

| component | state | operations | talks to |
|---|---|---|---|
| `Buffer` (44-167) | vector, read and write offset | write, read, `GetLine` | used by `Connection` and by the HTTP parser |
| `Socket` (170-313) | descriptor | create, accept, `Recv`, `Send`, `Close` | the kernel |
| `Channel` (315-370) | descriptor, events asked for, events reported, callbacks | enable and disable, `HandleEvent` | `Poller`, its owner by callbacks |
| `Poller` (372-444) | epoll, table descriptor to channel | `UpdateEvent`, `RemoveEvent`, `Poll` | the kernel |
| `TimerTask`, `TimerWheel` (449-571) | 60 slots of `shared_ptr`, `_timers` of `weak_ptr`, the hand, a timerfd | add, refresh, cancel, `OnTime` | `EventLoop`; a task calls `Connection::Release` |
| `EventLoop` (573-685) | task pool with its mutex, eventfd, poller, wheel | `Start`, `RunInLoop`, `QueueInLoop` | every thread |
| `LoopThread`, `LoopThreadPool` (686-747) | threads and loops | `GetLoop`, `Create`, `NextLoop` | `TcpServer` |
| `Any` (750-800) | a value of any type | copy, `get` | connection contexts |
| `Connection` (807-1028) | status, channel, two buffers, inactivity flag, callbacks | establish, send, shut down, release, enable and cancel the inactivity release, upgrade | its loop, the server, the user |
| `Acceptor` (1030-1061) | listening socket and channel | `HandleRead`, `Listen` | `TcpServer::NewConnection` |
| `TcpServer` (1063-1133) | `_conns`, id counter, base loop, pool | new, remove, `RunAfter` | all of the above |
| `Util`, `HttpRequest`, `HttpResponse`, `HttpContext`, `HttpServer` (`source/http.hpp`) | parser state, routes | `RecvHttpRequest`, `OnMessage`, routing | `Connection`, `Buffer` |
| handlers of `source/main.cc` | files below the base directory | `PutFile`, ... | `HttpServer` |
| `EventLoop`, `Channel`, `EPollPoller`, `EventLoopThread`, `Thread` (`src/src`) | pending functors, `quit_`, `index_` of a channel, `loop_` | `loop`, `quit`, `queueInLoop`, `updateChannel`, `startLoop` | each other, epoll |
| `Buffer` (`src/src`) | vector, offsets, a few bytes kept free in front | `append`, `retrieve`, `readFd` | nobody yet |

Interaction. The base loop accepts; `NewConnection` makes a `Connection` for a
loop chosen round-robin and, if that is another thread's loop, hands it
functors through the task pool (`RunInLoop` runs inline on the loop's own
thread and queues elsewhere). The loop of the connection dispatches its events
by `Channel::HandleEvent`, which calls `HandleRead`, `HandleWrite`,
`HandleClose` or `HandleError` and then the any-event callback, which refreshes
the inactivity timer. `Release` only queues `ReleaseInLoop`, which closes the
descriptor and asks the base loop to drop the connection from `_conns`, the map
that owns it. Functors hold the connection by a raw pointer.

What is hard here:

* concurrency: pushes to the task pool against the swap and against
  `epoll_wait`; functors of other threads queued behind a release; the two
  tasks of `NewConnection` against a timer of the worker loop;
* ordering and lifetime: several releases of one connection, functors and timer
  tasks with raw pointers, handlers that still run in the turn in which a
  release was asked for, descriptors whose number is used again;
* time: expirations that a busy loop has not read, refreshes that leave old
  pointers behind, delays that wrap round the wheel;
* stale data: `errno` after a successful `recv`, weak pointers, a cancelled
  task found again;
* data: partial sends, input and output left over at shutdown, requests split
  or joined by TCP, escaped characters, offsets that wrap in a vector;
* recursion: a request that ends a connection calls `Shutdown`, which calls the
  message callback, which finds the next request;
* start and end: loops published by new threads, a `quit` that comes too early,
  a `loop_` that is read without its mutex.

What makes each part correct: the loop executes every functor once and in order
and never sleeps on work; the wheel runs a task its delay after its last
refresh and never before; an inactive connection is released, an active one is
not; shutdown flushes the output and ends; a release happens once, after which
neither handler, poller, timer nor map knows the connection; the map leaks
nothing; bytes come out of a buffer once and in order, and its memory is
bounded; the HTTP server answers the requests of a stream in order, however TCP
cuts it, and leaves nothing of one request in the next. `PROJECT.json` lists under `hazards` the lines where each of these
could go wrong.

## 2. Modules

| module | what it is |
|---|---|
| `TaskPool` | abstract: what a loop promises to those who hand it functors |
| `EventLoop` | `Start`, `RunAllTask`, `RunInLoop`, `QueueInLoop`, eventfd; implements `TaskPool` |
| `EventLoopProofs` | theorems about `EventLoop` |
| `DeadlineTimers` | abstract: a table of deadlines |
| `TimerWheel` | slots, shared and weak pointers, timerfd; implements `DeadlineTimers` |
| `TimerWheelProofs` | theorems about `TimerWheel` and `InactiveRelease` |
| `InactiveRelease` | extends `TimerWheel` with the connections that use it |
| `Connection` | one connection, its channel, its socket, the turn of its loop, the base loop, other threads and the peer |
| `ConnectionProofs` | theorems about `Connection` |
| `ByteQueue` | abstract: what a buffer promises |
| `Buffers` | the two `Buffer` classes, as offsets over a vector; implements `ByteQueue` |
| `BuffersProofs` | theorems about `Buffers` |
| `HttpSession` | abstract: the answers a stream of requests deserves, by a parser that sees all of it |
| `HttpText` | the pieces of text the HTTP models tell apart |
| `Http` | `HttpContext`, `OnMessage` and the shutdown of one connection; implements `HttpSession` |
| `HttpProofs` | theorems about `Http` |
| `Util` | the pure functions of `Util` |
| `Routing` | one request from its line to its response: parsing, files, routes, headers |
| `RoutingProofs` | theorems about `Routing` and the functions of `Util` |
| `Server` | `TcpServer`, `Acceptor`, `LoopThread`, `LoopThreadPool`, the pollers of all loops |
| `ServerProofs` | theorems about `Server` |
| `PortLoop` | event loop, poller and thread of the port; implements `TaskPool` |
| `PortLoopProofs` | theorems about `PortLoop` |
| `MC...` | instances for TLC |

How they compose. A module that stands on another takes its promise and not its
steps: `Connection` and `Server` run functors in order and once (`TaskPool`, which
`EventLoop` implements); `Connection` has a timer that may run out
(`InactiveRelease` says when); `Server` knows of a connection what `Connection`
does to the poller and to `_conns`; `Http` has of a connection what `OnMessage`
can tell (status, output left, release), and reads its input as a queue of pieces
(`ByteQueue`); `Routing` begins where `Http` has found a complete request.
`TaskPool` is implemented twice, by the loop of each library.

Each module has a section of *faulty variants*: definitions that a plausible
mistake in the code would lead to. They are not part of the specifications; a
property is kept only if putting a variant in the place of the original breaks
it.

### EventLoop

`tasks` is `_tasks`, `functor` the rest of the local vector of `RunAllTask`,
`eventfd` whether the counter is positive, `waking` the threads that are
between the push of `QueueInLoop` (670-671) and its write (675), `actives` the
channels still to be handled in this turn, `pc` the place in `Start`. The steps
are the points between which another thread can run: push and write are two,
the read of the eventfd (`ReadEventfd`, an ordinary channel) and the swap under
the lock (`RunAllTask`) are two. A functor that is run inline by `RunInLoop` on
the loop thread is part of the callback that calls it. `Poll` chooses which
other channels are ready; the eventfd is among them whenever it is readable,
unless `MaxEvents` others fill the array. `PollInterrupted` is the return at
430-431.

Properties: `NoLostWakeup`; `IInv`, its inductive strengthening; `PollAgain`
(functors that queue functors do not starve descriptors); `ImplementsTaskPool`
and `TasksStarted`, the safety and liveness half of the refinement of
`TaskPool` under `pool <- functor \o tasks`.

Fairness: `WF` of the write that follows a push (a running thread is scheduled),
`WF` of the steps the loop thread takes by itself (callbacks and functors
return), and `WF` of a `Poll` while the eventfd is readable (`epoll_wait`
returns then). Nothing is assumed of other descriptors or signals.

### TimerWheel

`wheel[s]` is the set of the tasks that slot `s` holds a `shared_ptr` to, and a
task is alive as long as some slot holds it; how often one slot holds it makes
no difference since `clear()` drops the slot as a whole. `timers` are the keys
of `_timers`, `delay` and `canceled` fields of the last task of an id, `fired`
and `clock` (the kernel's seconds, modulo the capacity) history variables. `expirations` is the counter of the timerfd, `todo` what
the loop in `OnTime` has left to do: while it is positive nothing else runs, as
the wheel belongs to one thread. Callers of `TimerAddInLoop` check `HasTimer`
(945) or use a fresh id (1085). The `_capacity` of 60 is the constant
`Capacity`.

Properties: `TimersAlive`, `IInv`; `HandOnTime`: the hand is behind the kernel's
clock by the expirations that are not worked off, so that no tick of a burst is
lost; `ImplementsDeadlines` and `DeadlinesReached`: the refinement of
`DeadlineTimers` under `left <- Remaining`, the distance from the hand to the
furthest slot that holds the task, counted in ticks. `Least <- Wrapped` says what the code does with delays that do not
fit: a delay `d` waits `d` ticks if `1 <= d <= Capacity`, and `d` modulo
`Capacity`, or the whole `Capacity` for 0, otherwise.

Fairness: the kernel's clock runs, the loop comes back to the timerfd, `OnTime`
runs to its end.

### InactiveRelease

Extends the wheel by the connections of the loop: `enabled` is
`_enable_inactive_release`, `releasing` the queued `ReleaseInLoop` calls,
`released` those that have run. The histories `idle` (real seconds without an
event), `lag` (expirations not worked off at the last refresh) and `served`
relate the wheel to the clock. `Enable`, `Cancel` and `Release` of other threads may
lie in the task pool behind `ReleaseInLoop` and run on the released connection;
`late` is the history of those that were enabled so. Events end with the release,
which takes the channel out of the poller.

`IdleAccounted` is the exact account: remaining ticks plus idle seconds plus
`lag` equal the delay plus the expirations still to be worked off. It bounds
both sides: no connection outlives its delay once the loop has caught up, and
none is released earlier than `lag` seconds before. `NoCallbackAfterRelease`:
every task that is left of a released connection is cancelled, so that the raw
pointer in it is never used, unless it is `late`: an `Enable` that runs behind the
release does arm the timer (`ReleasedUncalled`, below). `SilentReleased`: who falls silent is released.

Fairness adds `SF` of `ReleaseInLoop`: it waits in the task pool and is disabled
and enabled again by `OnTime`; every turn of the loop ends with `RunAllTask`
(`TasksStarted` of `EventLoop`), so it is not put off for ever.

### Connection

The loop thread is a stack machine: `calls` lists the functions still to run
and each action runs the first one up to the calls it makes. That keeps the
order in which the code nests `HandleRead`, `ShutdownInLoop`, the message
callback and `Release`, with the user's callback (`Message`) free to take any
part of the input and to call back as `UserOps` says. `conn` is the object,
`sock` the socket and the peer, `turn` the loop's turn, `tasks` its pool,
`owner` who holds a shared pointer and how far the base loop is, `thread` the
`errno` (`eagain`) and the end of the program, `hist` histories. Data is counted
in units. `owner.same` is chosen at the start, out of `SameLoop`: in the base
loop `NewConnection` and `RemoveConnectionInLoop` run inline, otherwise they are
tasks and interleave with the worker loop.

`thread.failed` records where the program would stop: `"assert"` at 895,
`"destroyed"` when a functor runs on a connection nobody holds (undefined
behaviour from there on, so the model stops).

Abstractions: the inactivity timer is `none`, `armed` or `canceled` and may run
out in any turn in which the timerfd is handled; `InactiveRelease` has the
delays. `OtherHandler` is any other descriptor's handler of the thread leaving
another `errno`. `epoll_wait` may return at any time for other reasons.

Fairness: both loops run; `epoll_wait` returns when a task is queued, the
connection or the listening descriptor is ready; an accepted connection is
handled (`SF`, the listening descriptor being level-triggered); `SF` of a poll with room in the send buffer and of a
`HandleWrite` that makes progress: a peer that does not break the connection
goes on reading. A peer that stops reading for ever keeps a closing connection
open for ever; the code has no timeout of its own for that besides the
inactivity release.

### Buffers

One behaviour is the life of a buffer of either kind (`kind`). `buf` is the
vector with its size and the two offsets, `data` the bytes the last call moved.
`WriteStringAndPush` and `WriteBufferAndPush` are `WriteAndPush` of the same bytes.
The calls keep to the assertions of the code (no more is read than there is);
lengths of zero, which change nothing, are left out, and `readFd` that fails too.
The vector of the port keeps `Prepend` bytes free in front; `readFd` offers
`ExtraBuf` bytes on the stack behind the vector only if the vector's own space is
smaller.

Properties: `OffsetsInOrder`, `MemoryBounded` (a connection that lives for ever
does not let the vector grow for ever) and `ImplementsByteQueue` under
`queue <- Contents(buf)`.

### Http

A stream is a sequence of pieces: a request line (`"get"`, `"lost"` for one
answered 404), the headers the server looks at (`"keep"`, `"len0"`, ..., `"lenX"` for
a length that is no number), the newline, and `"x"` for anything else;
`HttpText` says what a line made of them is. `context` is the `HttpContext`,
`calls` the stack of functions under way: `OnMessage`, the three stages of
`RecvHttpRequest`, which fall through (`RecvHttpHead` once for every line), the
handling of the result, `Shutdown` up to the message callback and `Flush`
behind it. The real limit of a line, 8192, is `MaxLine`. A negative length (`"lenM"`) becomes
a `size_t` larger than any stream, `SizeMax`. `stol` that throws ends
the program (`aborted`), as nobody catches. `statu`, `outbuf` and `releasing` are
what is left of the connection; its input may arrive in any pieces
(`HandleRead`), end (`HandleReadEnd`) or break (`HandleClose`).

Properties: `ImplementsSession` (under `pending <- taken \o inbuf`),
`NothingLeftBehind`, `NestingShrinks`, `OnMessageReturns` and `LastAnswerReleases`.
`HttpSession` is no restatement of the parser: it has no stages, looks at all
unanswered bytes together and finds the lines, the first header of each kind and
the body by their positions.

Fairness: `WF` of the handlers (they are code that runs on), `SF` of `HandleWrite`
(the peer reads on, as in `Connection`) and of `ReleaseInLoop` (`TasksStarted` of
`EventLoop`); both are disabled while a handler runs.

### Util and Routing

`Util` has the pure functions over sequences of bytes: `Split`, `UrlEncode`,
`UrlDecode`, `HEXTOI`, `ExtMime`, `ValidPath`. `Routing` takes a request through
`ParseHttpLine`, `ParseHttpHead`, `IsFileHandler`, `FileHandler`, `Dispatcher`,
`WriteReponse` and the decision to close, with one `HttpContext` for one request
after another, any registration of handlers before `Listen`, and files that may
vanish between `stat` and `open`. A client either writes a request it means by
`UrlEncode`, or sends a target as it pleases (`RawTargets`). Patterns are the sets
of the paths they match; the regular expression of the request line is assumed to
split it as it says; `HTTP/1.0` is not told apart, nor does the code.

Properties: `ParamsArrive` relates what a client meant to what the handler sees,
through encoding, splitting and decoding and across requests; `HeaderSaysClose`
the header sent to the decision taken; `PlainFilesBelowBase` every file sent to the
way its path takes through the directories. `Level` counts as the file system does,
where `.` leads nowhere; `ValidPath` counts it as one level down, so the property is
about ways without a `.`, and fails for the others (`FilesBelowBase`, below).

### Server

Loop 0 is the base loop. `loop`, `threads` and `notified` are the publication of a
worker's loop by `ThreadEntry` against the condition variable of `GetLoop`;
`pool` is the task pool of each loop, `batch` what the base loop has swapped out,
`channels` and `interest` each poller's table and its epoll set, `conns` the keys
of `_conns`, `backlog` what the kernel has for `accept`. The base loop's turn is
split where other threads can see it: `Accept`, `Insert` (the connection enters
`_conns` after it was handed to its worker), `RunAllTask`, `BaseTask`. The kernel
gives out the smallest free descriptor number, at once again after a close; it
drops a closed descriptor from every epoll. `RemoveEvent` goes by the number only,
whosever it is by now. `Id()` narrows to an `int` of `IntMax`. `RunAfter` draws its
timer's id from the same counter as the connections; it is there for that and
has no property of its own. `strangers` says whether a thread other than the
connection's calls `Shutdown`.

Properties: `ChannelsMatch` (table, epoll set and connections agree in every loop
although numbers are used again; without strangers, see below), `LoopsPublished`,
`Starts`, `ReleasedForgotten`.

Fairness: every thread is scheduled. Clients need not connect or close; that
`accept` blocks is a fair behaviour.

### PortLoop

The thread of an `EventLoopThread` with its loop, poller and two channels, and the
owner of the object. `index` is `index_`, `interest` what epoll watches,
`pending`, `functors`, `calling`, `quit` the members of the loop. The socket's
channel stands for any the user makes; its callbacks, functors and the
`ThreadInitCallback` do whatever the user may (`Calling`): queue functors, quit,
change, update or remove the channel. `Channel::update` and `remove` have empty
bodies, so the eventfd never reaches epoll: the model shows what then holds
(`FunctorsRun`, by the timeout of `poll`) and what does not need it. `Update`
ends the program where `epoll_ctl` of an add or a modification fails.

Properties: `IndexMatches`, `WritersWatched`, `ImplementsTaskPool`, `FunctorsRun`,
`QuitEndsLoop`.

Fairness: the threads run, callbacks return, `poll` ends after `kPollTimeMs`. The
owner need not destroy the object, but a destructor that has begun goes on.

## 3. Runs

| run | question | instance | states |
|---|---|---|---|
| `loop` | is a wake-up ever lost, does the loop implement the pool, does it go on? | 2 foreign threads, 2 functors, 2 channels, 3 functors in the pool, event array of 2 | 3 568 |
| `wheel` | does the wheel implement deadlines, does it lose no tick, does it go on turning? | 2 timers, 3 slots, delays 0 to 4, 2 unread expirations | 75 843 |
| `inactive` | is idleness accounted for, is no dead connection called, is a silent one released? | 1 connection, 3 slots, delays 2 and 3, 2 unread expirations | 59 670 |
| `conn_safety` | does Shutdown flush, does the writable event match, does a release leave anything behind? | base loop or worker loop, inactivity timer, 1 unit of input, 2 of output, 1 request of another thread | 2.07 million |
| `conn_live` | does every closing connection close, does one whose peer has gone? | base loop or worker loop, 1 unit each way | 8 700 |
| `buffers` | does every byte come out once and in order, in bounded memory? | initial size 2, 4 unread bytes, writes of 3, 1 byte in front, `extrabuf` of 1 | 13 832 |
| `http` | are requests answered alike however the stream is cut, does everything return and close? | all streams of up to 5 pieces out of 5, and 10 longer ones; lines of up to 3 pieces | 178 739 |
| `routing` | does what the client meant arrive, do header and closing agree, which files are sent? | 2 registrations out of 4, targets of 1 or 2 characters out of 9 and some longer, 1 header, any sequence of requests | 79 728 |
| `server` | do pollers and connections agree, do the loops start, is every release forgotten? | no worker or 2, 2 descriptors, 3 clients, 3 releases, 1 timer, an `int` up to 3 | 197 996 |
| `port` | does the poller's index match, is every functor run once and in order, does quit end the loop? | 2 functors handed over 3 times | 76 882 |
| `conn_destroyed`, `conn_eof` | the repository says one thing and the code does another | the smallest instance that shows it | |

Why the bounds are enough. Loop: two threads and the loop's own are enough for
every pair of pushes around a swap, three pooled functors for a batch and a
remainder; with two channels and an array of two the eventfd comes first, last
or not at all. Wheel: three slots with delays up to four have every case of
`Wrapped` (zero, fitting, equal to the capacity, beyond it), and two
expirations make a burst; the theorems remove the bounds. Inactivity: a
connection's account does not depend on the others', as the theorem confirms. `MaxIdle` is `Capacity + 2 * MaxLag`, more
than any enabled connection can reach, so the cap hides nothing (it is an
assumption of the module). Connection: two units of output give sends that take
none, some or all, one of input gives callbacks that take it or leave it, and a
foreign request falls between any two steps. Buffers: vectors from 2 to 7 bytes
have every relation of a write to the space behind and in front (fits, just fits
after a move, is one too long), twice over; a write of three exceeds the initial
size. Http: three pieces make a line complete, too long when complete, or too
long already; five pieces hold two requests or a request with a header and a
body, and the longer streams pipeline three requests, put a request behind an
error and two lengths into one request. Routing: escapes and separators act on
one character and the two behind it, which the texts have in every position (the
theorems remove the bound);
two routes make the order of registration matter. Server: two descriptors and
three clients make the kernel use a number again while functors for its last
owner are queued, in the same loop and in the other; ids up to four pass the
`int` of three. Port: two functors make an order, the third is queued while they
run.

`NoStaleChannel` makes an exception for `hist.late`, a Shutdown that runs on a
released connection, which breaks it (see `ReleasedUnmonitored` below). The
exception is that one request and nothing else. `NoCallbackAfterRelease` of
`Connection` makes the same one: from the release on nothing calls back, but after
a late Shutdown only as long as the status is `DISCONNECTED` (again). `ChannelsMatch` is stated for servers without strangers
for the same reason. `ReleasedForgotten` allows for a base loop that sits in
`accept`, and for the ids that fit an `int`.

Deadlock is not checked where the program really stops: in the runs of
`Connection` (a failed assertion, an object used after its destruction), in `http`
(the connection is released, or the exception of `stol` ends the program), in
`server` (a base loop blocked in `accept` when the clients are used up) and in
`port` (the loop has ended and its owner has gone, or waits for it in vain).

### Where the repository says otherwise

Two disagreements are runs and findings of `PROJECT.json`:

* `conn_destroyed` - read and write callback of one event, or several callers,
  queue several `ReleaseInLoop`; the first has the connection destroyed, the second
  runs on its raw pointer.
* `conn_eof` - `Recv` reads an `errno` that `recv` did not set: the end of the
  stream passes for "no data" as long as the thread's last error was `EAGAIN`.

The others can be seen by running the named configuration, in which TLC finds the
one property violated:

| configuration | property | what the code does |
|---|---|---|
| `MCInactiveRelease_lag` | `ReleasedOnlyIdle` | `client4.cc` argues that a connection handled behind a very slow handler is safe because the event refreshes it; the refresh starts from the tick that has been processed, and the expirations waiting in the timerfd shorten the new delay by as much |
| `MCInactiveRelease_reenable` | `EnabledHasTimer` | cancelling and enabling again finds the cancelled task (945-947) and refreshes it: no timer will release the connection |
| `MCInactiveRelease_late` | `ReleasedUncalled` | 909 says that `ReleaseInLoop` cancels the task that is left; an `EnableInactiveRelease` of another thread queued behind it adds one with a raw pointer to the released connection if the wheel has none (940-949) |
| `MCConnection_twice` | `ReleasedOnce` | every `ReleaseInLoop` that was queued runs in full |
| `MCConnection_early` | `EstablishedOnNew` | a worker whose wheel ticks between the two tasks of `NewConnection` releases the connection before `EstablishedInLoop`, whose assertion then fails |
| `MCConnection_late` | `ReleasedUnmonitored` | a `Shutdown` queued behind `ReleaseInLoop` undoes `DISCONNECTED`, runs the message callback, accepts output and registers the closed descriptor again |
| `MCHttp_close` | `NothingAfterLast` | 951-953: a short connection is shut down, but the loop goes on and answers the requests behind the last one |
| `MCRouting_405` | `NoHandlerIs405` | 886 speaks of 405; without a handler the answer is 404 |
| `MCRouting_dot` | `FilesBelowBase` | `http.hpp` 353-356 and 366: no path may lead above the base directory; 371 counts `.` as one level down, so `/./../a` is let pass and answered with a file above it |
| `MCRouting_length` | `LengthOnOpen` | `http.hpp` 779 completes the header fields; an empty body (404, `PutFile`) gets no `Content-Length` (788), also on a connection that stays open, where the client waits for its end |
| `MCServer_deaf` | `ConnectedWatched` | with `Shutdown` from other threads a stale `ReleaseInLoop` or channel takes the events of the next connection with that number |
| `MCServer_accept` | `AcceptReturns` | the listening socket is blocking: a client that gives up between `epoll_wait` and `accept` blocks the base loop |

Also seen while modelling: `UrlEncode` turns every byte from 128 on into `%FF`
(`EncodeChar`; nobody calls it). An error answer says `Connection: keep-alive` if
the request did, although 937 closes (so `HeaderSaysClose` leaves error answers
out). A negative `Content-Length` becomes a huge `size_t` (`http.hpp` 460): the server
takes the rest of the stream for the body. `TimerRefreshInLoop` would turn a delay of
2^31 or more into a negative number (539); delays of that size are left out. In the
port, a `quit` before `loop()` has reset `quit_` is lost and the destructor joins for
ever (`DestructorReturns` of `PortLoop` is false; `QuitEndsLoop` is what holds).

## 4. Proofs

All theorems are about every behaviour, fair or not, for every value of the
constants that satisfies the assumption the module names. Each is an inductive
invariant or a refinement; the mutants of the property show that TLC can tell
the code from a mistake in it, the theorem that no larger instance is different.

`EventLoopProofs` (from `EventLoopAssumption`: the loop thread is not a foreign
thread, the eventfd's channel is not another one, both bounds are positive):

* `Invariance`: `Safety => []IInv`. `NoLostWakeup` alone is not inductive: it
  speaks of `epoll_wait` only. `WakeupOwed` extends it to every control point: a
  functor in the pool has the eventfd readable, or a thread about to write, or
  the loop at a place from which it reaches the swap before it blocks.
  `ReadEventfd` is the critical step: it clears the eventfd, and the swap is
  still ahead in the same turn. `BatchLocal` says where the batch and the loop
  thread's own pushes can exist.
* `WakeupNeverLost`: `Safety => []NoLostWakeup`.
* `LoopImplementsPool`: `Safety => ImplementsTaskPool`. A push appends to
  `functor \o tasks`; the swap leaves it unchanged because the batch is empty
  there (`BatchLocal`); a start takes its head. What that means for sequences is
  proved first, as each proof module begins with the facts about sequences and
  numbers that it needs.

`TimerWheelProofs` (from `TimerWheelAssumption`: a positive capacity, delays in
`Nat`, a positive bound on unread expirations):

* `Invariance`: `Safety => []IInv`, with `WithinDelay`, that no pointer lies
  further ahead than the delay of its task. It is what makes the newest pointer
  the last to go. The arithmetic of the hand (`ModUnique`, `AheadTick`,
  `AheadOfPos`) is proved for every capacity.
* `WeakPointersAlive`: `Safety => []TimersAlive`.
* `HandAlwaysOnTime`: `Safety => []HandOnTime`, for every capacity and however many
  expirations one read returns: adding one before or after taking the remainder is the
  same (`ModNext`).
* `WheelImplementsDeadlines`: `Safety => ImplementsDeadlines`, by one lemma for
  each way in which `Remaining` changes: a pushed pointer makes it the wrapped
  delay, a tick takes one off.

`TimerWheelProofs`, on `InactiveRelease` (from the same and
`InactiveReleaseAssumption`: delays between 1 and the capacity, and a `MaxIdle` no
account can reach):

* `NeverCalledAfterRelease`: `SafetyAll => []NoCallbackAfterRelease`, which is
  inductive: a released connection gets a timer only by a late `Enable`, a refresh
  leaves a cancelled task cancelled, and `ReleaseInLoop` cancels what is left.
* `IdleAlwaysAccounted`: `SafetyAll => []IdleAccounted`. The invariant
  `AccountInv` adds that of the wheel, which holds because every step of a
  connection is one of the wheel (`WheelStep`). `WithinDelay` makes a refresh set
  the whole delay (`SetAnew`), `Remaining` falls by one with each tick, and the
  account itself shows that the count of idle seconds never meets its bound.

`ConnectionProofs` (from `ConnectionAssumption`: callbacks and other threads may ask
for anything the module knows of, as often as the bounds allow, whatever they are).
The invariant `IInv` has five parts, proved together because each needs others:

* `TypeOK`, with `in <= arrived`: a message callback cannot take what has not come.
* `StackInv`: what the loop runs in which phase of its turn. `ReleaseInLoop` never
  meets a handler on the stack, since handlers run while events are dispatched and
  functors behind them; behind a function of `Final` nothing is left to run.
* `WriteInv`: the writable event is asked for exactly while there is output.
* `ReleaseInv`: a released connection is closed, out of the poller, not among the
  channels still to be handled, and has no callback on the stack. A descriptor is
  closed only with the status `DISCONNECTED`, until a late `Shutdown` undoes it.
* `FlushInv`: what was promised at `Shutdown` is delivered or in the buffer, and a
  release that has happened, runs or is queued (`ReleasePending`) had a reason to
  drop output or found all of it delivered. The queue has to be in it: the release is
  decided in `HandleWrite` or `ShutdownTail` and happens in a later step.

`ReturnsWith` and the lemmas behind it say what a return does to the stack; then
there is one lemma for each step and each part it can disturb. The theorems are
`Types`, `WriteEvents`, `ChannelsOpen`, `QuietAfterRelease` and `GracefulShutdown`,
each `Safety => []P` with one of the properties of `conn_safety` for `P`.

`BuffersProofs` (from `BuffersAssumption`: positive initial size and extra
buffer, no single write larger than `MaxWrite`): one invariant, `IInv`, with a lemma on what
each operator does to size, offsets and unread bytes (`MovedEffect`,
`ResizedEffect`, `PushedEffect`, `TakenEffect`) and one on each kind of step.

* `OffsetsStayInOrder`: `Spec => []OffsetsInOrder`.
* `MemoryStaysBounded`: `Spec => []MemoryBounded`. It needs the bound on the
  unread bytes: the vector grows only if they and the new ones do not fit, also
  after they have been moved to the front.
* `BuffersImplementQueue`: `Spec => ImplementsByteQueue`: what is written goes
  behind `Contents(buf)`, what is read is its beginning.

`PortLoopProofs`:

* `IndexAlwaysMatches` and `WritersAlwaysWatched`, inductive together: an
  `epoll_ctl` succeeds because the index is right, and the index stays right
  because the `epoll_ctl` has succeeded.
* `PortLoopImplementsPool`: `Spec => ImplementsTaskPool`, by the argument of the
  other loop, with the batch of `doPendingFunctors` for that of `RunAllTask`.

`ServerProofs` (from `ServerAssumption`: counts and descriptors are numbers):

* `LoopsAlwaysPublished`: `Spec => []LoopsPublished`. `PublicationInv` says that at
  most the last thread created has its loop still to publish, and that nothing is
  made or queued for a worker while the server starts.
* `ChannelsAlwaysMatch`: `Spec => []ChannelsMatch`. That table, epoll set and
  connections agree (`Matches`) is kept by a step only if no functor in the queue is
  about the former owner of a number that has a new one. `ConnInv` says that two
  connections share a number only if one of them is released; `WorkerInv` and
  `BaseInv` that a `Release` in the pool of a loop, or in the batch of the base loop, is
  about no number that another connection of that loop has, and that nothing behind a
  task that establishes a connection has its number. So a second `ReleaseInLoop` of
  one connection finds its number without a channel. With strangers this fails
  (`MCServer_deaf`), and the invariant is about servers without them.

`HttpProofs` (from `HttpAssumption`: streams are sequences of the pieces of
`HttpText`, the length of a line is bounded by any natural number). The streams are
of any length, in any order, and arrive in any portions.

* `CoreHolds`: `Spec => []CoreInv`, the types, how far the parser is at each of its
  functions (`StageInv`), and the shape of the stack (`NestingInv`): which function has
  called which (`Callers`), with as many calls of `Flush` on it as there are calls of
  `Shutdown` that have not returned.
* `NestingAlwaysShrinks`: `Spec => []NestingShrinks`. A call of `Shutdown` follows a
  complete request or an error, and either has taken at least one piece since the
  call around it: `NestingInv` says that as long as none has been taken, the context
  is neither `OVER` nor has all of its body.
* `ParserHolds`: `Spec => []IInv`, with `ParseInv`: what the context keeps between two
  reads is what a parser of all unanswered bytes thinks of the lines up to there
  (`Heads`), and `WaitInv`: where the functions of the parser return without a result,
  that parser has none either. The lemmas on `HttpSession` say what more input at
  the end, and one more line, do to `Verdict`, `FirstHeader` and `Message`; they need no
  induction, as `HttpSession` finds lines by their positions.
* `NothingIsLeftBehind`: `Spec => []NothingLeftBehind`.
* `ServerImplementsSession`: `Spec => ImplementsSession`. `HandleRequest` is `Answer`,
  `HandleError` is `Refuse`, `HandleRead` is `Receive`, and every other step leaves the
  unanswered bytes and the answers as they are.

`RoutingProofs` (from `RoutingAssumption`: the texts are sequences of bytes, what a
client means is made of characters below 128, and handlers are those of `main.cc` and
one that redirects). Requests, paths and lists of parameters are of any length, and
files, patterns, types and base directory are arbitrary. The restriction to ASCII is
the code's: of a byte from 128 on `UrlEncode` keeps nothing. It concerns `Meant` only,
`RawTargets` are any bytes.

The functions within `Split`, `UrlDecode`, `SetParams` and `FlattenSeq` are recursive,
and the provers cannot use an induction theorem that takes a predicate. So each is
described by a function on the places of a text (`SplitWalk`, `UrlDecodeWalk`,
`SetParamsWalk`, `FlatteningWalk`): that it exists is one induction (`WalkExists`), what
it yields at every place another, and an induction is about the *set* of the places
where a claim holds (`Upwards`, `Downwards`), which the least place outside of it
(`SmallestExists`) refutes. On that stand

* `RoundTrip`: `UrlDecode(UrlEncode(s, p), p) = s` for every ASCII text, by
  `DecodeOne`, one character at the place where it was written;
* `EncodeText`: no separator is left in an encoded text; `PairParts`, `QuerySplit` and
  `TargetParts`: so the first question mark ends the path, the separators end the
  parameters, and the first equals sign of each ends its name;
* `KeepsOneMore` and `ParamsKept`: of two parameters with one name the first is kept;
* `SplitAtSlash`: up to a slash, a path splits into the first parts of the whole, hence
  `ValidPathAtSlash`: at each slash at most half of the parts of a valid path are `..`,
  and `LevelOfPlain`: without a `.` the others each lead down;
* `ResponseWritten`: what `WriteReponse` adds to the headers a handler has set.

The invariant `IInv` has, besides `ParamsArrive`, `HeaderSaysClose` and the types
(`TypeInv`), `Fresh`: a line is parsed in a new context, without which the parameters of the last
request would stay; `Known`: a request that reaches `Route` has a method with a table;
`Checked`: a file is sent only for a path that `ValidPath` has passed. The theorems are `Types`, `WhatIsMeantArrives`,
`TheHeaderSaysIt` and `NoFileAbove`, each `Spec => []P`.

Model-checked only: liveness under fairness (`TasksStarted`, `PollAgain`,
`DeadlinesReached`, `SilentReleased`, `ShutdownEnds`, `PeerGoneReleases`,
`OnMessageReturns`, `LastAnswerReleases`, `Starts`, `ReleasedForgotten`,
`FunctorsRun`, `QuitEndsLoop`), which the prover does not handle, and the
counterexamples of section 3, which need no proof.

## 5. Not modelled, and the plan

Left out, with the reason:

* `TcpServer`, `Acceptor` and `EventLoopThreadPool` of the port: `TcpConnection` is
  missing, `EPollPoller.cc` has a `main` of its own, and since `Channel::update` does
  nothing the listening socket is never registered: there is no behaviour yet.
* `Any`: a typed box; its one hazard, `get` of another type, is an assertion.
* Logging (of both libraries), `Timestamp`, `InetAddress`, `CurrentThread`: no state
  that anything depends on.
* `Connection`: `Upgrade`, `SetContext` and the setters of the callbacks. They replace
  the functions whose effects `Message` chooses freely.
* `Socket`: the calls that create a socket abort the program if they fail; `Recv`,
  `Send`, `Accept`, `Close` are modelled where they are called.
* `Util`: `StatuDesc` is a table of texts; `ReadFile` and `WriteFile` are their
  outcomes (`Routing`).
* `main.cc`: the text of its pages.
* The client tests, the examples and prototypes, and WebBench (third-party): programs
  of their own that use the library, or nothing of it.

Next, in this order:

1. `UrlDecode` of texts that `UrlEncode` has not written: that a path which decodes to
   one with `..` in it is refused like the one written plainly follows from the order
   in which the code decodes and checks; how malformed escapes are read (`HEXTOI` takes
   every letter for a digit) is in the model, without a property of its own.
2. The rest of the port, when `TcpConnection` exists.
