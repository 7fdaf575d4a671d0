# A TLA+ model of async-lsp

`async-lsp` (crate under `src/`) is a framework for Language Servers and
Clients: a main loop that multiplexes one bidirectional message stream, socket
handles to talk to the peer, and a stack of tower-style middleware around a
user's service. This directory models the parts with concurrency, ordering and
bookkeeping in them, checks the models with TLC and proves the safety of the
main loop, of the Concurrency middleware, of the two together, of the message
codec, of the server's middleware stack, of the standard I/O pipes and of two
loops that forward to each other, for every value of their parameters.

## 1. Inventory

Paths are relative to the repository root (`src/src/lib.rs` in `PROJECT.json`).

| Component | State it keeps | Operations | Talks to |
|---|---|---|---|
| Main loop, `src/lib.rs:470-631` | `rx`, `tasks` (FuturesUnordered), `outgoing` (id → oneshot), `outgoing_id`, the sink's pending message, `flush_fut` | `run` (4 biased branches and an inner loop), `dispatch_message`, `dispatch_event` | polls the service, the handler futures, the streams; resolves the sockets' oneshots |
| Peer sockets, `src/lib.rs:705-860` | a sender of `rx`; a request future holds a oneshot receiver | `request`, `notify`, `emit`, drop of a request | any task or thread; feed `rx` |
| Concurrency, `src/concurrency.rs` | `semaphore` (weak references of an `Arc<AtomicWaker>` are the tokens), `ongoing` (id → abort handle), the registered waker | `poll_ready`, `call`, `notify` of `$/cancelRequest`, `ResponseFuture::poll`, its drop glue | the loop above, the service below, futures possibly on other threads |
| Codec, `src/lib.rs:330-460` | the buffered reader | `Message::read`, `Message::write` | the streams |
| Lifecycle, `src/server.rs` | `State` (Uninitialized … ShuttingDown) | guards on requests and notifications, `exit` | service below |
| Panic catching, `src/panic.rs` | none | wraps `call` and the future's poll | service below |
| Client monitor, `src/client_monitor.rs` | the socket, a thread per client process | spawns a thread at `initialize`, breaks the loop on `ClientProcessExited` | emits into `rx` from a thread |
| Router and omni traits, `src/router.rs`, `src/omni_trait.rs` | handler tables, user state | dispatch by method or type, default handlers | user's handlers |
| Forwarding, `src/forward.rs` | a socket; the future of each request | a socket used as a service: `call`, `notify`, `emit` | another main loop, as in `examples/inspector.rs` |
| Stdio, `src/stdio.rs` | std's lock guard, `prev_flags` of `O_NONBLOCK`, the registration with tokio | `lock`, `drop`, `try_into_tokio`, `poll_read`, `poll_write` | the kernel, tokio's driver, other handles on the same file description |
| Tracing, `src/tracing.rs` | none | wraps calls in spans | service below |

What is hard here:

- **One task, many waiters.** `run()` is a single future. What it does not poll
  does not move; which branch polls what, and who registers a waker where, is
  what decides whether the system can hang.
- **Sockets on other threads** queue events while the loop scans, stops, or has
  stopped; every request future must still resolve.
- **Drop order.** The middleware's semaphore works through field drop order:
  abort flag, waker, weak reference, each a step other threads can see.
- **Back pressure.** Writing is asynchronous; a new message is accepted while
  the previous one may still be unwritten; nothing else is polled in `feed`.
- **A peer that answers as it likes**: late, repeatedly, out of order, ids it was
  never sent, cancellations of requests that ended or whose id was used again.
- **Failure**: a write error, end of input, a `Break` of a handler, a panic.
- **Two loops back to back**: each is the other's service and its only sender,
  over pipes that fill up, and either may end first.
- **A flag shared by all**: `O_NONBLOCK` belongs to the file description, which
  two handles may share, and readiness is cached by tokio between system calls.

What makes each component correct:

- *Main loop*: each request is answered once; socket messages leave in order;
  responses reach their requester; no panic; whoever waits when the loop stops
  is resolved; the last messages are flushed after a Break; it does not hang.
- *Concurrency*: the limit holds; no waiter is left without a waker; the
  `ongoing` map is bounded and loses no running request; cancellation ends a
  request.
- *Lifecycle, panic, monitor, router*: handlers see a session in order, and a
  client that follows the protocol is never refused; `exit` ends the loop with
  the right result; a panic of a request ends in one response; the death of the
  client ends the loop.
- *Codec*: the stream of bytes behaves as a channel of whole messages, whichever
  way it is cut into reads and writes; a frame that is malformed or cut short
  ends it and yields no message.
- *Forwarding*: between its two ends the inspector is a channel each way, a
  response gets back under the id of its request, once, and a request is
  answered unless an end goes or the pipes jam.
- *Stdio*: the flags are as the process found them once the handles are gone and
  as the handles need them before; no poll puts its thread to sleep in a system
  call; no readiness is lost.

## 2. Plan

Order by importance. **Bold** is done.

1. **`Concurrency`**, with **`Concurrency_proofs`**: the semaphore and the
   cancellation table, down to the steps of drop glue.
2. **`MainLoop`**: the loop, the sockets, the sink and the peer.
3. **`ConcurrentLoop`**: composes 1 and 2 in one task, and is checked to
   implement both (`MiddlewareSpec`, `LoopSpec`).
4. **`ServerStack`**, with **`ServerStack_proofs`**: Lifecycle over CatchUnwind
   over the monitor over the Router, with the main loop as its callers see it.
5. **`Framing`**: `Message::write`, a pipe, `Message::read`, byte by byte; it
   implements **`Channel`**, the promise that `MainLoop` makes use of when it
   reads and writes whole messages.
6. **`Relay`**: two loops over bounded pipes, each forwarding to a socket of the
   other (`src/forward.rs`, `examples/inspector.rs`); each direction implements
   `Channel`, and the two loops can block each other in `feed`.
7. **`Stdio`**, with **`Stdio_proofs`**: locks, flags and readiness.
8. **`MainLoop_proofs`**: every invariant of `MainLoop` that a run checks.
9. **`ConcurrentLoop_proofs`**: `ConcurrentLoop` implements `MainLoop` and
   `Concurrency`, what it inherits from their theorems, its own invariant, and
   finding 1 for every limit.
10. **`Framing_proofs`**: `Framing` implements `Channel` for any sizes, headers and
    capacity.
11. **`Relay_proofs`**: `Relay` implements a `Channel` in each direction, and whose
    answer a peer gets, for any number of messages.

## 3. How the modules correspond to the code

### `Concurrency`

A member of `Futures` names a `ResponseFuture` and its abort handle. `stage`
follows it: `live` from `call` until it resolves or is abandoned, then the drop
glue in field order: `AbortOnDrop` sets the flag (`resolved` → `releasing`),
`SemaphoreGuard::drop` takes the waker (→ `waking` or `returning`) and wakes it
(→ `returning`), and only after that body returned is the `Weak` released (→
`none`) and `weak_count` decreases. `Tokens` are the futures whose guard exists.
`ongoing`, `aborted`, `waker` are the map, the abort flags and the `AtomicWaker`;
`notified` says the caller's task is scheduled.

`PollReady`, `RegisterWaker`, `Recheck` are the three steps of `poll_ready`;
`Call` is the whole of `call` (token, purge by `retain`, insertion, inner call,
which may panic); `Cancel` is `notify` for `$/cancelRequest`. `notify` and `emit`
of anything else do not touch this state. What a user of the middleware has to
keep to stands in `Next` and not in these actions: `CallerFree`, `MayCall`,
`MayNotify`, `DriverFree` (call after `Ready`, with a request that is not running,
one thing at a time in one task), so that a composition can use the actions and
has to show the conditions itself.

`Detached` are futures some other thread owns; only their drop steps interleave
with the steps of `poll_ready`. The main loop keeps every future in its own task
(`Detached = {}`), but the middleware is a public tower service whose futures
are `Send` when their parts are, so both uses are modelled.

### `MainLoop`

`pc` is the place in `run()`. In the outer `select_biased!` the branches are
polled in order `flush`, `tasks`, `rx`, `incoming`; one poll of one branch is an
action, and sockets, handlers and peer may move between them. `parked` and
`waiting` are the returns of `Poll::Pending` from the outer and from the inner
select; `Wake` is the executor polling again because a branch with a registered
waker moved. `feed` and `close` are the two awaits in which nothing else is
polled. `dispatch` and `drain` are the two branches of the inner loop.

`sink` holds the message `futures::sink::unfold` has accepted and not written;
`flush_fut` is live exactly while there is one, so it needs no variable.
`outgoing` and `outgoing_id` are the fields; the id wraps at `IdLimit`.
`rx` is the unbounded channel. `DropLoop` is what dropping `self` does when
`run()` returns or unwinds: receiver, tasks, and the oneshots go, and every
waiting request resolves with `ServiceStopped`.

External to the loop, as it uses them: the service (`busy`: its `poll_ready`
is pending; it may also return an error, and break the loop from `notify` and
`emit`), the handlers (`HandlerDone`), the peer (`PeerRequest`, `PeerReply`,
`PeerStray`, `PeerNotice`, `PeerReads`, `PeerBad`) and the streams (`inp`, `out`,
`broken`).

Abstracted: a message is written as a whole (a partial write is a write still
pending), and read as a whole (a partial read is nothing to read). Payloads are
gone; `from`, `for` and `ticket` are ghost fields that say whose message it is
and when it was queued. A poll with no reason (a spurious wakeup) finds every
branch as it was and parks again, so it is left out.

### `ConcurrentLoop`

`L == INSTANCE MainLoop` and `C == INSTANCE Concurrency` over the same task.
The loop's `busy` is *replaced* by `caller = "pending" /\ ~notified`. Awaiting
`poll_ready` in `dispatch` is `AwaitReady`; `DispatchCall` is `C!Call` together
with `L!Dispatch`; a completed or aborted future goes through its drop glue in
`pc = "tasks"` before its response is fed; a `$/cancelRequest` notification is
`C!Cancel` together with `L!ReceiveNotification`. Dropping the whole loop ends
the model (`tasks` is emptied by `DropLoop`; the middleware goes with it).

None of these steps has the conditions of `Concurrency`'s `Next` as a guard. That
the loop calls only after a `poll_ready` that was `Ready` (`DispatchCall` comes after
`AwaitReady` in the code of `dispatch_message`), never with a request that runs or
has an entry, and that it touches the middleware only while no future is in its
drop glue, is what `MiddlewareSpec` says of it; a loop that skips the wait
(`DispatchUnready`) violates it.

### `ServerStack`

The layers of `examples/server_builder.rs` and `server_trait.rs`: one request is
`Request` (Lifecycle admits or refuses it, the monitor may spawn its thread, the
router calls a handler, and CatchUnwind turns a panic into an error) followed by
`PollTask`, which is the loop polling the future it was given to its end.
`Notify` and `Emit` are calls of the same stack; `Conclude` is how the
`ControlFlow` they return, or their unwinding, goes on in `run()`, which drops
its futures and its queue when it ends. The loop may be `held` between any two steps
and for any time (`Hold`, `Resume`): it awaits `poll_ready` in `dispatch_message` or
room in `feed`, and neither polls `tasks` nor takes from `rx` or the input
meanwhile, while the monitor's thread, the client and the user's tasks go on. The
rest of the loop is left to
`MainLoop`: here a response is delivered once its future has resolved. The
concurrency layer stands between the panic and the monitor layer in the examples
and has its own module; it changes which requests run, not what they return.

`Handlers` are the names in the router's tables and `Defaults` those among them
whose handler is a default of the omni trait (`Fallback`, `DefaultAnswer`); what
a handler of the user's does is left open. A `future` says what the request
waits for (`handler`) or already holds. The monitor's thread is its own process:
`MonitorWakes` may come after the loop has ended.

History variables: `calls` counts which handlers the router has called; `session`
is where a client that follows the protocol stands, which knows only the answers
it got (`Asks`, `Tells`), and is `rude` from its first departure on. A client in
that state still sends anything in any order.

### `Framing` and `Channel`

The pipe carries header lines and single bytes of bodies, named by message and
position; a line that the writer left unfinished is one that has no CRLF. `Begin`
starts a frame with any header of `Headers` (`<<"exact">>` is what
`Message::write` sends, the others are foreign peers, good and bad), `Push`
moves one unit into the pipe, `Close` is the peer's end anywhere. `ReadLine` is
one turn of the header loop of `Message::read`, `ReadBody` one byte of its
`read_exact`, `Decode` the parse and the return. `read` suspended between polls
of the loop is the state between these steps: `stream::unfold` keeps the future,
so nothing is lost when another branch of `select_biased!` wins.

A body decodes exactly when it is the whole text of one message: a strict prefix
of a JSON object is no JSON text, nor is one with bytes of the next frame's
header after it. `Good` is the reference definition of a header; of several
lengths the last counts, as in the code. In `Channel`, `stream` is open, closed
or broken; the reader may end with an error only if it is broken, and only after
all messages written before that.

### `Relay`

Each loop of the inspector has the parts of `MainLoop` that forwarding uses; a
turn of a loop (one choice of its select and what follows, up to the next await)
is one action, because both loops run on one thread. `OnCall` is `call` of a
socket (`SendOther`, and a future in `tasks`), `DispatchRequest` the other loop
assigning its own id, `OnResponse` the oneshot that resolves the future
(`answers`), which `PollTasks` writes under the id the request came with. `End` is
what dropping a loop does to both: its oneshots close, which the futures of the
other loop learn as `Stopped`, and its service, a sender of the other's `rx`, is
gone. `kept` says whether somebody else holds a socket of each loop: in the
inspector nobody does, and `SenderGone` is the panic that follows. `MainReturns`
is the `select!` in `main`. The peers write a message as a whole and read nothing
while they wait to write, as a main loop does in `feed`; one of them may be
another async-lsp server. `Asks` and `Notifies` bound what each peer sends, and
`Mixes` which bounds of both may be reached in one behaviour, so that TLC can look
at several small loads in one run (the proofs leave it open).

`sent`, `asked`, `answered`, `got` and `heard` are histories: the calls each peer
made, how many were requests, which requests it answered, what it read, and the
ranks of the calls in that. The ranks (`at`, `for`) are ghosts in the messages; no
guard of a loop looks at them.

The loop's assertions, its Break from handlers and dropped request futures are in
`MainLoop` and not repeated here.

### `Stdio`

A member of `Handles` is one call of `PipeStdin::lock` or `PipeStdout::lock`;
`phase` follows what it returns. `Lock` goes up to `fcntl_getfl`, `SetNonBlock`
is `fcntl_setfl`; both may fail. `Restore` is `NonBlocking::drop` and `Unlock` the drop of the std
guard after it: other threads run between. `shared` is chosen at the start:
stdin and stdout are one file description in a terminal or over a socket.

`task[e]` is the loop of `poll_read`, `poll_write`: `PollReady` gets tokio's guard or
parks, `ReadOnce`, `WriteOnce`, `WouldBlock` are the outcomes of the system call,
`Clear` is `try_io` forgetting the readiness. `ready`, `stale`, `edge` are external:
tokio's cached readiness, its tick (an event came since the guard was taken) and
the kernel's edge-triggered report. `Drive` may run between any two steps.

`order` and `tangled` are history. `order[d]` is the stack of handles that have a
flag of description `d` to restore. Handles that are dropped in another order
than the reverse of their locking, or locked while another is between its two
`fcntl` calls, are `tangled`: then a flag read by one is the other's, and the last
restored may be wrong. The properties say what holds until then. `LocksSeparate`
says when it cannot happen, and that the locks keep the threads apart.

Definitions whose comment begins with "faulty" are variants of the definition
that follows, with a plausible bug. They are used by no specification: the
properties were checked to fail when they replace it (`mutants` in
`PROJECT.json`).

## 4. What the runs check

| Run | Instance | Shows |
|---|---|---|
| `concurrency_task` | limit 2, 5 futures, 5 ids, one task | `OngoingBounded`: the map never exceeds twice the limit. `LiveIsCancellable`: a running request keeps its entry through purges, cancellations and reuse of other ids. `NoLostWakeup`: whoever is parked in `poll_ready` has somebody left to wake it. |
| `concurrency_threads` | limit 2, 1 future in the task, 2 detached, 1 id, panics in `call` | `LimitRespected`, and `Ready` is still true at the call; `CancelTakesEffect`: an aborted request ends though its handler never does, and a token comes back however its request ends, by a panic of `call` too. |
| `concurrency_lost_wakeup` | limit 1, detached futures | violation of `NoLostWakeup` (finding 2). |
| `mainloop_safety` | 2 incoming, 2 outgoing requests, streams of capacity 1, one each of emit, notification, stray response, bad input or stream failure, Break; 2 replies per id | `RequestInOnePlace`, `SocketOrder`, `WaitersReachable`, `OwnReply`, `BreakFlushes`: the invariants that `MainLoop_proofs` proves, and where they can fail. |
| `mainloop_live` | 2 incoming, 1 outgoing request, a notification, an event whose handler may Break, and a bad message, the end of the input or a failing output; all sockets may be dropped | `RequestsServed`; `RequestersResolved`: whoever waits is resolved, by its response or as `ServiceStopped` when the loop stops first, by a Break, an error or the end of either stream; `FedIsWritten`. |
| `concurrent_loop` | limit 1, 2 incoming, 1 outgoing request, a cancellation, a Break | both refinements, `TasksHoldTokens`, `CancelledIsAnswered`, `ServedOrFull`. |
| `concurrent_loop_stuck` | limit 1, 2 requests | violation of `ServedUnderLimit` (finding 1). |
| `framing` | 3 frames, bodies of 1 and 3 bytes, 10 kinds of header, a pipe of 3 units | `ChannelSpec`: the bytes implement `Channel`; `Delivered`: a written message is read without waiting for more; `EndNoticed`. |
| `server_stack` | 3 requests, 2 notifications, 1 event; all handlers, three of them defaults; the loop held at any time | `SessionOrder`, `PoliteNeverRefused`, `ExitEndsLoop`, `PanicContained`, `DeathStops`. |
| `server_stack_exit` | the handlers of `server_builder.rs` | violation of `ExitEndsWell` (finding 3). |
| `stdio` | stdin locked on two threads, stdout on one; one or two descriptions; pipes of 2 and 1 units | `FlagsNest`, `NeverBlocks`, `NoLostReadiness`: see the inventory; `LocksSeparate`: two threads never hold one end, and with separate descriptions only one thread that nests locks of stdout can tangle; `Served`: whoever polls gets what comes and learns of the end. |
| `relay` | pipes of 1 message; 2 requests and a notification from the editor and a notification from the child, or 1 request and 1 notification from each, or 1 request and 3 notifications from the editor and a notification from the child; either peer may end | `ForwardSpec`: a channel in each direction, though ids change; `OwnAnswer`; `NoneOvertakesResponse`; `ServedOrJammed`. |

### Bounds

- *Futures and ids*. `OngoingBounded` can fail only with `2 * limit + 1` entries,
  and a purge meets another running request only from limit 2 on, so
  `concurrency_task` has limit 2 and 5 ids; with 5 names a handle can also
  outlive its future. A name is reused once its future and its entry are gone, so
  behaviours are of any length. With threads, limit 2 lets two futures be in
  their drop glue at once while a third is called; they share one id, the case in
  which a cancellation and an entry can belong to different requests. The proofs
  lift these bounds.
- *Streams of capacity 1* make every write that follows an unread one block;
  a larger capacity only adds slack. `IdLimit` equals the number of outgoing
  requests, so the counter wraps onto an entry only when one is left behind.
- *Budget* caps what the environment does besides requests: each kind at most
  once. All of these are single-shot causes (a stray response, a failed stream,
  a Break); two Breaks cannot happen, and a second stray response finds the loop
  in the state a first one does. `MaxReplies = 2` is the least with a repeated one.
- *Three requests, two notifications* in `server_stack` are `initialize`,
  `shutdown` and one more at any place, `initialized` and one more; the theorems
  lift them. `server_stack_exit` allows any three notifications.
- *Frames*: three, so that a bad one can stand between two good ones. Bodies of 1
  byte (a length too small is 0) and of 3, as many as the pipe holds, so a body
  and its header never fit together. The ten headers have each kind of field, and
  fields before and after the right length.
- *Handles*: two of stdin on two threads contend for the lock, one of stdout may
  share the description with either; a read may be partial (2 units), a write
  full or not. The proofs lift these.
- *Live loop*: `mainloop_live` has one of each single-shot cause that stops the loop
  while somebody waits: a Break of the handler of an event, and either an input
  that cannot be read (a bad message, its end) or a failing output. (Dropping all
  sockets stops it too, when nobody waits.) One requester and one reply are
  enough for that; two of each are in `mainloop_safety`, and so is the Break of a
  notification's handler.
- *Relay*: pipes of one message jam with as few messages as possible. `MCMixes`
  has three loads. Two requests of one peer are the least in which a response
  may be taken for another's or come out of order. A request of each peer at once
  is the least in which both loops assign ids and hold oneshots. One request with
  three notifications behind it fills every place on the way: the loop in `close`
  after a Break, the pipe to it, the peer's hand; without `close` in `Jammed` this
  load violates `ServedOrJammed`. The proofs lift these.
- *Two requests of each kind* are the least in which one overtakes another or
  takes the other's answer; requests are symmetric, so a third adds no pair.

### Fairness

- `WF(Run)`: the executor polls a task that was woken; polling makes progress.
- `SF` in `Concurrency` on steps of a future: the future's owner is not free all
  the time (another future's glue, a poll in progress), but `FuturesUnordered`
  keeps woken futures in a queue and polls each in turn.
- `WF(PeerReads)`, `WF(PeerReply)`, `WF(HandlerDone)`: the peer reads, answers
  each request once, and handlers complete. Properties about cancellation do
  *not* assume that handlers complete; `FedIsWritten` does *not* assume that the
  service becomes ready (`ServiceRecovers` appears only in the two properties
  that need it, as their premise).
- `SF(Emit)`, `WF(MonitorWakes)` in `ServerStack`: whenever the loop selects, `rx`
  comes before the input in its bias, and the operating system wakes the thread
  that waits for the process. Nothing makes the loop leave an await: while it is
  `held` no event is taken, so `DeathStops` has the premise `[]<>(loop # "held")`. A
  service that is never ready (finding 1), or a client that leaves its end of the
  pipe open and does not read, keeps the loop from stopping, although
  `src/client_monitor.rs:7-9` has such a pipe in mind.
- `WF(Read)` in `Framing`: the loop polls its input again
  when bytes have arrived. The writer is *not* fair: it may stall anywhere.
- `SF(PollIo)`, `WF(Drive)`, `WF(SetNonBlock \/ Unlock)` in `Stdio`: the tasks of
  a thread are polled in turn (a handle's step is disabled while another call of
  its thread is in progress), tokio's driver runs, and a function that was
  called goes on. In `Relay`, `WF` on the turns of each loop and on a peer's writing,
  reading and answering; `main` need never notice that a loop has ended.
- Nothing makes the environment send, drop, cancel or break anything.

### Findings

1. **At the limit the loop hangs** (`src/lib.rs:560`, `concurrent_loop_stuck`).
   `Concurrency::poll_ready` is pending until a guard is dropped; the guards
   live in `tasks`; while `dispatch_message` awaits `poll_ready` only the flush
   is polled. With `max_concurrency` requests running, the next request stops
   the loop for good: completed handlers are not polled, cancellations not read,
   events not taken. `ServedOrFull` shows that this is the only way a request
   stays unanswered, and `WaitAtLimitIsFinal` proves that there is no way back, for
   every limit and load. The same inner loop reads no input, so it cannot deliver
   the "client's response" its comment worries about (`src/lib.rs:557-559`).
2. **Lost wakeup across threads** (`src/concurrency.rs:97`,
   `concurrency_lost_wakeup`). `drop(sema)` drops the upgraded `Arc`; the token,
   the `Weak`, goes after `SemaphoreGuard::drop` returns. A `poll_ready` that
   registers after the guard looked for a waker and re-checks before the `Weak`
   is gone parks with nobody left to wake it. Inside one task the interleaving
   does not exist, and `NoLostWakeup` is proved there.
3. **`exit` without a handler is a routing error** (`src/server.rs:113`,
   `server_stack_exit`). Lifecycle passes `exit` to the inner service first and
   keeps its Break; a Router without a handler for it breaks with
   `Error::Routing`. `examples/server_builder.rs` registers none and unwraps the
   result of `run()`, so that server panics at a regular exit. With a handler, as
   every server built from the trait has one (`Fallback`), one error of the
   framework is left: a Router that cannot decode the parameters of `exit` breaks
   with `Error::Deserialize` (`src/router.rs:124-127`). `ExitEnds` proves that this, the
   handler's own error or panic, and `Ok` are then all there is.

Seen while modelling, with no run of its own:

- Lifecycle's module comment says it will "ignore unrelated notifications during
  initialization and shutting down" (`src/server.rs:9`), but every notification
  except `initialized` and `exit` is passed on in any state (`src/server.rs:126`,
  `NotifyOther`). A failed `initialize` leaves the server in `Initializing`, where
  a second one is refused: `StateAfter` does not look at the outcome.
- A call that panics leaves an entry in `ongoing` (`src/concurrency.rs:77`): the
  handle is inserted before the inner `call` and `AbortOnDrop` built after it, so
  when `CatchUnwind` above survives the panic the entry is never aborted and
  `retain` keeps it. `OngoingBounded` is checked, and proved, without panics.
- `expect("Sender is alive")` (`src/lib.rs:553`): `MainLoop` holds no sender, so with
  a service that keeps no socket and the returned socket dropped, `rx.next()` is
  `None` and `run()` panics. In the inspector each loop's only sender is the
  other's service: when one loop ends the other panics unless `main` returns
  first (`SenderGone`), and the Break of `on_notify` (`src/forward.rs`) is
  reached only if somebody else keeps a socket. `main` never returns `Ok`: an end
  of input is an error, which it unwraps.
- Two forwarding loops and their peers can block each other (`Jammed`): a peer
  that is writing does not read, and a loop in `feed`, or in `close` after a Break,
  reads nothing. `ServedOrJammed` without its last disjunct is violated.
- Of two messages of a peer, a response overtakes a call sent before it
  (`tasks` is polled before `rx`), never a call a response.
- The inspector forwards `$/cancelRequest` with the id the editor chose, although
  the request it names was given another id on the way (`src/forward.rs:44`).
- Handles on one description that do not nest can leave a descriptor in use
  without `O_NONBLOCK`, so that a poll sleeps in `read`, or leave `O_NONBLOCK`
  behind for the shell. Locking stdin first and dropping the output first, as
  locals declared in that order are, nests. The std lock of stdout is reentrant,
  so one thread can lock it twice and tangle.

## 5. What is proved

`Concurrency_proofs` proves, for every finite set of futures, every set of ids,
every limit ≥ 1 and every set of detached futures (`ConcurrencyAssumption`):

- `TypeCorrect`: `Spec => []TypeOK`.
- `LimitIsRespected`: `Spec => []LimitRespected`, panics and threads included.
  Inductive with typing alone: `call` takes a token only from `ready`, and no
  step but `call` adds one.
- `OngoingStaysBounded`: `Spec => []OngoingBounded` when `call` does not panic.
  The purge leaves only entries whose handle is not aborted. `NoDeadEntries`
  (such an entry belongs to a future that holds a token) and `OwnIds` (entries
  are filed under their own future's id, so the map is injective,
  `EntriesInject`) bound them by the tokens, the tokens by the limit, so after
  a purge at most `limit - 1` entries are left before the new one.
  `OngoingBounded` alone is not inductive: nothing in it relates entries to
  tokens. With panics the theorem is false (see above).
- `LiveStaysCancellable`: `Spec => []LiveIsCancellable`. Needs `OwnIds`: a
  cancellation of one id removes no other future's entry.
- `NoWakeupIsLost`: `Detached = {} /\ Spec => []NoLostWakeup`, by
  `PollReadyAlone` (no drop glue is in progress inside `poll_ready`): at the
  second check every counted token has yet to look for the waker. False with
  detached futures (finding 2).

`ServerStack_proofs` proves, for any number of requests, notifications and
events, any set of handlers and any of them defaults (`ServerStackAssumption`):

- `TypeCorrect`: `Spec => []TypeOK`.
- `SessionInOrder`: `Spec => SessionOrder`. The history of calls says nothing of
  `state`; `Phases` links them: in `Uninitialized` no request handler was called,
  before `ShuttingDown` none for `shutdown`, and while the loop runs in `Ready` or
  later the one for `initialized` was. The last part needs that a notification
  whose parameters are bad, or that has no handler, ends the loop.
- `PoliteIsNeverRefused`: `Spec => []PoliteNeverRefused`. `InStep` says which
  `state` each step of the client's session implies: though the client sees only
  answers, and Lifecycle moves before the handler runs, the two never disagree.
- `ExitEnds`: `"exit" \in Handlers => (Spec => []ExitEndsLoop)`, with
  `ResultWhenDone` (a loop that runs has no result): the loop ends with `Ok`, by the
  handler, or by parameters it cannot be given, and not by a routing or protocol
  error. False without the premise (finding 3).
- `PanicStaysContained`: `Spec => PanicContained`. Only `Notify` and `Emit` can
  end the loop in a panic, and only by a flow that the router has from a handler
  it called.

`MainLoop_proofs` proves, for any requests and requesters, any capacities, any
number of repeated replies, any budget and sockets kept or not
(`MainLoopAssumption`), the six invariants of `mainloop_safety`. One inductive
invariant, `IInv`, serves five of them (`Invariant`):

- `Hands`: a message is held only in `feed` and a request only in
  `dispatch_message`, so neither is overwritten, and a stopped loop holds nothing.
- `QueueOrder`, `SinkOrder`: the queue has the tickets that were not taken, in
  order, and what was taken and not written is in the sink or being fed, in that
  order. `SocketOrder` follows (`SocketsKeepOrder`); by itself it says nothing of
  which message `Feed` may load next. Each step is one of nine things that can
  happen to the messages on their way (`LineSteps`), whatever else it does.
- `Journey`: a request that the peer sent is at exactly one station and one that
  it did not send at none, and is only once in the input: without that, reading
  one copy would leave a second (`RequestsAreInOnePlace`).
- `OneSender`: the sender of a oneshot is in one place of the queue or in one
  entry of `outgoing`, never in both, and nowhere before the request is made
  (`WaitersStayReachable`).
- `ResultKept`: the result is set when the loop is left or breaks, not before
  (`BreakIsFlushed`, with `SinkOrder`: a closed sink is empty).

`RepliesReachTheirOwner` (`OwnReply`) has the premise that there are as many ids as
requesters, which stands for the `i32` counter not having wrapped. Its invariant,
`Owned`, gives each id used so far an owner, different from the others and no
longer in the queue, whose copies are all that is found under the id: in
`outgoing`, in the messages on their way out, in what the peer has seen, in the
answers. Filing a request takes an id that has no owner yet, as all of
them owned would be more owners than requesters (`IdLeft`). Without the premise
it is false: a late answer to the old request under an id resolves the new one.

`Stdio_proofs` proves, for any handles on any threads, any of them converted, any
inherited flags and capacities (`StdioAssumption`):

- `TypeCorrect`: `Spec => []TypeOK`.
- `FlagsStayNested` (`FlagsNest`): the handles with a flag to restore form a stack
  in which each one's `prev_flags` is the state the one below it made, so popping
  the last restores it; two handles of the stack are never both between their
  `fcntl` calls.
- `LocksStaySeparate` (`LocksSeparate`): two handles that hold one end are on one
  thread and of stdout (`Apart`: only `Lock` takes a guard, and it waits), and with a
  description for each end only such handles tangle, as the stack of a
  description then has handles of one end.
- `PollsNeverBlock` (`NeverBlocks`): a registered handle is in the stack and past
  `SetNonBlock`, so the flag is set while nothing has tangled.
- `NoReadinessIsLost` (`NoLostReadiness`): needs that a task that is `clearing`
  found nothing *after* it took its guard, so whatever came since is in `edge` or
  made the guard stale.

`ConcurrentLoop_proofs` proves, for any requests and requesters, any limit, ids,
capacities and budget (`ConcurrentLoopAssumption`):

- `LoopIsImplemented` (`LoopSpec`): each step of the composition is a step of
  `MainLoop` or leaves its variables alone. `L`'s handler that completes is the
  future's first drop step; the rest of the drop glue is no step of the loop.
- `LoopPromisesHold`: `MainLoop_proofs` is instantiated at the same mapping, so its
  theorems hold of the composition: `RequestInOnePlace`, `SocketOrder`,
  `WaitersReachable`, `BreakFlushes`.
- `TasksHoldTheirTokens` (`TasksHoldTokens`): by itself not inductive. `IInv` adds
  that drop glue runs only in `pc = "tasks"`, for a woken future and one at a time
  (`DropsInTasks`, `OneDrop`), and that what awaits `poll_ready` is a request of the
  peer (`DispatchesRequest`).
- `MiddlewareIsImplemented` (`MiddlewareSpec`): the conditions in `Concurrency`'s
  `Next` are not in the steps of the loop and are proved from `IInv`.
  `PollsInDispatch`: `poll_ready` is in progress only where `dispatch_message` awaits
  it, and `ready` only until the call that follows, so the loop polls, cancels and
  drops outside of it. `DropsInTasks` and `OneDrop`: drop glue is in progress only
  while `tasks` is polled. `CalledOnce`: a request that has a future or an entry was
  called, and one that is dispatched was not, because it is at one station of its
  journey and never returns to one it has left (`NeverBack` of `MainLoop_proofs`,
  carried over by `LoopIsImplemented`).
- `MiddlewarePromisesHold`: so `LimitRespected`, `OngoingBounded`,
  `LiveIsCancellable` and `NoLostWakeup` hold inside the loop.
- `WaitAtLimitIsFinal`: `Spec => [][StaysWaiting]_vars`. Once `poll_ready` is pending,
  it stays so, and the tasks and the request in hand stay what they are until the
  loop stops. `WaitsAlone` is its invariant: while the loop waits nobody is
  about to wake it.

`Framing_proofs` proves, for any messages with bodies of any sizes, any headers,
any capacity and any number of frames (`FramingAssumption`):

- `TypeCorrect`: `Spec => []TypeOK`.
- `ChannelIsImplemented` (`ChannelSpec`). Nothing in the state says where a frame
  began or how much of it was read, and the order of messages alone is not
  inductive. `Following` says that there *is* such an account: messages and
  headers of the frames begun, the position in the stream after which each starts
  (`Layout`), how much was read and how far the stream is known (`Ahead`), such
  that the unread part is the rest of those frames, the writer's state fits the
  last one (`Intact`, `Spoiled` by a bad header, `Cut` where the writer went), and
  `in_header`, `content_len` and `buf` are what `Message::read` makes of the part of
  its frame that it has seen (`Place`). Each step either moves the account on or
  ends the reader where the stream is broken, except that a reader may be past
  the body of a bad frame, from where it can only fail (`Doomed`). `HeaderEnds`
  is the crux: a header that was read without an error gives the right length
  exactly when it is good. TLC checks the invariant with the account in history
  variables; in the proof it is an existential.

`Relay_proofs` proves, for any numbers of requests and notifications from both
peers, any capacity of the pipes and either peer closing its streams
(`RelayAssumption`):

- `OwnAnswers` (`OwnAnswer`), `ResponsesFirst` (`NoneOvertakesResponse`) and
  `ForwardIsImplemented` (`ForwardSpec`), from one inductive invariant, `IInv`.

What travels to the peer of a loop goes through `Coming` (written and read by the
loop facing the other peer), then a call through `rx` and a response through
`answers`, then both through `Past` (held, in the sink, in the pipe, read). What
the peers have read says nothing of the rest of the way, so `IInv` says of each
direction:

- `Ordered`: whatever follows a call, in its own queue or in one further back, was
  sent after it. A response that went by `answers` may overtake calls in `rx`; no
  call overtakes it, because tasks are polled before `rx`: `OrderedCall` needs
  `answers` to be empty.
- `Complete`: no call is missing while the loop runs; when it ends with messages in
  hand, what passed it is still without a gap. With `Ordered` the call that a
  peer reads is the next one (`NextCall`).
- `Genuine`, `Numbered`, `Fresh`: a call on its way is the one that was made, and
  ids grow along the way, so the `outgoing_id` of a loop is behind the ids the
  other peer uses, and no id is used twice.
- `Filed`, `Replies`: the oneshot under an id belongs to the request passed on with
  that id, and a peer answers what it read, so a response finds the oneshot of
  its own request (`FiledFound`).
- `Once`, `Apart`: a request is in `tasks` or has its response, its oneshot is in
  `rx` or in one entry of `outgoing`, and its future holds at most one answer; a
  loop that ends closes just the oneshots that were not resolved.

Only model-checked: all liveness (`CancelTakesEffect`,
`RequestsServed`, `RequestersResolved`, `FedIsWritten`, `CancelledIsAnswered`,
`ServedOrFull`, `DeathStops`, `Delivered`, `EndNoticed`, `Served`, `ServedOrJammed`),
which is out of the proof system's reach, as is anything with `ENABLED`.

## 6. Not modelled

- `src/tracing.rs`: each call is wrapped in a span and passed on. No state and no
  order of its own.
- `src/omni_trait_generated.rs` and the client half of `src/omni_trait.rs`: more
  methods of the kinds in `ServerStack`, generated by one macro.
- The process-watching system calls of `src/client_monitor.rs`, beyond their
  outcomes.
- Splitting bytes into lines and parsing JSON (`Framing` takes both as given), and
  memory for a body of the announced size.
- Overflow of the `i32` `outgoing_id` (`src/lib.rs:621`): the model's counter
  wraps at `IdLimit`, but no run goes past it, and `OwnReply` is proved under that
  premise.
- Starvation of the input by a task that emits without pause: the model's
  environment does finitely many things.
- In `src/stdio.rs`: which files count as pipe-like, and an `fcntl` that fails in
  `drop`, which the code ignores. `poll_flush`, `poll_close` and `poll_shutdown` return at
  once.
- `examples/` other than the layers of the two servers and the inspector.
