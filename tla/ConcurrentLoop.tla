--------------------------- MODULE ConcurrentLoop ---------------------------
(***************************************************************************)
(* The main loop driving the Concurrency middleware.  Both live in the one *)
(* task that polls run():                                                  *)
(*   - dispatch_message awaits Concurrency::poll_ready and then calls it;  *)
(*   - the ResponseFutures are the members of `tasks` and their drop glue  *)
(*     runs where `tasks` is polled;                                       *)
(*   - a `$/cancelRequest` notification reaches Concurrency::notify.       *)
(* A request is its own response future and its own id here: the peer uses *)
(* each id once.  Under the middleware is a service that is always ready.  *)
(***************************************************************************)
EXTENDS Naturals, Sequences, FiniteSets

CONSTANTS
    Requests, Requesters, Nobody, IdLimit, InCapacity, OutCapacity,
    MaxReplies, Budget, KeepSockets,  \* of MainLoop
    MaxConcurrency                    \* of Concurrency

\* What MainLoop and Concurrency assume of their constants.
ASSUME ConcurrentLoopAssumption ==
    /\ IsFiniteSet(Requests) /\ IsFiniteSet(Requesters)
    /\ Nobody \notin Requests \cup Requesters
    /\ IdLimit \in Nat \ {0}
    /\ InCapacity \in Nat \ {0} /\ OutCapacity \in Nat \ {0}
    /\ MaxReplies \in Nat
    /\ Budget \in [{"notify", "emit", "notice", "stray", "bad", "break"} -> Nat]
    /\ KeepSockets \in BOOLEAN
    /\ MaxConcurrency \in Nat \ {0}

VARIABLES
    pc, result, rx, tasks, woken, cur, held, sink, outgoing, outgoing_id,
    req, reply, sockets, queued, taken,
    inp, out, broken, asked, seen, replies, written, flushed, budget,
    stage, id, aborted, ongoing, waker, notified, caller, shadowed

\* The loop sees a busy service from a pending poll_ready to the next wakeup.
L == INSTANCE MainLoop WITH busy <- caller = "pending" /\ ~notified

C == INSTANCE Concurrency WITH
        Futures <- Requests, NoFuture <- Nobody, Ids <- Requests,
        Detached <- {}, CallMayPanic <- FALSE

loopVars == <<pc, result, rx, tasks, woken, cur, held, sink, outgoing,
              outgoing_id, req, reply, sockets, queued, taken, inp, out, broken,
              asked, seen, replies, written, flushed, budget>>
serviceVars == <<stage, id, aborted, ongoing, waker, notified, caller, shadowed>>
vars == <<loopVars, serviceVars>>

----------------------------------------------------------------------------
\* Faulty: poll_ready is polled outside dispatch_message.
AwaitAnywhere ==
    /\ \/ C!PollReady /\ (caller = "idle" \/ notified)
       \/ C!RegisterWaker
       \/ C!Recheck
    /\ UNCHANGED loopVars

\* dispatch_message awaits poll_ready: it is polled on arrival and whenever
\* the task was woken by a guard.  A poll for another reason finds the service
\* as it was and registers the same waker.
AwaitReady ==
    /\ pc = "dispatch"
    /\ \/ C!PollReady /\ (caller = "idle" \/ notified)
       \/ C!RegisterWaker
       \/ C!Recheck
    /\ UNCHANGED loopVars

DispatchUnready ==  \* faulty: poll_ready is not awaited
    /\ pc = "dispatch"
    /\ C!Call(cur, cur, FALSE)
    /\ L!Dispatch
    /\ tasks' = tasks \cup {cur}

\* poll_ready was Ready, so call follows at once and `tasks` gets the future.
DispatchCall ==
    /\ pc = "dispatch" /\ caller = "ready"
    /\ C!Call(cur, cur, FALSE)
    /\ L!Dispatch
    /\ tasks' = tasks \cup {cur}

\* poll_ready was Pending.
DispatchPending ==
    /\ caller = "pending" /\ ~notified
    /\ UNCHANGED serviceVars
    /\ L!Dispatch

\* `tasks` is polled: a future that completes, or was aborted, is dropped by
\* FuturesUnordered before its response is handed on.
TaskCompletes(r) ==
    /\ pc = "tasks" /\ r \in woken
    /\ \A f \in Requests : ~C!Dropping(f)
    /\ C!Finish(r) \/ C!FinishCancelled(r)
    /\ UNCHANGED loopVars

TaskDropped(r) ==
    /\ C!AbortHandleOnDrop(r) \/ C!TakeWaker(r) \/ C!Wake(r)
    /\ UNCHANGED loopVars

TaskRespondsEarly(r) ==  \* faulty: the response leaves before the token
    /\ stage[r] = "returning"
    /\ UNCHANGED serviceVars
    /\ L!PollTasks
    /\ held' = <<L!Answer(r)>>

TaskResponds(r) ==
    /\ C!ReturnToken(r)
    /\ L!PollTasks
    /\ held' = <<L!Answer(r)>>

NoTaskReady ==
    /\ woken = {}
    /\ UNCHANGED serviceVars
    /\ L!PollTasks

PollTasks ==
    \/ \E r \in Requests : TaskCompletes(r) \/ TaskDropped(r) \/ TaskResponds(r)
    \/ NoTaskReady

\* Faulty: the flag is set but the future is not woken.
ReceiveCancelQuietly ==
    /\ L!Receive("notification")
    /\ Head(inp).cancels # Nobody
    /\ woken' = woken
    /\ IF ongoing[Head(inp).cancels] = Nobody
       THEN UNCHANGED serviceVars
       ELSE C!Cancel(Head(inp).cancels)
    /\ L!ReceiveNotification
    /\ pc' = "flush"

\* Concurrency::notify consumes `$/cancelRequest`, which never breaks the
\* loop, and abort() wakes the future; the rest goes to the inner service.
ReceiveCancel ==
    /\ L!Receive("notification")
    /\ LET r == Head(inp).cancels
       IN  /\ r # Nobody
           /\ IF ongoing[r] = Nobody
              THEN woken' = woken /\ UNCHANGED serviceVars
              ELSE woken' = woken \cup (tasks \cap {r}) /\ C!Cancel(r)
    /\ L!ReceiveNotification
    /\ pc' = "flush"

ReceiveNotification ==
    /\ UNCHANGED serviceVars
    /\ L!ReceiveNotification
    /\ Head(inp).cancels = Nobody

\* Everything else of the loop leaves the middleware alone.
RestOfLoop ==
    /\ UNCHANGED serviceVars
    /\ \/ L!PollFlush \/ L!PollRx \/ L!DriveInnerFlush \/ L!Wake \/ L!Feed \/ L!Close
       \/ L!Park \/ L!ReceiveBad \/ L!ReceiveRequest \/ L!ReceiveResponse

Run ==
    \/ AwaitReady \/ DispatchCall \/ DispatchPending \/ PollTasks
    \/ ReceiveCancel \/ ReceiveNotification \/ RestOfLoop

Environment ==
    /\ UNCHANGED serviceVars
    /\ \/ \E a \in Requesters : L!Request(a) \/ L!DropRequest(a)
       \/ L!Notify \/ L!Emit \/ L!DropSockets
       \/ \E r \in Requests : L!HandlerDone(r) \/ L!PeerRequest(r)
       \/ \E n \in L!OutgoingIds : L!PeerReply(n) \/ L!PeerStray(n)
       \/ \E r \in Requests \cup {Nobody} : L!PeerNotice(r)
       \/ L!PeerBad \/ L!PeerReads \/ L!OutputBreaks

Init == C!Init /\ L!Init

Next == Run \/ Environment

Spec == Init /\ [][Next]_vars

\* The executor polls the woken task, and the peer reads what it is sent.
FairSpec == Spec /\ WF_vars(Run) /\ WF_vars(UNCHANGED serviceVars /\ L!PeerReads)

\* What a handler waits for happens some day.
HandlersComplete ==
    \A r \in Requests : WF_vars(UNCHANGED serviceVars /\ L!HandlerDone(r))

----------------------------------------------------------------------------
\* The composition is a behaviour of each of its components.  The steps above
\* take what Concurrency's operations do and none of the conditions its Next
\* sets for them (CallerFree, MayCall, MayNotify, DriverFree): that the loop
\* calls only after a poll_ready that was Ready, with an id that no entry and
\* no future still uses, and that it polls, notifies and drops one at a time
\* follows from its own control.
MiddlewareSpec == C!Spec

\* The middleware is a service as MainLoop assumes.
LoopSpec == L!Spec

\* The futures the loop keeps are those that hold tokens: between two polls
\* of `tasks` the semaphore counts the running requests, none leaked and none
\* returned early.
TasksHoldTokens ==
    L!Running => tasks = {r \in Requests : stage[r] # "none"}

\* A request the peer cancels in time is answered although its handler never
\* completes, or the loop stops.
CancelledIsAnswered ==
    \A r \in Requests : (r \in tasks /\ r \in aborted) ~> (written[r] = 1 \/ ~L!Running)

\* If handlers complete, every request the peer sent is answered, or the loop
\* stops: a request beyond the limit only waits until a guard is dropped.
ServedUnderLimit ==
    HandlersComplete =>
        \A r \in Requests : L!Unread(r) ~> (written[r] = 1 \/ ~L!Running)

\* Nothing but a wait at the limit keeps a request from being answered.
ServedOrFull ==
    HandlersComplete =>
        \A r \in Requests :
            L!Unread(r) ~> (written[r] = 1 \/ ~L!Running \/ caller = "pending")
============================================================================
