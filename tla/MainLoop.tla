------------------------------ MODULE MainLoop ------------------------------
(***************************************************************************)
(* The main loop (MainLoop::run, src/src/lib.rs), its socket users         *)
(* (PeerSocket) and the peer at the other end of the two byte streams.     *)
(*                                                                         *)
(* `pc` is the place in run() where the future is between two polls of a   *)
(* branch.  A poll of one branch is atomic; the environment moves between  *)
(* the branches of one scan, so an event may arrive in `rx` after the scan *)
(* has passed it.  A message is written to the stream as a whole; the      *)
(* stream holds OutCapacity messages the peer has not read.                *)
(***************************************************************************)
EXTENDS Naturals, Sequences, FiniteSets

CONSTANTS
    Requests,     \* ids of the requests the peer sends, each once
    Requesters,   \* tasks that call `request` on a socket, each once
    Nobody,       \* no task, no request
    IdLimit,      \* number of values of `outgoing_id`
    InCapacity,   \* unread messages the input stream holds
    OutCapacity,  \* unread messages the output stream holds
    MaxReplies,   \* responses the peer sends for one id
    Budget,       \* how many of the other things the environment does
    KeepSockets   \* whether some socket of this loop stays alive

Things == {"notify", "emit", "notice", "stray", "bad", "break"}

ASSUME MainLoopAssumption ==
    /\ IsFiniteSet(Requests) /\ IsFiniteSet(Requesters)
    /\ Nobody \notin Requests \cup Requesters
    /\ IdLimit \in Nat \ {0}
    /\ InCapacity \in Nat \ {0} /\ OutCapacity \in Nat \ {0}
    /\ MaxReplies \in Nat
    /\ Budget \in [Things -> Nat]
    /\ KeepSockets \in BOOLEAN

VARIABLES
    pc,          \* where run() is
    result,      \* what run() returns
    rx,          \* events queued by the sockets
    tasks,       \* requests whose handler future is in `tasks`
    woken,       \* those whose future completes when it is polled
    cur,         \* the request dispatch_message holds while it awaits poll_ready
    held,        \* the message being fed, a sequence of length 0 or 1
    sink,        \* the message the sink has accepted and not yet written
    outgoing,    \* HashMap<RequestId, oneshot::Sender>: who waits for an id
    outgoing_id, \* the id of the next outgoing request
    busy,        \* whether service.poll_ready is pending
    req,         \* each socket user's request
    reply,       \* history: whose request the response was for
    sockets,     \* whether any sender of `rx` is alive
    inp, out,    \* the two streams: messages sent and not yet read
    broken,      \* whether the output stream fails
    asked,       \* requests the peer has sent
    seen,        \* per outgoing id, the requester whose request the peer read
    replies,     \* how often the peer answered each id
    written,     \* history: responses written for each request
    queued,      \* history: messages accepted from the sockets
    taken,       \* history: of these, how many left `rx`
    flushed,     \* history: of these, how many were written to the stream
    budget       \* what is left of Budget

loop == <<pc, result, rx, tasks, woken, cur, held, sink, outgoing, outgoing_id>>
users == <<req, reply, sockets, queued, taken>>
peer == <<inp, out, broken, asked, seen, replies, written, flushed>>
vars == <<loop, users, peer, busy, budget>>

OutgoingIds == 0 .. IdLimit - 1

\* Messages.  `from`, `for` and `ticket` are no part of the wire format: they
\* say whose request a message is, and its rank among the messages of the
\* sockets.  The loop never looks into a notification; `cancels` is the
\* request a `$/cancelRequest` names.
Answer(r) == [kind |-> "response", id |-> r]
Question(n, a, t) == [kind |-> "request", id |-> n, from |-> a, ticket |-> t]
Notice(t) == [kind |-> "notification", ticket |-> t]
OutMessages ==
    {Answer(r) : r \in Requests} \cup
    {Question(n, a, t) : n \in OutgoingIds, a \in Requesters, t \in 1 .. queued} \cup
    {Notice(t) : t \in 1 .. queued}

InMessages ==
    [kind : {"request"}, id : Requests] \cup
    [kind : {"response"}, id : OutgoingIds, for : Requesters \cup {Nobody}] \cup
    [kind : {"notification"}, cancels : Requests \cup {Nobody}] \cup
    [kind : {"bad"}]

Events ==
    [kind : {"request"}, from : Requesters, ticket : 1 .. queued] \cup
    [kind : {"notify"}, ticket : 1 .. queued] \cup
    [kind : {"emit"}]

Scanning == {"flush", "tasks", "rx", "incoming", "parked"}
Dispatching == {"dispatch", "drain", "waiting"}
Stopped == {"returned", "panicked"}
Places == Scanning \cup Dispatching \cup Stopped \cup {"feed", "close"}

TypeOK ==
    /\ pc \in Places
    /\ result \in {"none", "ok", "handler", "io", "input"}
    /\ rx \in Seq(Events)
    /\ tasks \subseteq Requests /\ woken \subseteq tasks
    /\ cur \in Requests \cup {Nobody}
    /\ held \in Seq(OutMessages) /\ sink \in Seq(OutMessages) /\ out \in Seq(OutMessages)
    /\ Len(held) <= 1 /\ Len(sink) <= 1 /\ Len(out) <= OutCapacity
    /\ inp \in Seq(InMessages) /\ Len(inp) <= InCapacity
    /\ outgoing \in [OutgoingIds -> Requesters \cup {Nobody}]
    /\ outgoing_id \in OutgoingIds
    /\ req \in [Requesters -> {"idle", "waiting", "dropped", "answered", "stopped"}]
    /\ reply \in [Requesters -> Requesters \cup {Nobody}]
    /\ {busy, sockets, broken} \subseteq BOOLEAN
    /\ asked \subseteq Requests
    /\ seen \in [OutgoingIds -> Requesters \cup {Nobody}]
    /\ replies \in [OutgoingIds -> 0 .. MaxReplies]
    /\ written \in [Requests -> Nat]
    /\ queued \in Nat /\ taken \in 0 .. queued /\ flushed \in 0 .. taken
    /\ budget \in [Things -> Nat]

Spend(thing) ==
    /\ budget[thing] > 0
    /\ budget' = [budget EXCEPT ![thing] = @ - 1]

----------------------------------------------------------------------------
(***************************************************************************)
(* Stopping.  run() owns the loop: when it returns or unwinds, the         *)
(* receiver, the handler futures, the sink and the map of oneshot senders  *)
(* are dropped, and every request still waiting resolves as ServiceStopped.*)
(***************************************************************************)
DropLoopKeepsOneshots ==  \* faulty: pending requests are not resolved
    /\ rx' = <<>> /\ held' = <<>> /\ sink' = <<>>
    /\ tasks' = {} /\ woken' = {} /\ cur' = Nobody
    /\ outgoing' = [n \in OutgoingIds |-> Nobody]
    /\ req' = req

DropLoop ==
    /\ rx' = <<>> /\ held' = <<>> /\ sink' = <<>>
    /\ tasks' = {} /\ woken' = {} /\ cur' = Nobody
    /\ outgoing' = [n \in OutgoingIds |-> Nobody]
    /\ req' = [a \in Requesters |-> IF req[a] = "waiting" THEN "stopped" ELSE req[a]]

Return(res) ==
    /\ pc' = "returned"
    /\ result' = res
    /\ DropLoop
    /\ UNCHANGED <<outgoing_id, reply, sockets, queued, taken>>

Panic ==
    /\ pc' = "panicked"
    /\ DropLoop
    /\ UNCHANGED <<result, outgoing_id, reply, sockets, queued, taken>>

\* ControlFlow::Break: run() goes on to close the sink.
Break(res) ==
    /\ Spend("break")
    /\ pc' = "close"
    /\ result' = res

----------------------------------------------------------------------------
(***************************************************************************)
(* The sink (futures::sink::unfold over Message::write) holds at most one  *)
(* message.  `flush_fut` is live exactly while there is one.               *)
(***************************************************************************)
Writable == sink # <<>> /\ ~broken /\ Len(out) < OutCapacity
WriteFails == sink # <<>> /\ broken
WriteBlocks == sink # <<>> /\ ~broken /\ Len(out) = OutCapacity

\* The sink writes its message out.
Write ==
    LET m == Head(sink)
    IN  /\ Writable
        /\ out' = Append(out, m)
        /\ sink' = <<>>
        /\ IF m.kind = "response"
           THEN /\ written' = [written EXCEPT ![m.id] = @ + 1]
                /\ UNCHANGED flushed
           ELSE /\ flushed' = flushed + 1
                /\ UNCHANGED written
        /\ UNCHANGED <<inp, broken, asked, seen, replies>>
        /\ UNCHANGED <<result, rx, tasks, woken, cur, held, outgoing, outgoing_id>>
        /\ UNCHANGED <<users, busy, budget>>

\* Drive the flush of the previous message at `here` and go on at `next`:
\* the branch is skipped when it is terminated or pending, and an error
\* leaves run() at once, without closing the sink.
DriveFlush(here, done, next) ==
    /\ pc = here
    /\ \/ Write /\ pc' = done
       \/ WriteFails /\ Return("io") /\ UNCHANGED <<peer, busy, budget>>
       \/ /\ sink = <<>> \/ WriteBlocks
          /\ pc' = next
          /\ UNCHANGED <<result, rx, tasks, woken, cur, held, sink, outgoing, outgoing_id>>
          /\ UNCHANGED <<users, peer, busy, budget>>

\* select_biased!, first branch: `continue` after a completed flush.
PollFlush == DriveFlush("flush", "flush", "tasks")

\* Faulty: a completed future stays in `tasks`, or stays scheduled.
PollTasksKeeps ==
    /\ pc = "tasks"
    /\ \/ \E r \in woken :
            /\ woken' = woken \ {r}
            /\ held' = <<Answer(r)>>
            /\ pc' = "feed"
       \/ woken = {} /\ pc' = "rx" /\ UNCHANGED <<woken, held>>
    /\ UNCHANGED <<result, rx, tasks, cur, sink, outgoing, outgoing_id>>
    /\ UNCHANGED <<users, peer, busy, budget>>

PollTasksForgets ==
    /\ pc = "tasks"
    /\ \/ \E r \in woken :
            /\ tasks' = tasks \ {r}
            /\ held' = <<Answer(r)>>
            /\ pc' = "feed"
       \/ woken = {} /\ pc' = "rx" /\ UNCHANGED <<tasks, held>>
    /\ UNCHANGED <<result, rx, woken, cur, sink, outgoing, outgoing_id>>
    /\ UNCHANGED <<users, peer, busy, budget>>

\* Second branch: a handler future that completes yields its response.
PollTasks ==
    /\ pc = "tasks"
    /\ \/ \E r \in woken :
            /\ tasks' = tasks \ {r} /\ woken' = woken \ {r}
            /\ held' = <<Answer(r)>>
            /\ pc' = "feed"
       \/ /\ woken = {}
          /\ pc' = "rx"
          /\ UNCHANGED <<tasks, woken, held>>
    /\ UNCHANGED <<result, rx, cur, sink, outgoing, outgoing_id>>
    /\ UNCHANGED <<users, peer, busy, budget>>

\* Faulty: the id is advanced before the request is written.
DispatchNextId(event) ==
    /\ event.kind = "request"
    /\ outgoing' = [outgoing EXCEPT ![outgoing_id] = event.from]
    /\ outgoing_id' = (outgoing_id + 1) % IdLimit
    /\ held' = <<Question(outgoing_id', event.from, event.ticket)>>
    /\ rx' = Tail(rx)
    /\ taken' = taken + 1
    /\ pc' = "feed"
    /\ UNCHANGED <<result, tasks, woken, cur, sink, req, reply, sockets, queued>>
    /\ UNCHANGED <<peer, busy, budget>>

\* dispatch_event, OutgoingRequest: assign an id, remember who waits for it
\* and hand the request over for writing.  The assertion on `insert` fails
\* when an entry with this id is left; `outgoing_id` wraps around.
DispatchRequest(event) ==
    /\ event.kind = "request"
    /\ IF outgoing[outgoing_id] # Nobody
       THEN Panic
       ELSE /\ outgoing' = [outgoing EXCEPT ![outgoing_id] = event.from]
            /\ outgoing_id' = (outgoing_id + 1) % IdLimit
            /\ held' = <<Question(outgoing_id, event.from, event.ticket)>>
            /\ rx' = Tail(rx)
            /\ taken' = taken + 1
            /\ pc' = "feed"
            /\ UNCHANGED <<result, tasks, woken, cur, sink, req, reply, sockets, queued>>
    /\ UNCHANGED <<peer, busy, budget>>

\* dispatch_event, Outgoing: a notification queued by `notify`.
DispatchOutgoing(event) ==
    /\ event.kind = "notify"
    /\ held' = <<Notice(event.ticket)>>
    /\ rx' = Tail(rx)
    /\ taken' = taken + 1
    /\ pc' = "feed"
    /\ UNCHANGED <<result, tasks, woken, cur, sink, outgoing, outgoing_id>>
    /\ UNCHANGED <<req, reply, sockets, queued, peer, busy, budget>>

\* dispatch_event, Any: service.emit, which may break the loop.
DispatchAny(event) ==
    /\ event.kind = "emit"
    /\ rx' = Tail(rx)
    /\ \/ pc' = "flush" /\ UNCHANGED <<result, budget>>
       \/ \E res \in {"ok", "handler"} : Break(res)
    /\ UNCHANGED <<tasks, woken, cur, held, sink, outgoing, outgoing_id>>
    /\ UNCHANGED <<users, peer, busy>>

\* Third branch: `rx.next()`, which yields None once every sender is gone.
PollRx ==
    /\ pc = "rx"
    /\ \/ /\ rx # <<>>
          /\ LET event == Head(rx)
             IN  DispatchRequest(event) \/ DispatchOutgoing(event) \/ DispatchAny(event)
       \/ /\ rx = <<>> /\ ~sockets
          /\ Panic
          /\ UNCHANGED <<peer, busy, budget>>
       \/ /\ rx = <<>> /\ sockets
          /\ pc' = "incoming"
          /\ UNCHANGED <<result, rx, tasks, woken, cur, held, sink, outgoing, outgoing_id>>
          /\ UNCHANGED <<users, peer, busy, budget>>

----------------------------------------------------------------------------
\* Fourth branch, one operation per outcome of Message::read.
Receive(kind) ==
    /\ pc = "incoming" /\ inp # <<>> /\ Head(inp).kind = kind
    /\ inp' = Tail(inp)
    /\ UNCHANGED <<out, broken, asked, seen, replies, written, flushed>>

\* Nothing to read: every branch is pending and the task parks.
Park ==
    /\ pc = "incoming" /\ inp = <<>>
    /\ pc' = "parked"
    /\ UNCHANGED <<result, rx, tasks, woken, cur, held, sink, outgoing, outgoing_id>>
    /\ UNCHANGED <<users, peer, busy, budget>>

\* End of stream, an I/O error or a message that cannot be decoded: `?`.
ReceiveBad ==
    /\ Receive("bad")
    /\ Return("input")
    /\ UNCHANGED <<busy, budget>>

\* dispatch_message of a request begins to await poll_ready.
ReceiveRequest ==
    /\ Receive("request")
    /\ cur' = Head(inp).id
    /\ pc' = "dispatch"
    /\ UNCHANGED <<result, rx, tasks, woken, held, sink, outgoing, outgoing_id>>
    /\ UNCHANGED <<users, busy, budget>>

\* Faulty: the response is not passed on to the requester.
ReceiveResponseDrops ==
    /\ Receive("response")
    /\ outgoing' = [outgoing EXCEPT ![Head(inp).id] = Nobody]
    /\ pc' = "flush"
    /\ UNCHANGED <<result, rx, tasks, woken, cur, held, sink, outgoing_id>>
    /\ UNCHANGED <<users, busy, budget>>

\* dispatch_message of a response: the first one for an id resolves the
\* request, unless its future was dropped; others are ignored.
ReceiveResponse ==
    /\ Receive("response")
    /\ LET m == Head(inp)
           a == outgoing[m.id]
       IN  /\ outgoing' = [outgoing EXCEPT ![m.id] = Nobody]
           /\ IF a # Nobody /\ req[a] = "waiting"
              THEN /\ req' = [req EXCEPT ![a] = "answered"]
                   /\ reply' = [reply EXCEPT ![a] = m.for]
              ELSE UNCHANGED <<req, reply>>
    /\ pc' = "flush"
    /\ UNCHANGED <<result, rx, tasks, woken, cur, held, sink, outgoing_id>>
    /\ UNCHANGED <<sockets, queued, taken, busy, budget>>

\* dispatch_message of a notification: service.notify, which may complete
\* what handlers wait for (a cancellation does) and may break the loop.
ReceiveNotification ==
    /\ Receive("notification")
    /\ \E done \in SUBSET (tasks \ woken) : woken' = woken \cup done
    /\ \/ pc' = "flush" /\ UNCHANGED <<result, budget>>
       \/ \E res \in {"ok", "handler"} : Break(res)
    /\ UNCHANGED <<rx, tasks, cur, held, sink, outgoing, outgoing_id>>
    /\ UNCHANGED <<users, busy>>

PollIncoming ==
    Park \/ ReceiveBad \/ ReceiveRequest \/ ReceiveResponse \/ ReceiveNotification

\* The inner loop, first branch.  Ready: call the service and push the future.
\* An error of poll_ready is answered at once.
Dispatch ==
    /\ pc = "dispatch"
    /\ \/ /\ ~busy
          /\ tasks' = tasks \cup {cur}
          /\ cur' = Nobody
          /\ pc' = "flush"
          /\ UNCHANGED held
       \/ /\ ~busy
          /\ held' = <<Answer(cur)>>
          /\ cur' = Nobody
          /\ pc' = "feed"
          /\ UNCHANGED tasks
       \/ /\ busy
          /\ pc' = "drain"
          /\ UNCHANGED <<tasks, cur, held>>
    /\ UNCHANGED <<result, rx, woken, sink, outgoing, outgoing_id>>
    /\ UNCHANGED <<users, peer, busy, budget>>

\* Faulty: nothing but poll_ready is polled in the inner loop.
AwaitOnly ==
    /\ pc = "drain"
    /\ pc' = "waiting"
    /\ UNCHANGED <<result, rx, tasks, woken, cur, held, sink, outgoing, outgoing_id>>
    /\ UNCHANGED <<users, peer, busy, budget>>

\* The inner loop, second branch: only the flush runs along with poll_ready.
DriveInnerFlush == DriveFlush("drain", "dispatch", "waiting")

\* Faulty: a completed handler does not wake the loop.
WakeWithoutTasks ==
    /\ \/ /\ pc = "parked"
          /\ Writable \/ WriteFails \/ rx # <<>> \/ ~sockets \/ inp # <<>>
          /\ pc' = "flush"
       \/ /\ pc = "waiting"
          /\ ~busy \/ Writable \/ WriteFails
          /\ pc' = "dispatch"
    /\ UNCHANGED <<result, rx, tasks, woken, cur, held, sink, outgoing, outgoing_id>>
    /\ UNCHANGED <<users, peer, busy, budget>>

\* The task is polled again when a branch that registered its waker moves.
Wake ==
    /\ \/ /\ pc = "parked"
          /\ Writable \/ WriteFails \/ woken # {} \/ rx # <<>> \/ ~sockets \/ inp # <<>>
          /\ pc' = "flush"
       \/ /\ pc = "waiting"
          /\ ~busy \/ Writable \/ WriteFails
          /\ pc' = "dispatch"
    /\ UNCHANGED <<result, rx, tasks, woken, cur, held, sink, outgoing, outgoing_id>>
    /\ UNCHANGED <<users, peer, busy, budget>>

----------------------------------------------------------------------------
\* Faulty: the new message replaces one that is not written yet.
FeedOver ==
    /\ pc = "feed"
    /\ sink' = held
    /\ held' = <<>>
    /\ pc' = "flush"
    /\ UNCHANGED <<result, rx, tasks, woken, cur, outgoing, outgoing_id>>
    /\ UNCHANGED <<users, peer, busy, budget>>

\* `outgoing.feed(msg).await?`: finish the previous write, then load the new
\* message and renew flush_fut.  Nothing else is polled meanwhile.
Feed ==
    /\ pc = "feed"
    /\ \/ Write /\ UNCHANGED pc
       \/ WriteFails /\ Return("io") /\ UNCHANGED <<peer, busy, budget>>
       \/ /\ sink = <<>>
          /\ sink' = held
          /\ held' = <<>>
          /\ pc' = "flush"
          /\ UNCHANGED <<result, rx, tasks, woken, cur, outgoing, outgoing_id>>
          /\ UNCHANGED <<users, peer, busy, budget>>

\* Faulty: run() returns without closing the sink.
CloseNot == pc = "close" /\ Return(result) /\ UNCHANGED <<peer, busy, budget>>

\* `outgoing.close().await` after a Break; an error of the handler overrides
\* an error of the flush.
Close ==
    /\ pc = "close"
    /\ \/ Write /\ UNCHANGED pc
       \/ /\ WriteFails
          /\ Return(IF result = "ok" THEN "io" ELSE result)
          /\ UNCHANGED <<peer, busy, budget>>
       \/ sink = <<>> /\ Return(result) /\ UNCHANGED <<peer, busy, budget>>

Run ==
    \/ PollFlush \/ PollTasks \/ PollRx \/ PollIncoming
    \/ Dispatch \/ DriveInnerFlush \/ Wake \/ Feed \/ Close

----------------------------------------------------------------------------
(***************************************************************************)
(* The sockets and the handlers, on any task or thread.                    *)
(***************************************************************************)
Running == pc \notin Stopped

\* PeerSocket::send of an event: accepted while the receiver exists.
Send(event) ==
    /\ Running /\ sockets
    /\ rx' = Append(rx, event)
    /\ UNCHANGED <<pc, result, tasks, woken, cur, held, sink, outgoing, outgoing_id>>

\* PeerSocket::request: if the queue is closed, the oneshot is closed as well.
Request(a) ==
    /\ req[a] = "idle"
    /\ \/ /\ Send([kind |-> "request", from |-> a, ticket |-> queued + 1])
          /\ queued' = queued + 1
          /\ req' = [req EXCEPT ![a] = "waiting"]
       \/ /\ ~Running /\ sockets
          /\ req' = [req EXCEPT ![a] = "stopped"]
          /\ UNCHANGED <<loop, queued>>
    /\ UNCHANGED <<reply, sockets, taken, peer, busy, budget>>

\* The future of a request is dropped; its entry in `outgoing` stays.
DropRequest(a) ==
    /\ req[a] = "waiting"
    /\ req' = [req EXCEPT ![a] = "dropped"]
    /\ UNCHANGED <<loop, reply, sockets, queued, taken, peer, busy, budget>>

\* PeerSocket::notify.
Notify ==
    /\ Spend("notify")
    /\ Send([kind |-> "notify", ticket |-> queued + 1])
    /\ queued' = queued + 1
    /\ UNCHANGED <<req, reply, sockets, taken, peer, busy>>

\* PeerSocket::emit.
Emit ==
    /\ Spend("emit")
    /\ Send([kind |-> "emit"])
    /\ UNCHANGED <<users, peer, busy>>

\* The last socket is dropped.  A pending request borrows its socket.
DropSockets ==
    /\ ~KeepSockets /\ sockets
    /\ \A a \in Requesters : req[a] # "waiting"
    /\ sockets' = FALSE
    /\ UNCHANGED <<loop, req, reply, queued, taken, peer, busy, budget>>

\* What a handler waits for happens: its future completes at its next poll.
HandlerDone(r) ==
    /\ r \in tasks \ woken
    /\ woken' = woken \cup {r}
    /\ UNCHANGED <<pc, result, rx, tasks, cur, held, sink, outgoing, outgoing_id>>
    /\ UNCHANGED <<users, peer, busy, budget>>

\* The service refuses when it is polled, or becomes ready again.
ServiceBusy ==
    /\ pc = "dispatch" /\ ~busy
    /\ busy' = TRUE
    /\ UNCHANGED <<loop, users, peer, budget>>

ServiceReady ==
    /\ busy
    /\ busy' = FALSE
    /\ UNCHANGED <<loop, users, peer, budget>>

----------------------------------------------------------------------------
(***************************************************************************)
(* The peer and the streams.                                               *)
(***************************************************************************)
PeerSends(m) ==
    /\ Len(inp) < InCapacity
    /\ inp' = Append(inp, m)
    /\ UNCHANGED <<out, broken, seen, written, flushed>>
    /\ UNCHANGED <<loop, users, busy>>

PeerRequest(r) ==
    /\ r \notin asked
    /\ asked' = asked \cup {r}
    /\ PeerSends([kind |-> "request", id |-> r])
    /\ UNCHANGED <<replies, budget>>

\* The peer answers a request, possibly repeatedly.
PeerReply(n) ==
    /\ seen[n] # Nobody
    /\ replies[n] < MaxReplies
    /\ replies' = [replies EXCEPT ![n] = @ + 1]
    /\ PeerSends([kind |-> "response", id |-> n, for |-> seen[n]])
    /\ UNCHANGED <<asked, budget>>

\* The peer answers an id it was not sent.
PeerStray(n) ==
    /\ seen[n] = Nobody
    /\ Spend("stray")
    /\ PeerSends([kind |-> "response", id |-> n, for |-> Nobody])
    /\ UNCHANGED <<asked, replies>>

PeerNotice(r) ==
    /\ Spend("notice")
    /\ PeerSends([kind |-> "notification", cancels |-> r])
    /\ UNCHANGED <<asked, replies>>

PeerBad ==
    /\ Spend("bad")
    /\ PeerSends([kind |-> "bad"])
    /\ UNCHANGED <<asked, replies>>

PeerReads ==
    /\ out # <<>>
    /\ LET m == Head(out)
       IN  seen' = IF m.kind = "request" THEN [seen EXCEPT ![m.id] = m.from] ELSE seen
    /\ out' = Tail(out)
    /\ UNCHANGED <<inp, broken, asked, replies, written, flushed>>
    /\ UNCHANGED <<loop, users, busy, budget>>

\* The output stream begins to fail.
OutputBreaks ==
    /\ Spend("bad")
    /\ ~broken
    /\ broken' = TRUE
    /\ UNCHANGED <<inp, out, asked, seen, replies, written, flushed>>
    /\ UNCHANGED <<loop, users, busy>>

Environment ==
    \/ \E a \in Requesters : Request(a) \/ DropRequest(a)
    \/ Notify \/ Emit \/ DropSockets
    \/ \E r \in Requests : HandlerDone(r) \/ PeerRequest(r)
    \/ ServiceBusy \/ ServiceReady
    \/ \E n \in OutgoingIds : PeerReply(n) \/ PeerStray(n)
    \/ \E r \in Requests \cup {Nobody} : PeerNotice(r)
    \/ PeerBad \/ PeerReads \/ OutputBreaks

Init ==
    /\ pc = "flush" /\ result = "none"
    /\ rx = <<>> /\ tasks = {} /\ woken = {} /\ cur = Nobody
    /\ held = <<>> /\ sink = <<>>
    /\ outgoing = [n \in OutgoingIds |-> Nobody] /\ outgoing_id = 0
    /\ busy = FALSE
    /\ req = [a \in Requesters |-> "idle"]
    /\ reply = [a \in Requesters |-> Nobody]
    /\ sockets = TRUE
    /\ inp = <<>> /\ out = <<>> /\ broken = FALSE
    /\ asked = {}
    /\ seen = [n \in OutgoingIds |-> Nobody]
    /\ replies = [n \in OutgoingIds |-> 0]
    /\ written = [r \in Requests |-> 0]
    /\ queued = 0 /\ taken = 0 /\ flushed = 0
    /\ budget = Budget

Next == Run \/ Environment

Spec == Init /\ [][Next]_vars

\* The executor polls the loop's task when it was woken, the peer reads what
\* it is sent and answers each request, and handlers complete.
FairSpec ==
    /\ Spec
    /\ WF_vars(Run) /\ WF_vars(PeerReads)
    /\ \A r \in Requests : WF_vars(HandlerDone(r))
    /\ \A n \in OutgoingIds : WF_vars(replies[n] = 0 /\ PeerReply(n))

\* The service does not refuse for ever.
ServiceRecovers == WF_vars(ServiceReady) /\ SF_vars(~busy /\ Dispatch)

----------------------------------------------------------------------------
Has(s, r) == \E k \in 1 .. Len(s) : s[k].kind = "response" /\ s[k].id = r
Unread(r) == \E k \in 1 .. Len(inp) : inp[k].kind = "request" /\ inp[k].id = r

Stations == {"inp", "cur", "tasks", "held", "sink", "written"}
At(r, station) ==
    CASE station = "inp" -> Unread(r)
      [] station = "cur" -> cur = r
      [] station = "tasks" -> r \in tasks
      [] station = "held" -> Has(held, r)
      [] station = "sink" -> Has(sink, r)
      [] station = "written" -> written[r] > 0

\* No request is lost or answered twice: while the loop runs, a request the
\* peer has sent is in exactly one place on its way from the input stream
\* through dispatch_message, `tasks` and the sink to the output stream, and
\* no response is ever written twice.
RequestInOnePlace ==
    \A r \in asked :
        /\ written[r] <= 1
        /\ Running => Cardinality({p \in Stations : At(r, p)}) = 1

Ticketed(m) == m.kind \notin {"response", "emit"}

\* What the sockets queue is written in the order in which they queued it,
\* with nothing lost, repeated or overtaken: the messages not yet written are
\* those with the next tickets, in order, across sink, feed and queue.
SocketOrder ==
    LET pending == sink \o held \o rx
        places == {k \in 1 .. Len(pending) : Ticketed(pending[k])}
    IN  Running =>
          /\ {pending[k].ticket : k \in places} = flushed + 1 .. queued
          /\ \A j, k \in places : j < k => pending[j].ticket < pending[k].ticket

\* A waiting request can still be resolved: the loop runs, and the sender of
\* its oneshot is in the queue or in exactly one entry of `outgoing`.  When
\* the loop has stopped nobody waits.
WaitersReachable ==
    \A a \in Requesters : req[a] = "waiting" =>
        /\ Running
        /\ LET queuedHere == {k \in 1 .. Len(rx) : rx[k].kind = "request" /\ rx[k].from = a}
                filedHere == {n \in OutgoingIds : outgoing[n] = a}
           IN  Cardinality(queuedHere) + Cardinality(filedHere) = 1

\* No socket user gets the response to another one's request, although the
\* peer answers out of order, repeatedly, or with ids it was never sent.
OwnReply ==
    \A a \in Requesters : req[a] = "answered" => reply[a] \in {a, Nobody}

\* After a Break everything that left the queue was written before run()
\* returned ("Flush the last message"), unless the stream failed.
BreakFlushes ==
    pc = "returned" /\ result \in {"ok", "handler"} /\ ~broken => flushed = taken

\* A request that was sent is answered, or the loop stops.
RequestsServed ==
    ServiceRecovers =>
        \A r \in Requests : Unread(r) ~> (written[r] = 1 \/ ~Running)

\* A request of a socket user is resolved, if nothing else with ServiceStopped.
RequestersResolved ==
    ServiceRecovers =>
        \A a \in Requesters : req[a] = "waiting" ~> req[a] # "waiting"

\* A message handed to the sink is written although the service stays busy
\* for ever: the flush goes on while dispatch_message awaits poll_ready.
FedIsWritten == sink # <<>> ~> sink = <<>>
============================================================================
