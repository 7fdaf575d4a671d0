-------------------------------- MODULE Relay --------------------------------
(***************************************************************************)
(* A socket as the service of another main loop (src/src/forward.rs), put  *)
(* together as in src/examples/inspector.rs: one loop faces the editor,    *)
(* one the child server, and each forwards what it reads to the socket of  *)
(* the other.  Both run on one thread, so a turn of a loop (one choice of  *)
(* its select and what follows up to the next await) is atomic; MainLoop   *)
(* has the finer steps of a loop on its own.                               *)
(*                                                                         *)
(* A loop is named after the peer it faces.  A peer that has begun to send *)
(* a message reads nothing until the pipe has room for it, as a main loop  *)
(* does in `feed`.                                                         *)
(***************************************************************************)
EXTENDS Naturals, Sequences

CONSTANTS
    Asks,      \* requests each peer makes
    Notifies,  \* notifications each peer sends
    Mixes,     \* how many of each the two make between them
    Capacity,  \* unread messages a pipe holds
    MayEnd,    \* peers that may close their streams
    None

Sides == {"editor", "child"}
Other(s) == IF s = "editor" THEN "child" ELSE "editor"

ASSUME RelayAssumption ==
    /\ {Asks, Notifies} \subseteq [Sides -> Nat]
    /\ Capacity \in Nat \ {0}
    /\ MayEnd \subseteq Sides
    /\ None \notin Nat

VARIABLES
    pc,           \* of each run(): select, feed, close, returned or panicked
    rx,           \* events queued for a loop by the service of the other
    tasks,        \* ids of the requests whose future is in `tasks`
    answers,      \* what the oneshots of those futures hold
    outgoing,     \* id of a forwarded request -> id it has at the other side
    outgoing_id,
    held, sink,   \* the message being fed, and the one not yet written
    inp, out,     \* the pipes from and to the peer
    kept,         \* whether somebody else holds a socket of each loop
    main,         \* the inspector's main: its select! over both loops
    sending,      \* the message a peer is about to write
    ended,        \* whether a peer has closed its streams
    sent,         \* history: the calls (requests, notifications) of each peer,
    asked,        \*   how many of them are requests,
    answered,     \*   the ranks of the requests it answered,
    got, heard    \*   what it read, and the ranks of the calls in that

loops == <<pc, rx, tasks, answers, outgoing, outgoing_id, held, sink, kept, main>>
peers == <<sending, ended, sent, asked, answered, got, heard>>
vars == <<loops, inp, out, peers>>

Total(f) == f["editor"] + f["child"]
Ids == 0 .. Total(Asks)

\* Messages.  `at` is the rank of a call among those its sender made, and for a
\* response that of the next call; `for` is the rank of the request that a
\* response answers: ghosts, no loop looks at them.  `Stopped` is the error a forwarding future makes of a closed oneshot.
Question(i, n) == [kind |-> "request", id |-> i, at |-> n]
Notice(n) == [kind |-> "notification", at |-> n]
Answer(i, q, n) == [kind |-> "response", id |-> i, for |-> q, at |-> n]
Stopped(i) == [kind |-> "response", id |-> i, for |-> None, at |-> 0]

Ranks == 1 .. Total(Asks) + Total(Notifies)

Gone(s) == pc[s] \in {"returned", "panicked"}
Running(s) == main = "running" /\ ~Gone(s)

----------------------------------------------------------------------------
(***************************************************************************)
(* The sink of a loop.                                                     *)
(***************************************************************************)
CanWrite(s) == sink[s] # <<>> /\ ~ended[s] /\ Len(out[s]) < Capacity
WriteFails(s) == sink[s] # <<>> /\ ended[s]

Write(s) ==
    /\ CanWrite(s)
    /\ out' = [out EXCEPT ![s] = Append(@, Head(sink[s]))]
    /\ sink' = [sink EXCEPT ![s] = <<>>]
    /\ UNCHANGED <<rx, tasks, answers, outgoing, outgoing_id, held, kept, main, inp, peers>>

Load(s, m) ==
    /\ held' = [held EXCEPT ![s] = <<m>>]
    /\ pc' = [pc EXCEPT ![s] = "feed"]

(***************************************************************************)
(* A loop ends and is dropped: its receiver, its futures, and the oneshots *)
(* in `rx` and `outgoing`, whose futures in the other loop learn that they *)
(* are closed.  Its service, the only sender of the other's `rx`, goes too.*)
(***************************************************************************)
Unanswered(s) == tasks[s] \ {a.id : a \in answers[s]}

End(s, how) ==
    LET o == Other(s)
    IN  /\ pc' = [pc EXCEPT ![s] = how]
        /\ rx' = [rx EXCEPT ![s] = <<>>]
        /\ tasks' = [tasks EXCEPT ![s] = {}]
        /\ answers' = [answers EXCEPT ![s] = {}, ![o] = @ \cup {Stopped(i) : i \in Unanswered(o)}]
        /\ outgoing' = [outgoing EXCEPT ![s] = [n \in Ids |-> None]]
        /\ held' = [held EXCEPT ![s] = <<>>]
        /\ sink' = [sink EXCEPT ![s] = <<>>]
        /\ UNCHANGED <<outgoing_id, kept, main>>

Fail(s) == WriteFails(s) /\ End(s, "returned") /\ UNCHANGED <<inp, out, peers>>

----------------------------------------------------------------------------
(***************************************************************************)
(* The select of a loop, biased: flush, tasks, rx, incoming.               *)
(***************************************************************************)
Selecting(s) == Running(s) /\ pc[s] = "select"

Flush(s) ==
    /\ Selecting(s)
    /\ \/ Write(s) /\ UNCHANGED pc
       \/ Fail(s)

Flushed(s) == ~CanWrite(s) /\ ~WriteFails(s)

\* A forwarding future whose oneshot was resolved or closed.
PollTasks(s) ==
    /\ Selecting(s) /\ Flushed(s)
    /\ \E a \in answers[s] :
        /\ Load(s, a)
        /\ answers' = [answers EXCEPT ![s] = @ \ {a}]
        /\ tasks' = [tasks EXCEPT ![s] = @ \ {a.id}]
    /\ UNCHANGED <<rx, outgoing, outgoing_id, sink, kept, main, inp, out, peers>>

PolledTasks(s) == Flushed(s) /\ answers[s] = {}

DispatchSame(s) ==  \* faulty: the request keeps the id of its origin
    LET m == Head(rx[s])
        n == outgoing_id[s]
    IN  /\ m.kind = "request"
        /\ outgoing' = [outgoing EXCEPT ![s][m.id] = n]
        /\ outgoing_id' = [outgoing_id EXCEPT ![s] = n + 1]
        /\ Load(s, m)

DispatchLate(s) ==  \* faulty: the oneshot is filed after the counter moved
    LET m == Head(rx[s])
        n == outgoing_id[s]
    IN  /\ m.kind = "request"
        /\ outgoing' = [outgoing EXCEPT ![s][n + 1] = m.id]
        /\ outgoing_id' = [outgoing_id EXCEPT ![s] = n + 1]
        /\ Load(s, [m EXCEPT !.id = n])

\* dispatch_event of what the other loop forwarded.
DispatchRequest(s) ==
    LET m == Head(rx[s])
        n == outgoing_id[s]
    IN  /\ m.kind = "request"
        /\ outgoing' = [outgoing EXCEPT ![s][n] = m.id]
        /\ outgoing_id' = [outgoing_id EXCEPT ![s] = n + 1]
        /\ Load(s, [m EXCEPT !.id = n])

DispatchOutgoing(s) ==
    /\ Head(rx[s]).kind = "notification"
    /\ Load(s, Head(rx[s]))
    /\ UNCHANGED <<outgoing, outgoing_id>>

TakeEvent(s) ==
    /\ rx[s] # <<>>
    /\ DispatchRequest(s) \/ DispatchOutgoing(s)
    /\ rx' = [rx EXCEPT ![s] = Tail(@)]
    /\ UNCHANGED <<tasks, answers, sink, kept, main, inp, out, peers>>

\* `expect("Sender is alive")`: in the inspector the only sender is the service
\* of the other loop.
SenderGone(s) ==
    /\ rx[s] = <<>> /\ Gone(Other(s)) /\ ~kept
    /\ End(s, "panicked")
    /\ UNCHANGED <<inp, out, peers>>

PollRxFirst(s) ==  \* faulty: events are preferred to completed tasks
    Selecting(s) /\ Flushed(s) /\ TakeEvent(s)

PollRx(s) == Selecting(s) /\ PolledTasks(s) /\ (TakeEvent(s) \/ SenderGone(s))

PolledRx(s) == PolledTasks(s) /\ rx[s] = <<>> /\ (kept \/ ~Gone(Other(s)))

----------------------------------------------------------------------------
(***************************************************************************)
(* What a socket does as a service.                                        *)
(***************************************************************************)
\* PeerSocket::send to the loop on the other side: accepted while it exists.
SendOther(s, m) ==
    rx' = IF Gone(Other(s)) THEN rx ELSE [rx EXCEPT ![Other(s)] = Append(@, m)]

Receive(s, kind) ==
    /\ Selecting(s) /\ PolledRx(s)
    /\ inp[s] # <<>> /\ Head(inp[s]).kind = kind
    /\ inp' = [inp EXCEPT ![s] = Tail(@)]
    /\ UNCHANGED <<outgoing_id, held, sink, kept, main, out, peers>>

\* on_call: queue the request for the other loop; its future joins `tasks`.
\* When that loop is gone, the oneshot goes with the event.
OnCall(s) ==
    /\ Receive(s, "request")
    /\ SendOther(s, Head(inp[s]))
    /\ LET i == Head(inp[s]).id
       IN  /\ tasks' = [tasks EXCEPT ![s] = @ \cup {i}]
           /\ answers' = IF Gone(Other(s)) THEN [answers EXCEPT ![s] = @ \cup {Stopped(i)}]
                         ELSE answers
    /\ UNCHANGED <<pc, outgoing>>

\* on_notify: when the other loop is gone, Break(Err(ServiceStopped)).
OnNotify(s) ==
    /\ Receive(s, "notification")
    /\ SendOther(s, Head(inp[s]))
    /\ pc' = IF Gone(Other(s)) THEN [pc EXCEPT ![s] = "close"] ELSE pc
    /\ UNCHANGED <<tasks, answers, outgoing>>

\* dispatch_message of a response: it resolves the oneshot filed under its id,
\* and the forwarding future gives it the id that the request had.
OnResponse(s) ==
    /\ Receive(s, "response")
    /\ LET m == Head(inp[s])
           i == outgoing[s][m.id]
           o == Other(s)
       IN  /\ outgoing' = [outgoing EXCEPT ![s][m.id] = None]
           /\ answers' = IF i = None \/ Gone(o) THEN answers
                         ELSE [answers EXCEPT ![o] = @ \cup {[m EXCEPT !.id = i]}]
    /\ UNCHANGED <<pc, rx, tasks>>

\* The peer closed its stream: run() fails.
OnEof(s) ==
    /\ Selecting(s) /\ PolledRx(s)
    /\ inp[s] = <<>> /\ ended[s]
    /\ End(s, "returned")
    /\ UNCHANGED <<inp, out, peers>>

FeedOver(s) ==  \* faulty: the sink is loaded while it still holds a message
    /\ Running(s) /\ pc[s] = "feed"
    /\ sink' = [sink EXCEPT ![s] = held[s]]
    /\ held' = [held EXCEPT ![s] = <<>>]
    /\ pc' = [pc EXCEPT ![s] = "select"]
    /\ UNCHANGED <<rx, tasks, answers, outgoing, outgoing_id, kept, main, inp, out, peers>>

\* feed: finish the previous write, then load the sink.
Feed(s) ==
    /\ Running(s) /\ pc[s] = "feed"
    /\ \/ Write(s) /\ UNCHANGED pc
       \/ Fail(s)
       \/ /\ sink[s] = <<>>
          /\ sink' = [sink EXCEPT ![s] = held[s]]
          /\ held' = [held EXCEPT ![s] = <<>>]
          /\ pc' = [pc EXCEPT ![s] = "select"]
          /\ UNCHANGED <<rx, tasks, answers, outgoing, outgoing_id, kept, main, inp, out, peers>>

\* Flush the last message after a Break.
Close(s) ==
    /\ Running(s) /\ pc[s] = "close"
    /\ \/ Write(s) /\ UNCHANGED pc
       \/ Fail(s)
       \/ sink[s] = <<>> /\ End(s, "returned") /\ UNCHANGED <<inp, out, peers>>

Turn(s) ==
    \/ Flush(s) \/ PollTasks(s) \/ PollRx(s)
    \/ OnCall(s) \/ OnNotify(s) \/ OnResponse(s) \/ OnEof(s)
    \/ Feed(s) \/ Close(s)

\* main's select! sees that a loop has ended, and the process exits.
MainReturns ==
    /\ main = "running" /\ \E s \in Sides : Gone(s)
    /\ main' = "returned"
    /\ UNCHANGED <<pc, rx, tasks, answers, outgoing, outgoing_id, held, sink, kept>>
    /\ UNCHANGED <<inp, out, peers>>

----------------------------------------------------------------------------
(***************************************************************************)
(* The peers.                                                              *)
(***************************************************************************)
Rank(s) == Len(sent[s]) + 1

\* A mix bounds the calls of both peers; one suffices for a call to be made.
Mixed(asks, calls) ==
    \E mix \in Mixes : \A s \in Sides :
        asks[s] <= mix.asks[s] /\ calls[s] - asks[s] <= mix.notifies[s]
CallsMade == [s \in Sides |-> Len(sent[s])]

Sends(s, m) ==
    /\ sending[s] = <<>> /\ ~ended[s]
    /\ sending' = [sending EXCEPT ![s] = <<m>>]
    /\ UNCHANGED <<loops, inp, out, ended, got, heard>>

PeerRequests(s) ==
    /\ asked[s] < Asks[s]
    /\ Mixed([asked EXCEPT ![s] = @ + 1], [CallsMade EXCEPT ![s] = @ + 1])
    /\ LET m == Question(asked[s] + 1, Rank(s))
       IN  Sends(s, m) /\ sent' = [sent EXCEPT ![s] = Append(@, m)]
    /\ asked' = [asked EXCEPT ![s] = @ + 1]
    /\ UNCHANGED answered

PeerNotifies(s) ==
    /\ Len(sent[s]) < asked[s] + Notifies[s]
    /\ Mixed(asked, [CallsMade EXCEPT ![s] = @ + 1])
    /\ LET m == Notice(Rank(s))
       IN  Sends(s, m) /\ sent' = [sent EXCEPT ![s] = Append(@, m)]
    /\ UNCHANGED <<asked, answered>>

\* A peer answers the requests it got once each, in any order.
PeerAnswers(s) ==
    \E k \in 1 .. Len(got[s]) :
        LET m == got[s][k]
        IN  /\ m.kind = "request" /\ m.at \notin answered[s]
            /\ Sends(s, Answer(m.id, m.at, Rank(s)))
            /\ answered' = [answered EXCEPT ![s] = @ \cup {m.at}]
            /\ UNCHANGED <<sent, asked>>

PeerWrites(s) ==
    /\ sending[s] # <<>> /\ Len(inp[s]) < Capacity
    /\ inp' = [inp EXCEPT ![s] = @ \o sending[s]]
    /\ sending' = [sending EXCEPT ![s] = <<>>]
    /\ UNCHANGED <<loops, out, ended, sent, asked, answered, got, heard>>

PeerReads(s) ==
    /\ out[s] # <<>> /\ sending[s] = <<>> /\ ~ended[s]
    /\ LET m == Head(out[s])
       IN  /\ got' = [got EXCEPT ![s] = Append(@, m)]
           /\ heard' = IF m.kind = "response" THEN heard
                       ELSE [heard EXCEPT ![s] = Append(@, m.at)]
    /\ out' = [out EXCEPT ![s] = Tail(@)]
    /\ UNCHANGED <<loops, inp, sending, ended, sent, asked, answered>>

PeerEnds(s) ==
    /\ s \in MayEnd /\ ~ended[s] /\ sending[s] = <<>>
    /\ ended' = [ended EXCEPT ![s] = TRUE]
    /\ UNCHANGED <<loops, inp, out, sending, sent, asked, answered, got, heard>>

Peer(s) ==
    \/ PeerRequests(s) \/ PeerNotifies(s) \/ PeerAnswers(s)
    \/ PeerWrites(s) \/ PeerReads(s) \/ PeerEnds(s)

Init ==
    /\ pc = [s \in Sides |-> "select"]
    /\ rx = [s \in Sides |-> <<>>]
    /\ tasks = [s \in Sides |-> {}] /\ answers = tasks
    /\ outgoing = [s \in Sides |-> [n \in Ids |-> None]]
    /\ outgoing_id = [s \in Sides |-> 0]
    /\ held = rx /\ sink = rx /\ inp = rx /\ out = rx
    /\ main = "running" /\ kept \in BOOLEAN
    /\ sending = rx /\ sent = rx /\ got = rx /\ heard = rx
    /\ asked = outgoing_id /\ answered = tasks
    /\ ended = [s \in Sides |-> FALSE]

Next == (\E s \in Sides : Turn(s) \/ Peer(s)) \/ MainReturns

Spec == Init /\ [][Next]_vars

\* The runtime polls its tasks; peers write, read and answer.
FairSpec ==
    /\ Spec
    /\ \A s \in Sides :
        /\ WF_vars(Turn(s))
        /\ WF_vars(PeerWrites(s)) /\ WF_vars(PeerReads(s)) /\ WF_vars(PeerAnswers(s))

----------------------------------------------------------------------------
\* Seen from the ends, the inspector is a channel in each direction: the
\* requests and notifications of a peer reach the other one once each and in
\* the order in which they were sent.
Made(s) == [k \in 1 .. Len(sent[s]) |-> sent[s][k].at]
EditorToChild == INSTANCE Channel WITH
    Messages <- Ranks, sent <- Made("editor"), got <- heard["child"],
    stream <- "open", verdict <- "reading"
ChildToEditor == INSTANCE Channel WITH
    Messages <- Ranks, sent <- Made("child"), got <- heard["editor"],
    stream <- "open", verdict <- "reading"
ForwardSpec == EditorToChild!Spec /\ ChildToEditor!Spec

\* Though ids are assigned anew on the way, a response that a peer reads
\* carries the id of the request it answers, comes once, and says that the
\* forwarding stopped only when the other loop has ended.
OwnAnswer ==
    \A s \in Sides : \A k \in 1 .. Len(got[s]) :
        got[s][k].kind = "response" =>
            LET r == got[s][k]
                q == sent[s][r.for]
            IN  /\ IF r.for = None THEN Gone(Other(s)) ELSE q.kind = "request" /\ q.id = r.id
                /\ \A j \in 1 .. k - 1 : got[s][j].kind = "response" => got[s][j].id # r.id

\* A call that a peer makes after a response does not arrive before it (calls
\* made before a response may arrive after it).
NoneOvertakesResponse ==
    \A s \in Sides : \A j, k \in 1 .. Len(got[s]) :
        got[s][j].kind # "response" /\ got[s][k].kind = "response" /\ j < k /\ got[s][k].for # None
            => got[s][j].at < got[s][k].at

\* Both ends of a stream write and neither reads: the loop awaits room for the
\* message in its sink, in feed or, after a Break, in the flush that ends run().
Jammed(s) ==
    /\ sending[s] # <<>> /\ Len(inp[s]) = Capacity
    /\ pc[s] \in {"feed", "close"} /\ sink[s] # <<>> /\ Len(out[s]) = Capacity

\* A request that was read is answered, with an error if the other loop ends,
\* unless its own loop or peer ends, the inspector exits, or a peer and the loop
\* it talks to block each other.
Read(s, i) == i \in tasks[s]
Answered(s, i) == \E k \in 1 .. Len(got[s]) : got[s][k].kind = "response" /\ got[s][k].id = i
ServedOrJammed ==
    \A s \in Sides : \A i \in 1 .. Asks[s] :
        Read(s, i) ~> \/ Answered(s, i) \/ main = "returned" \/ Gone(s) \/ ended[s]
                      \/ \E t \in Sides : Jammed(t)
==============================================================================
