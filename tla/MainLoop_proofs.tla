--------------------------- MODULE MainLoop_proofs ---------------------------
(***************************************************************************)
(* Proofs about MainLoop: for any requests and requesters, any capacities  *)
(* of the streams and whatever the peer and the service do, requests are   *)
(* answered once, the messages of the sockets keep their order, nobody     *)
(* waits for an answer that cannot come, and a Break flushes.              *)
(***************************************************************************)
EXTENDS MainLoop, FiniteSetTheorems, SequenceTheorems, TLAPS

\* Events and messages with tickets up to q.
EventsTo(q) ==
    [kind : {"request"}, from : Requesters, ticket : 1 .. q] \cup
    [kind : {"notify"}, ticket : 1 .. q] \cup
    [kind : {"emit"}]

MessagesTo(q) ==
    {Answer(r) : r \in Requests} \cup
    {Question(n, a, t) : n \in OutgoingIds, a \in Requesters, t \in 1 .. q} \cup
    {Notice(t) : t \in 1 .. q}

\* The loop holds a message only in feed, a request only in dispatch_message,
\* and nothing at all when it has stopped.
Hands ==
    /\ held # <<>> <=> pc = "feed"
    /\ cur # Nobody <=> pc \in Dispatching
    /\ ~Running => rx = <<>> /\ sink = <<>> /\ tasks = {}
    /\ ~Running => \A n \in OutgoingIds : outgoing[n] = Nobody

\* The queue holds the tickets that were not taken, in order.
QueueOrder ==
    /\ \A k \in 1 .. Len(rx) : Ticketed(rx[k]) => rx[k].ticket \in taken + 1 .. queued
    /\ \A j, k \in 1 .. Len(rx) :
        j < k /\ Ticketed(rx[j]) /\ Ticketed(rx[k]) => rx[j].ticket < rx[k].ticket
    /\ Running => \A t \in taken + 1 .. queued :
        \E k \in 1 .. Len(rx) : Ticketed(rx[k]) /\ rx[k].ticket = t

\* What was taken and not yet written is in the sink or being fed.
Holding(s) == s # <<>> /\ Ticketed(s[1])
SinkOrder ==
    /\ Holding(sink) => sink[1].ticket = flushed + 1
    /\ Holding(held) => held[1].ticket = taken
    /\ flushed <= taken /\ taken <= queued
    /\ Running => taken = flushed + (IF Holding(sink) THEN 1 ELSE 0) + (IF Holding(held) THEN 1 ELSE 0)

\* The result is decided when the loop is left, and by a Break before that.
ResultKept ==
    /\ pc = "close" => result \in {"ok", "handler"}
    /\ pc \notin {"close", "returned"} => result = "none"

\* A request is in one place on its way, in none before the peer has sent it,
\* and only once in the input stream.
OnePlace(r) == \E p \in Stations : \A q \in Stations : At(r, q) <=> q = p
Journey ==
    /\ \A r \in Requests :
        /\ written[r] \in 0 .. 1
        /\ r \in asked /\ Running => OnePlace(r)
        /\ r \notin asked => \A p \in Stations : ~At(r, p)
    /\ \A j, k \in 1 .. Len(inp) :
        inp[j].kind = "request" /\ inp[k].kind = "request" /\ inp[j].id = inp[k].id => j = k

\* The sender of a oneshot is in one place, and in none before its request.
InQueue(k, a) == rx[k].kind = "request" /\ rx[k].from = a
OneSender ==
    /\ \A j, k \in 1 .. Len(rx), a \in Requesters : InQueue(j, a) /\ InQueue(k, a) => j = k
    /\ \A m, n \in OutgoingIds : outgoing[m] = outgoing[n] /\ outgoing[m] # Nobody => m = n
    /\ \A k \in 1 .. Len(rx), n \in OutgoingIds, a \in Requesters : InQueue(k, a) => outgoing[n] # a
    /\ \A a \in Requesters :
        /\ req[a] = "waiting" =>
            /\ Running
            /\ (\E k \in 1 .. Len(rx) : InQueue(k, a)) \/ (\E n \in OutgoingIds : outgoing[n] = a)
        /\ req[a] = "idle" =>
            /\ \A k \in 1 .. Len(rx) : ~InQueue(k, a)
            /\ \A n \in OutgoingIds : outgoing[n] # a

\* The type invariant without the bounds that SinkOrder gives, in groups of
\* variables that steps change together.
LineTypes ==
    /\ rx \in Seq(EventsTo(queued))
    /\ held \in Seq(MessagesTo(queued)) /\ Len(held) <= 1
    /\ sink \in Seq(MessagesTo(queued)) /\ Len(sink) <= 1
    /\ out \in Seq(MessagesTo(queued)) /\ Len(out) <= OutCapacity
    /\ queued \in Nat /\ taken \in Nat /\ flushed \in Nat

LoopTypes ==
    /\ pc \in Places
    /\ result \in {"none", "ok", "handler", "io", "input"}
    /\ tasks \subseteq Requests /\ woken \subseteq tasks
    /\ cur \in Requests \cup {Nobody}
    /\ outgoing \in [OutgoingIds -> Requesters \cup {Nobody}]
    /\ outgoing_id \in OutgoingIds
    /\ busy \in BOOLEAN

UserTypes ==
    /\ req \in [Requesters -> {"idle", "waiting", "dropped", "answered", "stopped"}]
    /\ reply \in [Requesters -> Requesters \cup {Nobody}]
    /\ sockets \in BOOLEAN

PeerTypes ==
    /\ inp \in Seq(InMessages) /\ Len(inp) <= InCapacity
    /\ broken \in BOOLEAN
    /\ asked \subseteq Requests
    /\ seen \in [OutgoingIds -> Requesters \cup {Nobody}]
    /\ replies \in [OutgoingIds -> 0 .. MaxReplies]
    /\ written \in [Requests -> Nat]
    /\ budget \in [Things -> Nat]

AllTypes == LineTypes /\ LoopTypes /\ UserTypes /\ PeerTypes

IInv ==
    /\ AllTypes /\ Hands /\ QueueOrder /\ SinkOrder /\ ResultKept /\ Journey /\ OneSender /\ BreakFlushes

\* With the order of the tickets the groups make up the type invariant.
LEMMA Types == AllTypes /\ SinkOrder => TypeOK
BY DEF AllTypes, LineTypes, LoopTypes, UserTypes, PeerTypes, SinkOrder, TypeOK,
       Events, EventsTo, OutMessages, MessagesTo

----------------------------------------------------------------------------
(***************************************************************************)
(* What a step does to the messages of the sockets on their way out.       *)
(***************************************************************************)
line == <<rx, held, sink, out, queued, taken, flushed>>

Stops ==
    /\ Running /\ ~Running' /\ DropLoop
    /\ UNCHANGED <<out, queued, taken, flushed>>
Writes ==
    /\ Running /\ Running' /\ Write
    /\ UNCHANGED <<rx, held, queued, taken>>
Loads ==
    /\ Running /\ Running'
    /\ sink = <<>> /\ sink' = held /\ held' = <<>>
    /\ UNCHANGED <<rx, out, queued, taken, flushed>>
Answers ==
    /\ Running /\ Running' /\ pc # "feed"
    /\ \E r \in Requests : held' = <<Answer(r)>>
    /\ UNCHANGED <<rx, sink, out, queued, taken, flushed>>
\* The head of the queue becomes the message m of the same rank.
TakesAs(m) ==
    /\ Running /\ Running' /\ pc # "feed"
    /\ rx # <<>> /\ Head(rx).kind # "emit" /\ m.ticket = Head(rx).ticket
    /\ Ticketed(m)
    /\ rx' = Tail(rx) /\ held' = <<m>> /\ taken' = taken + 1
    /\ UNCHANGED <<sink, out, queued, flushed>>
Takes == \E m \in MessagesTo(queued) : TakesAs(m)
Handles ==
    /\ Running /\ Running'
    /\ rx # <<>> /\ Head(rx).kind = "emit" /\ rx' = Tail(rx)
    /\ UNCHANGED <<held, sink, out, queued, taken, flushed>>
\* An event joins the queue, with the next ticket if it carries one.
SendsAs(e) ==
    /\ Running /\ Running'
    /\ rx' = Append(rx, e)
    /\ IF e.kind = "emit" THEN queued' = queued ELSE e.ticket = queued + 1 /\ queued' = queued + 1
    /\ UNCHANGED <<held, sink, out, taken, flushed>>
Sends == \E e \in EventsTo(queued + 1) : SendsAs(e)
Reads ==
    /\ Running' <=> Running
    /\ out # <<>> /\ out' = Tail(out)
    /\ UNCHANGED <<rx, held, sink, queued, taken, flushed>>
Idles == (Running' <=> Running) /\ UNCHANGED line

\* The first event of the queue, and what dispatch_event makes of it.
LEMMA FirstEvent ==
  ASSUME LineTypes, rx # <<>>
  PROVE  /\ Head(rx) \in EventsTo(queued) /\ Head(rx) = rx[1] /\ Len(rx) \in Nat \ {0}
         /\ Head(rx).kind \in {"request", "notify", "emit"}
         /\ Head(rx).kind # "emit" => Head(rx).ticket \in 1 .. queued
         /\ Head(rx).kind = "request" => Head(rx).from \in Requesters
<1>1. Head(rx) \in EventsTo(queued) /\ Head(rx) = rx[1] /\ Len(rx) \in Nat \ {0}
  BY DEF LineTypes
<1> QED
  BY <1>1 DEF EventsTo

\* Every step is one of these.
LEMMA LineSteps ==
  ASSUME LineTypes, LoopTypes, PeerTypes, Hands, [Next]_vars
  PROVE  Stops \/ Writes \/ Loads \/ Answers \/ Takes \/ Handles \/ Sends \/ Reads \/ Idles
<1> USE MainLoopAssumption DEF Running, Stopped, line
<1>1. CASE UNCHANGED vars
  BY <1>1 DEF vars, loop, users, peer, Idles
<1>2. ASSUME NEW here \in {"flush", "drain"}, NEW done \in {"flush", "dispatch"},
             NEW next \in {"tasks", "waiting"}, DriveFlush(here, done, next)
      PROVE  Stops \/ Writes \/ Idles
  BY <1>2 DEF DriveFlush, Write, Return, DropLoop, Stops, Writes, Idles, users, peer
<1>3. CASE PollTasks
  BY <1>3 DEF PollTasks, LoopTypes, users, peer, Answers, Idles
<1>4. CASE PollRx
  <2>1. CASE rx # <<>>
    <3> DEFINE e == Head(rx)
    <3>1. DispatchRequest(e) \/ DispatchOutgoing(e) \/ DispatchAny(e)
      BY <1>4, <2>1 DEF PollRx
    <3>2. CASE DispatchRequest(e)
      <4>1. CASE outgoing[outgoing_id] # Nobody
        BY <1>4, <3>2, <4>1 DEF PollRx, DispatchRequest, Panic, DropLoop, Stops, users, peer
      <4>2. CASE outgoing[outgoing_id] = Nobody
        <5>1. Question(outgoing_id, e.from, e.ticket) \in MessagesTo(queued)
          BY <2>1, <3>2, FirstEvent DEF DispatchRequest, MessagesTo, LoopTypes
        <5>2. TakesAs(Question(outgoing_id, e.from, e.ticket))
          BY <1>4, <2>1, <3>2, <4>2
             DEF PollRx, DispatchRequest, TakesAs, Question, Ticketed, users, peer
        <5> QED
          BY <5>1, <5>2 DEF Takes
      <4> QED
        BY <4>1, <4>2
    <3>3. CASE DispatchOutgoing(e)
      <4>1. Notice(e.ticket) \in MessagesTo(queued)
        BY <2>1, <3>3, FirstEvent DEF DispatchOutgoing, MessagesTo
      <4>2. TakesAs(Notice(e.ticket))
        BY <1>4, <2>1, <3>3 DEF PollRx, DispatchOutgoing, TakesAs, Notice, Ticketed, users, peer
      <4> QED
        BY <4>1, <4>2 DEF Takes
    <3>4. CASE DispatchAny(e)
      BY <1>4, <2>1, <3>4 DEF PollRx, DispatchAny, Break, Handles, users, peer
    <3> QED
      BY <3>1, <3>2, <3>3, <3>4
  <2>2. CASE rx = <<>>
    BY <1>4, <2>2 DEF PollRx, Panic, DropLoop, Stops, Idles, users, peer
  <2> QED
    BY <2>1, <2>2
<1>5. CASE PollIncoming
  BY <1>5 DEF PollIncoming, Park, ReceiveBad, ReceiveRequest, ReceiveResponse,
              ReceiveNotification, Receive, Return, DropLoop, Break, Stops, Idles, users, peer
<1>6. CASE Dispatch \/ Wake
  <2>1. cur \in Requests \/ pc # "dispatch"
    BY DEF Hands, LoopTypes, Dispatching
  <2> QED
    BY <1>6, <2>1 DEF Dispatch, Wake, Answers, Idles, users, peer
<1>7. CASE Feed \/ Close
  BY <1>7 DEF Feed, Close, Write, Return, DropLoop, Loads, Writes, Stops, users, peer
<1>8. ASSUME NEW a \in Requesters, Request(a)
      PROVE  Sends \/ Idles
  <2>1. CASE ~Running
    BY <1>8, <2>1 DEF Request, Send, Idles, loop, peer
  <2>2. CASE Running
    <3> DEFINE e == [kind |-> "request", from |-> a, ticket |-> queued + 1]
    <3>1. e \in EventsTo(queued + 1)
      BY DEF EventsTo, LineTypes
    <3>2. SendsAs(e)
      BY <1>8, <2>2 DEF Request, Send, SendsAs, loop, peer
    <3> QED
      BY <3>1, <3>2 DEF Sends
  <2> QED
    BY <2>1, <2>2
<1>9. CASE Notify
  <2> DEFINE e == [kind |-> "notify", ticket |-> queued + 1]
  <2>1. e \in EventsTo(queued + 1)
    BY DEF EventsTo, LineTypes
  <2>2. SendsAs(e)
    BY <1>9 DEF Notify, Send, SendsAs, peer
  <2> QED
    BY <2>1, <2>2 DEF Sends
<1>10. CASE Emit
  <2> DEFINE e == [kind |-> "emit"]
  <2>1. e \in EventsTo(queued + 1)
    BY DEF EventsTo, LineTypes
  <2>2. SendsAs(e)
    BY <1>10 DEF Emit, Send, SendsAs, users, peer
  <2> QED
    BY <2>1, <2>2 DEF Sends
<1>11. CASE PeerReads
  BY <1>11 DEF PeerReads, Reads, loop, users
<1>12. CASE \/ \E a \in Requesters : DropRequest(a)
            \/ DropSockets \/ ServiceBusy \/ ServiceReady \/ PeerBad \/ OutputBreaks
            \/ \E r \in Requests : HandlerDone(r) \/ PeerRequest(r)
            \/ \E n \in OutgoingIds : PeerReply(n) \/ PeerStray(n)
            \/ \E r \in Requests \cup {Nobody} : PeerNotice(r)
  BY <1>12 DEF DropRequest, DropSockets, ServiceBusy, ServiceReady, PeerBad, OutputBreaks,
               HandlerDone, PeerRequest, PeerReply, PeerStray, PeerNotice, PeerSends,
               loop, users, peer, Idles
<1> QED
  BY <1>1, <1>2, <1>3, <1>4, <1>5, <1>6, <1>7, <1>8, <1>9, <1>10, <1>11, <1>12
     DEF Next, Run, Environment, PollFlush, DriveInnerFlush

\* A larger bound on the tickets admits more events and messages.
LEMMA TicketsGrow ==
  ASSUME NEW q \in Nat
  PROVE  /\ \A s \in Seq(EventsTo(q)) : s \in Seq(EventsTo(q + 1))
         /\ \A s \in Seq(MessagesTo(q)) : s \in Seq(MessagesTo(q + 1))
<1>1. 1 .. q \subseteq 1 .. q + 1
  OBVIOUS
<1>2. EventsTo(q) \subseteq EventsTo(q + 1)
  BY <1>1 DEF EventsTo
<1>3. MessagesTo(q) \subseteq MessagesTo(q + 1)
  BY <1>1 DEF MessagesTo
<1>4. ASSUME NEW S, NEW T, S \subseteq T, NEW s \in Seq(S)
      PROVE  s \in Seq(T)
  BY <1>4
<1> QED
  BY <1>2, <1>3, <1>4

\* The step without the first element of a sequence.
LEMMA TailElements ==
  ASSUME NEW S, NEW s \in Seq(S), s # <<>>
  PROVE  /\ Len(s) \in Nat \ {0} /\ Head(s) = s[1] /\ Head(s) \in S
         /\ Tail(s) \in Seq(S) /\ Len(Tail(s)) = Len(s) - 1
         /\ \A k \in 1 .. Len(s) - 1 : Tail(s)[k] = s[k + 1]
OBVIOUS

\* A sequence with one element more.
LEMMA AppendElements ==
  ASSUME NEW S, NEW s \in Seq(S), NEW e \in S
  PROVE  /\ Append(s, e) \in Seq(S) /\ Len(Append(s, e)) = Len(s) + 1 /\ Len(s) \in Nat
         /\ \A k \in 1 .. Len(s) : Append(s, e)[k] = s[k]
         /\ Append(s, e)[Len(s) + 1] = e
OBVIOUS

\* The events and messages keep their types.
LEMMA LineTypesStep ==
  ASSUME LineTypes,
         Stops \/ Writes \/ Loads \/ Answers \/ Takes \/ Handles \/ Sends \/ Reads \/ Idles
  PROVE  LineTypes'
<1> USE MainLoopAssumption
<1>1. CASE Stops
  BY <1>1 DEF Stops, DropLoop, LineTypes
<1>2. CASE Writes
  <2>1. /\ out' = Append(out, Head(sink)) /\ sink' = <<>> /\ sink # <<>> /\ Len(out) < OutCapacity
        /\ flushed' = flushed \/ flushed' = flushed + 1
        /\ UNCHANGED <<rx, held, queued, taken>>
    BY <1>2 DEF Writes, Write, Writable
  <2>2. Head(sink) \in MessagesTo(queued)
    BY <2>1, TailElements DEF LineTypes
  <2>3. out' \in Seq(MessagesTo(queued)) /\ Len(out') = Len(out) + 1
    BY <2>1, <2>2 DEF LineTypes
  <2>4. Len(out') <= OutCapacity
    BY <2>1, <2>3 DEF LineTypes
  <2> QED
    BY <2>1, <2>3, <2>4 DEF LineTypes
<1>3. CASE Loads
  BY <1>3 DEF Loads, LineTypes
<1>4. CASE Answers
  <2>1. PICK r \in Requests : held' = <<Answer(r)>>
    BY <1>4 DEF Answers
  <2>2. Answer(r) \in MessagesTo(queued)
    BY DEF MessagesTo
  <2> QED
    BY <1>4, <2>1, <2>2 DEF Answers, LineTypes
<1>5. CASE Takes
  <2>1. PICK m \in MessagesTo(queued) : TakesAs(m)
    BY <1>5 DEF Takes
  <2>2. held' \in Seq(MessagesTo(queued)) /\ Len(held') = 1
    BY <2>1 DEF TakesAs
  <2>3. rx' \in Seq(EventsTo(queued))
    BY <2>1, TailElements DEF TakesAs, LineTypes
  <2> QED
    BY <2>1, <2>2, <2>3 DEF TakesAs, LineTypes
<1>6. CASE Handles
  BY <1>6, TailElements DEF Handles, LineTypes
<1>7. CASE Sends
  <2>1. PICK e \in EventsTo(queued + 1) : SendsAs(e)
    BY <1>7 DEF Sends
  <2>2. CASE e.kind = "emit"
    <3>1. e \in EventsTo(queued)
      BY <2>2 DEF EventsTo
    <3>2. Append(rx, e) \in Seq(EventsTo(queued))
      BY <3>1, AppendElements DEF LineTypes
    <3> QED
      BY <2>1, <2>2, <3>2 DEF SendsAs, LineTypes
  <2>3. CASE e.kind # "emit"
    <3>1. queued \in Nat /\ queued' = queued + 1 /\ rx' = Append(rx, e)
          /\ UNCHANGED <<held, sink, out, taken, flushed>>
      BY <2>1, <2>3 DEF SendsAs, LineTypes
    <3>2. rx \in Seq(EventsTo(queued + 1))
      BY <3>1, TicketsGrow DEF LineTypes
    <3>3. rx' \in Seq(EventsTo(queued + 1))
      BY <3>1, <3>2, AppendElements
    <3>4. /\ held \in Seq(MessagesTo(queued + 1)) /\ sink \in Seq(MessagesTo(queued + 1))
          /\ out \in Seq(MessagesTo(queued + 1))
      BY <3>1, TicketsGrow DEF LineTypes
    <3> QED
      BY <3>1, <3>3, <3>4 DEF LineTypes
  <2> QED
    BY <2>2, <2>3
<1>8. CASE Reads
  BY <1>8, TailElements DEF Reads, LineTypes
<1>9. CASE Idles
  BY <1>9 DEF Idles, line, LineTypes
<1> QED
  BY <1>1, <1>2, <1>3, <1>4, <1>5, <1>6, <1>7, <1>8, <1>9

\* A message of the sockets that is in the sink or being fed has a ticket.
LEMMA Tickets ==
  ASSUME LineTypes
  PROVE  /\ \A k \in 1 .. Len(rx) : rx[k] \in EventsTo(queued)
         /\ \A k \in 1 .. Len(rx) : Ticketed(rx[k]) <=> rx[k].kind # "emit"
         /\ \A k \in 1 .. Len(rx) : Ticketed(rx[k]) => rx[k].ticket \in Nat
         /\ Holding(sink) => sink[1].ticket \in Nat
         /\ Holding(held) => held[1].ticket \in Nat
<1>1. \A k \in 1 .. Len(rx) : rx[k] \in EventsTo(queued)
  BY DEF LineTypes
<1>2. ASSUME NEW m \in MessagesTo(queued), Ticketed(m)
      PROVE  m.ticket \in Nat
  BY <1>2 DEF MessagesTo, Answer, Question, Notice, Ticketed, LineTypes
<1>3. sink # <<>> => sink[1] \in MessagesTo(queued)
  BY DEF LineTypes
<1>4. held # <<>> => held[1] \in MessagesTo(queued)
  BY DEF LineTypes
<1>5. \A k \in 1 .. Len(rx) : Ticketed(rx[k]) => rx[k].ticket \in Nat
  BY <1>1 DEF EventsTo, Ticketed, LineTypes
<1>6. \A k \in 1 .. Len(rx) : Ticketed(rx[k]) <=> rx[k].kind # "emit"
  BY <1>1 DEF EventsTo, Ticketed
<1> QED
  BY <1>1, <1>2, <1>3, <1>4, <1>5, <1>6 DEF Holding

\* The first event of the queue that has a ticket has the next one.
LEMMA NextTicket ==
  ASSUME LineTypes, SinkOrder, QueueOrder, Running, rx # <<>>, Head(rx).kind # "emit"
  PROVE  Head(rx).ticket = taken + 1 /\ taken < queued
<1>1. Len(rx) \in Nat \ {0} /\ Head(rx) = rx[1] /\ Ticketed(rx[1])
  BY FirstEvent, Tickets DEF LineTypes
<1>2. rx[1].ticket \in taken + 1 .. queued
  BY <1>1 DEF QueueOrder
<1>3. taken + 1 \in taken + 1 .. queued
  BY <1>2 DEF LineTypes
<1>4. PICK k \in 1 .. Len(rx) : Ticketed(rx[k]) /\ rx[k].ticket = taken + 1
  BY <1>3 DEF QueueOrder
<1>5. k = 1 \/ rx[1].ticket < rx[k].ticket
  BY <1>1, <1>4 DEF QueueOrder
<1> QED
  BY <1>1, <1>2, <1>4, <1>5 DEF LineTypes

\* The queue keeps its order.
LEMMA QueueOrderStep ==
  ASSUME LineTypes, LineTypes', SinkOrder, QueueOrder,
         Stops \/ Writes \/ Loads \/ Answers \/ Takes \/ Handles \/ Sends \/ Reads \/ Idles
  PROVE  QueueOrder'
<1>0. queued \in Nat /\ taken \in Nat /\ Len(rx) \in Nat
  BY DEF LineTypes
<1>1. CASE Stops
  BY <1>1 DEF Stops, DropLoop, QueueOrder
<1>2. CASE UNCHANGED <<rx, queued, taken>> /\ (Running' => Running)
  BY <1>2 DEF QueueOrder
<1>3. CASE Takes \/ Handles
  <2>1. /\ rx # <<>> /\ rx' = Tail(rx) /\ queued' = queued /\ Running
        /\ taken' = IF Head(rx).kind = "emit" THEN taken ELSE taken + 1
    BY <1>3 DEF Takes, TakesAs, Handles
  <2>2. /\ Len(rx) \in Nat \ {0} /\ Head(rx) = rx[1] /\ Len(rx') = Len(rx) - 1
        /\ \A k \in 1 .. Len(rx) - 1 : rx'[k] = rx[k + 1]
    BY <2>1, TailElements DEF LineTypes
  <2>3. Head(rx).kind # "emit" => Head(rx).ticket = taken + 1 /\ taken < queued
    BY <2>1, NextTicket
  <2>4. Ticketed(rx[1]) <=> Head(rx).kind # "emit"
    BY <2>2, Tickets
  <2>5. ASSUME NEW k \in 1 .. Len(rx'), Ticketed(rx'[k])
        PROVE  rx'[k].ticket \in taken' + 1 .. queued
    <3>1. k + 1 \in 1 .. Len(rx) /\ rx'[k] = rx[k + 1]
      BY <2>2
    <3>2. rx[k + 1].ticket \in taken + 1 .. queued
      BY <2>5, <3>1 DEF QueueOrder
    <3>3. Ticketed(rx[1]) => rx[1].ticket < rx[k + 1].ticket
      <4>1. 1 \in 1 .. Len(rx) /\ 1 < k + 1 /\ Ticketed(rx[k + 1])
        BY <2>2, <2>5, <3>1
      <4> QED
        BY <3>1, <4>1 DEF QueueOrder
    <3> QED
      BY <1>0, <2>1, <2>2, <2>3, <2>4, <3>1, <3>2, <3>3
  <2>6. ASSUME NEW j \in 1 .. Len(rx'), NEW k \in 1 .. Len(rx'), j < k, Ticketed(rx'[j]), Ticketed(rx'[k])
        PROVE  rx'[j].ticket < rx'[k].ticket
    <3>1. /\ j + 1 \in 1 .. Len(rx) /\ rx'[j] = rx[j + 1]
          /\ k + 1 \in 1 .. Len(rx) /\ rx'[k] = rx[k + 1] /\ j + 1 < k + 1
      BY <2>2, <2>6
    <3> QED
      BY <2>6, <3>1 DEF QueueOrder
  <2>7. ASSUME NEW t \in taken' + 1 .. queued
        PROVE  \E k \in 1 .. Len(rx') : Ticketed(rx'[k]) /\ rx'[k].ticket = t
    <3>1. t \in taken + 1 .. queued /\ (Head(rx).kind # "emit" => t # taken + 1)
      BY <1>0, <2>1
    <3>2. PICK k \in 1 .. Len(rx) : Ticketed(rx[k]) /\ rx[k].ticket = t
      BY <2>1, <3>1 DEF QueueOrder
    <3>3. k # 1
      BY <2>2, <2>3, <2>4, <3>1, <3>2
    <3>4. k - 1 \in 1 .. Len(rx') /\ rx'[k - 1] = rx[(k - 1) + 1] /\ (k - 1) + 1 = k
      BY <2>2, <3>3
    <3> QED
      BY <3>2, <3>4
  <2> QED
    BY <2>1, <2>5, <2>6, <2>7 DEF QueueOrder
<1>4. CASE Sends
  <2>1. PICK e \in EventsTo(queued + 1) : SendsAs(e)
    BY <1>4 DEF Sends
  <2>2. /\ rx \in Seq(EventsTo(queued + 1))
        /\ Running /\ rx' = Append(rx, e) /\ taken' = taken
        /\ IF e.kind = "emit" THEN queued' = queued ELSE e.ticket = queued + 1 /\ queued' = queued + 1
    BY <1>0, <2>1, TicketsGrow DEF SendsAs, LineTypes
  <2>3. /\ Len(rx') = Len(rx) + 1 /\ rx'[Len(rx) + 1] = e
        /\ \A k \in 1 .. Len(rx) : rx'[k] = rx[k]
    BY <2>2, AppendElements
  <2>4. Ticketed(e) <=> e.kind # "emit"
    BY DEF Ticketed, EventsTo
  <2>5. ASSUME NEW k \in 1 .. Len(rx'), Ticketed(rx'[k])
        PROVE  rx'[k].ticket \in taken + 1 .. queued'
    <3>1. CASE k \in 1 .. Len(rx)
      BY <1>0, <2>2, <2>3, <2>5, <3>1 DEF QueueOrder
    <3>2. CASE k = Len(rx) + 1
      BY <1>0, <2>2, <2>3, <2>4, <2>5, <3>2 DEF SinkOrder
    <3> QED
      BY <1>0, <2>3, <3>1, <3>2
  <2>6. ASSUME NEW j \in 1 .. Len(rx'), NEW k \in 1 .. Len(rx'), j < k, Ticketed(rx'[j]), Ticketed(rx'[k])
        PROVE  rx'[j].ticket < rx'[k].ticket
    <3>1. j \in 1 .. Len(rx) /\ rx'[j] = rx[j] /\ rx[j].ticket \in taken + 1 .. queued
      BY <1>0, <2>3, <2>6 DEF QueueOrder
    <3>2. CASE k \in 1 .. Len(rx)
      BY <2>3, <2>6, <3>1, <3>2 DEF QueueOrder
    <3>3. CASE k = Len(rx) + 1
      BY <1>0, <2>2, <2>3, <2>4, <2>6, <3>1, <3>3
    <3> QED
      BY <1>0, <2>3, <3>2, <3>3
  <2>7. ASSUME NEW t \in taken + 1 .. queued'
        PROVE  \E k \in 1 .. Len(rx') : Ticketed(rx'[k]) /\ rx'[k].ticket = t
    <3>1. CASE t \in taken + 1 .. queued
      <4>1. PICK k \in 1 .. Len(rx) : Ticketed(rx[k]) /\ rx[k].ticket = t
        BY <2>2, <3>1 DEF QueueOrder
      <4>2. k \in 1 .. Len(rx') /\ rx'[k] = rx[k]
        BY <1>0, <2>3
      <4> QED
        BY <4>1, <4>2
    <3>2. CASE t \notin taken + 1 .. queued
      <4>1. e.kind # "emit" /\ t = queued + 1 /\ e.ticket = t
        BY <1>0, <2>2, <3>2
      <4>2. Len(rx) + 1 \in 1 .. Len(rx')
        BY <1>0, <2>3
      <4> QED
        BY <2>3, <2>4, <4>1, <4>2
    <3> QED
      BY <3>1, <3>2
  <2> QED
    BY <2>2, <2>5, <2>6, <2>7 DEF QueueOrder
<1> QED
  BY <1>1, <1>2, <1>3, <1>4 DEF Writes, Write, Loads, Answers, Reads, Idles, line, Running

\* What is taken is in the sink or being fed until it is written, in order.
LEMMA SinkOrderStep ==
  ASSUME LineTypes, Hands, SinkOrder, QueueOrder,
         Stops \/ Writes \/ Loads \/ Answers \/ Takes \/ Handles \/ Sends \/ Reads \/ Idles
  PROVE  SinkOrder'
<1>0. queued \in Nat /\ taken \in Nat /\ flushed \in Nat
  BY DEF LineTypes
<1>1. CASE Stops
  BY <1>1 DEF Stops, DropLoop, SinkOrder, Holding
<1>2. CASE Writes
  <2>1. /\ sink # <<>> /\ sink' = <<>> /\ UNCHANGED <<held, queued, taken>>
        /\ flushed' = IF Head(sink).kind = "response" THEN flushed ELSE flushed + 1
        /\ Running
    BY <1>2 DEF Writes, Write, Writable
  <2>2. Head(sink) = sink[1] /\ sink[1] \in MessagesTo(queued)
    BY <2>1 DEF LineTypes
  <2>3. Holding(sink) <=> Head(sink).kind # "response"
    BY <2>1, <2>2 DEF Holding, Ticketed, MessagesTo, Answer, Question, Notice
  <2>4. ~Holding(sink') /\ (Holding(held') <=> Holding(held))
    BY <2>1 DEF Holding
  <2> QED
    BY <1>0, <2>1, <2>2, <2>3, <2>4 DEF SinkOrder
<1>3. CASE Loads
  <2>1. ~Holding(sink) /\ ~Holding(held') /\ (Holding(sink') <=> Holding(held))
    BY <1>3 DEF Loads, Holding
  <2>2. Holding(held) => taken = flushed + 1
    BY <1>0, <1>3, <2>1 DEF Loads, SinkOrder
  <2> QED
    BY <1>0, <1>3, <2>1, <2>2 DEF Loads, SinkOrder
<1>4. CASE Answers
  <2>1. held = <<>>
    BY <1>4 DEF Answers, Hands
  <2>2. ~Holding(held) /\ ~Holding(held') /\ (Holding(sink') <=> Holding(sink))
    BY <1>4, <2>1 DEF Answers, Answer, Holding, Ticketed
  <2> QED
    BY <1>4, <2>2 DEF Answers, SinkOrder
<1>5. CASE Takes
  <2>1. PICK m \in MessagesTo(queued) : TakesAs(m)
    BY <1>5 DEF Takes
  <2>2. held = <<>> /\ ~Holding(held)
    BY <2>1 DEF TakesAs, Hands, Holding
  <2>3. m.ticket = taken + 1 /\ taken < queued
    BY <2>1, NextTicket DEF TakesAs
  <2>4. Holding(held') /\ held'[1] = m /\ (Holding(sink') <=> Holding(sink))
    BY <2>1 DEF TakesAs, Holding
  <2> QED
    BY <1>0, <2>1, <2>2, <2>3, <2>4 DEF TakesAs, SinkOrder
<1>6. CASE Handles \/ Reads \/ Idles
  BY <1>6 DEF Handles, Reads, Idles, line, SinkOrder, Holding
<1>7. CASE Sends
  <2>1. queued' \in {queued, queued + 1} /\ UNCHANGED <<held, sink, taken, flushed>> /\ Running
    BY <1>7 DEF Sends, SendsAs
  <2> QED
    BY <1>0, <2>1 DEF SinkOrder, Holding
<1> QED
  BY <1>1, <1>2, <1>3, <1>4, <1>5, <1>6, <1>7

\* The two parts of the order make up the order across sink, feed and queue.
LEMMA OrderHolds == LineTypes /\ QueueOrder /\ SinkOrder => SocketOrder
<1> SUFFICES ASSUME LineTypes, QueueOrder, SinkOrder, Running
             PROVE  LET pending == sink \o held \o rx
                        places == {k \in 1 .. Len(pending) : Ticketed(pending[k])}
                    IN  /\ {pending[k].ticket : k \in places} = flushed + 1 .. queued
                        /\ \A j, k \in places : j < k => pending[j].ticket < pending[k].ticket
  BY DEF SocketOrder
<1> DEFINE S == Len(sink)
           H == Len(held)
           pending == sink \o held \o rx
           places == {k \in 1 .. Len(pending) : Ticketed(pending[k])}
<1>0. /\ queued \in Nat /\ taken \in Nat /\ flushed \in Nat /\ Len(rx) \in Nat
      /\ S \in 0 .. 1 /\ H \in 0 .. 1
      /\ S = 0 <=> sink = <<>>
      /\ H = 0 <=> held = <<>>
  <2>1. ASSUME NEW T, NEW s \in Seq(T), Len(s) <= 1
        PROVE  Len(s) \in 0 .. 1 /\ (Len(s) = 0 <=> s = <<>>)
    <3>1. Len(s) \in Nat /\ (s = <<>> => Len(s) = 0)
      OBVIOUS
    <3>2. Len(s) = 0 => s = <<>>
      BY EmptySeq
    <3> QED
      BY <2>1, <3>1, <3>2
  <2> QED
    BY <2>1 DEF LineTypes
<1>1. /\ Len(pending) = S + H + Len(rx)
      /\ S = 1 => pending[1] = sink[1]
      /\ H = 1 => pending[S + 1] = held[1]
      /\ \A k \in 1 .. Len(rx) : pending[S + H + k] = rx[k]
  BY DEF LineTypes
<1>2. /\ flushed <= taken /\ taken <= queued
      /\ Holding(sink) <=> S = 1 /\ Ticketed(sink[1])
      /\ Holding(held) <=> H = 1 /\ Ticketed(held[1])
      /\ Holding(sink) => sink[1].ticket = flushed + 1
      /\ Holding(held) => held[1].ticket = taken
      /\ taken = flushed + (IF Holding(sink) THEN 1 ELSE 0) + (IF Holding(held) THEN 1 ELSE 0)
  BY <1>0 DEF SinkOrder, Holding
<1> HIDE DEF pending, S, H
<1>3. ASSUME NEW k \in places
      PROVE  \/ k = 1 /\ S = 1 /\ Holding(sink) /\ pending[k] = sink[1]
             \/ k = S + 1 /\ H = 1 /\ Holding(held) /\ pending[k] = held[1]
             \/ \E i \in 1 .. Len(rx) : k = S + H + i /\ pending[k] = rx[i] /\ Ticketed(rx[i])
  <2>1. k \in 1 .. S + H + Len(rx) /\ Ticketed(pending[k])
    BY <1>1
  <2>2. (k = 1 /\ S = 1) \/ (k = S + 1 /\ H = 1) \/ \E i \in 1 .. Len(rx) : k = S + H + i
    <3>1. k > S + H => k - S - H \in 1 .. Len(rx) /\ k = S + H + (k - S - H)
      BY <1>0, <2>1
    <3> QED
      BY <1>0, <2>1, <3>1
  <2> QED
    BY <1>1, <1>2, <2>1, <2>2
<1>4. ASSUME NEW k \in places
      PROVE  pending[k].ticket \in flushed + 1 .. queued
  BY <1>0, <1>2, <1>3 DEF QueueOrder
<1>5. ASSUME NEW t \in flushed + 1 .. queued
      PROVE  \E k \in places : pending[k].ticket = t
  <2>1. CASE t > taken
    <3>1. PICK i \in 1 .. Len(rx) : Ticketed(rx[i]) /\ rx[i].ticket = t
      BY <1>0, <2>1 DEF QueueOrder
    <3>2. S + H + i \in 1 .. Len(pending) /\ pending[S + H + i] = rx[i]
      BY <1>0, <1>1
    <3> QED
      BY <3>1, <3>2
  <2>2. CASE t <= taken /\ Holding(held) /\ t = taken
    <3>1. S + 1 \in 1 .. Len(pending) /\ pending[S + 1] = held[1] /\ Ticketed(held[1])
      BY <1>0, <1>1, <1>2, <2>2
    <3> QED
      BY <1>2, <2>2, <3>1
  <2>3. CASE t <= taken /\ ~(Holding(held) /\ t = taken)
    <3>1. Holding(sink) /\ t = flushed + 1
      BY <1>0, <1>2, <2>3
    <3>2. 1 \in 1 .. Len(pending) /\ pending[1] = sink[1] /\ Ticketed(sink[1])
      BY <1>0, <1>1, <1>2, <3>1
    <3> QED
      BY <1>2, <3>1, <3>2
  <2> QED
    BY <1>0, <2>1, <2>2, <2>3
<1>6. ASSUME NEW j \in places, NEW k \in places, j < k
      PROVE  pending[j].ticket < pending[k].ticket
  <2>1. CASE \E i \in 1 .. Len(rx) : j = S + H + i /\ pending[j] = rx[i] /\ Ticketed(rx[i])
    <3>1. PICK i \in 1 .. Len(rx) : j = S + H + i /\ pending[j] = rx[i] /\ Ticketed(rx[i])
      BY <2>1
    <3>2. PICK l \in 1 .. Len(rx) : k = S + H + l /\ pending[k] = rx[l] /\ Ticketed(rx[l])
      BY <1>0, <1>3, <1>6, <3>1
    <3>3. i < l
      BY <1>0, <1>6, <3>1, <3>2
    <3> QED
      BY <3>1, <3>2, <3>3 DEF QueueOrder
  <2>2. CASE j = S + 1 /\ H = 1 /\ Holding(held) /\ pending[j] = held[1]
    <3>1. PICK l \in 1 .. Len(rx) : k = S + H + l /\ pending[k] = rx[l] /\ Ticketed(rx[l])
      BY <1>0, <1>3, <1>6, <2>2
    <3>2. rx[l].ticket \in taken + 1 .. queued
      BY <3>1 DEF QueueOrder
    <3> QED
      BY <1>0, <1>2, <2>2, <3>1, <3>2
  <2>3. CASE j = 1 /\ S = 1 /\ Holding(sink) /\ pending[j] = sink[1]
    <3>1. \/ Holding(held) /\ pending[k] = held[1]
          \/ \E i \in 1 .. Len(rx) : pending[k] = rx[i] /\ Ticketed(rx[i])
      BY <1>3, <1>6, <2>3
    <3>2. CASE Holding(held) /\ pending[k] = held[1]
      BY <1>0, <1>2, <2>3, <3>2
    <3>3. CASE \E i \in 1 .. Len(rx) : pending[k] = rx[i] /\ Ticketed(rx[i])
      <4>1. PICK i \in 1 .. Len(rx) : pending[k] = rx[i] /\ Ticketed(rx[i])
        BY <3>3
      <4>2. rx[i].ticket \in taken + 1 .. queued
        BY <4>1 DEF QueueOrder
      <4> QED
        BY <1>0, <1>2, <2>3, <4>1, <4>2
    <3> QED
      BY <3>1, <3>2, <3>3
  <2> QED
    BY <1>3, <2>1, <2>2, <2>3
<1>7. {pending[k].ticket : k \in places} = flushed + 1 .. queued
  BY <1>4, <1>5
<1> QED
  BY <1>6, <1>7 DEF pending

----------------------------------------------------------------------------
(***************************************************************************)
(* The other variables, action by action.                                  *)
(***************************************************************************)
\* A message of the peer, as it reads them and as the loop does.
LEMMA FirstMessage ==
  ASSUME PeerTypes, inp # <<>>
  PROVE  /\ Head(inp) \in InMessages /\ Tail(inp) \in Seq(InMessages)
         /\ Len(inp) \in Nat \ {0} /\ Len(Tail(inp)) = Len(inp) - 1
         /\ Head(inp).kind = "request" => Head(inp).id \in Requests
         /\ Head(inp).kind = "response" =>
              Head(inp).id \in OutgoingIds /\ Head(inp).for \in Requesters \cup {Nobody}
<1>1. /\ Head(inp) \in InMessages /\ Tail(inp) \in Seq(InMessages)
      /\ Len(inp) \in Nat \ {0} /\ Len(Tail(inp)) = Len(inp) - 1
  BY TailElements DEF PeerTypes
<1> QED
  BY <1>1 DEF InMessages

\* The variables of the loop keep their types.
LEMMA LoopTypesStep ==
  ASSUME AllTypes, Hands, [Next]_vars
  PROVE  LoopTypes'
<1> USE MainLoopAssumption DEF AllTypes, LoopTypes, Places, Scanning, Dispatching, Stopped
<1>1. CASE UNCHANGED vars
  BY <1>1 DEF vars, loop
<1>2. ASSUME NEW here \in {"flush", "drain"}, NEW done \in {"flush", "dispatch"},
             NEW next \in {"tasks", "waiting"}, DriveFlush(here, done, next)
      PROVE  LoopTypes'
  BY <1>2 DEF DriveFlush, Write, Return, DropLoop
<1>3. CASE PollTasks
  BY <1>3 DEF PollTasks
<1>4. CASE PollRx
  <2>1. CASE rx # <<>> /\ DispatchRequest(Head(rx))
    <3>1. Head(rx).from \in Requesters
      BY <2>1, FirstEvent DEF DispatchRequest
    <3>2. (outgoing_id + 1) % IdLimit \in OutgoingIds
      BY DEF OutgoingIds
    <3> QED
      BY <2>1, <3>1, <3>2 DEF DispatchRequest, Panic, DropLoop
  <2>2. CASE rx # <<>> /\ (DispatchOutgoing(Head(rx)) \/ DispatchAny(Head(rx)))
    BY <2>2 DEF DispatchOutgoing, DispatchAny, Break
  <2>3. CASE rx = <<>>
    BY <1>4, <2>3 DEF PollRx, Panic, DropLoop
  <2> QED
    BY <1>4, <2>1, <2>2, <2>3 DEF PollRx
<1>5. CASE PollIncoming
  <2>1. CASE Park
    BY <2>1 DEF Park
  <2>2. CASE ReceiveBad
    BY <2>2 DEF ReceiveBad, Return, DropLoop
  <2>3. CASE ReceiveRequest
    BY <2>3, FirstMessage DEF ReceiveRequest, Receive
  <2>4. CASE ReceiveResponse
    BY <2>4, FirstMessage DEF ReceiveResponse, Receive
  <2>5. CASE ReceiveNotification
    BY <2>5 DEF ReceiveNotification, Break
  <2> QED
    BY <1>5, <2>1, <2>2, <2>3, <2>4, <2>5 DEF PollIncoming
<1>6. CASE Dispatch
  <2>1. cur \in Requests
    BY <1>6 DEF Dispatch, Hands
  <2> QED
    BY <1>6, <2>1 DEF Dispatch
<1>7. CASE Wake
  BY <1>7 DEF Wake
<1>8. CASE Feed \/ Close
  BY <1>8 DEF Feed, Close, Write, Return, DropLoop
<1>9. ASSUME NEW r \in Requests, HandlerDone(r)
      PROVE  LoopTypes'
  BY <1>9 DEF HandlerDone
<1>10. CASE ServiceBusy \/ ServiceReady
  BY <1>10 DEF ServiceBusy, ServiceReady, loop
<1>11. CASE \/ \E a \in Requesters : Request(a) \/ DropRequest(a)
            \/ Notify \/ Emit \/ DropSockets \/ PeerBad \/ PeerReads \/ OutputBreaks
            \/ \E r \in Requests : PeerRequest(r)
            \/ \E n \in OutgoingIds : PeerReply(n) \/ PeerStray(n)
            \/ \E r \in Requests \cup {Nobody} : PeerNotice(r)
  <2>1. UNCHANGED <<pc, result, tasks, woken, cur, outgoing, outgoing_id, busy>>
    BY <1>11 DEF Request, Send, DropRequest, Notify, Emit, DropSockets, PeerBad, PeerReads,
                 OutputBreaks, PeerRequest, PeerReply, PeerStray, PeerNotice, PeerSends, loop
  <2> QED
    BY <2>1
<1> QED
  BY <1>1, <1>2, <1>3, <1>4, <1>5, <1>6, <1>7, <1>8, <1>9, <1>10, <1>11
     DEF Next, Run, Environment, PollFlush, DriveInnerFlush

\* What the steps do to the users of the sockets.
LEMMA UserSteps ==
  ASSUME AllTypes, [Next]_vars
  PROVE  \/ UNCHANGED <<req, reply, sockets>>
         \/ DropLoop /\ UNCHANGED <<reply, sockets>>
         \/ ReceiveResponse
         \/ \E a \in Requesters : Request(a) \/ DropRequest(a)
         \/ DropSockets
<1>1. CASE UNCHANGED vars
  BY <1>1 DEF vars, users
<1>2. CASE Run
  BY <1>2 DEF Run, PollFlush, DriveInnerFlush, DriveFlush, Write, Return, Panic, PollTasks, PollRx,
              DispatchRequest, DispatchOutgoing, DispatchAny, PollIncoming, Park, ReceiveBad,
              ReceiveRequest, ReceiveNotification, Dispatch, Wake, Feed, Close, users
<1>3. CASE Environment
  BY <1>3 DEF Environment, Notify, Emit, HandlerDone, ServiceBusy, ServiceReady, PeerBad, PeerReads,
              OutputBreaks, PeerRequest, PeerReply, PeerStray, PeerNotice, PeerSends, users
<1> QED
  BY <1>1, <1>2, <1>3 DEF Next

\* The variables of the users keep their types.
LEMMA UserTypesStep ==
  ASSUME AllTypes, [Next]_vars
  PROVE  UserTypes'
<1> USE DEF AllTypes, UserTypes
<1>1. CASE ReceiveResponse
  <2>1. Head(inp).id \in OutgoingIds /\ Head(inp).for \in Requesters \cup {Nobody}
    BY <1>1, FirstMessage DEF ReceiveResponse, Receive
  <2> QED
    BY <1>1, <2>1 DEF ReceiveResponse, LoopTypes
<1>2. CASE \E a \in Requesters : Request(a) \/ DropRequest(a)
  BY <1>2 DEF Request, DropRequest
<1>3. CASE DropSockets
  BY <1>3 DEF DropSockets
<1>4. CASE DropLoop /\ UNCHANGED <<reply, sockets>>
  BY <1>4 DEF DropLoop
<1> QED
  BY <1>1, <1>2, <1>3, <1>4, UserSteps

\* A counter of a function counts up.
LEMMA CountUp ==
  ASSUME NEW S, NEW f \in [S -> Nat], NEW x \in S
  PROVE  /\ [f EXCEPT ![x] = @ + 1] \in [S -> Nat]
         /\ \A m \in Nat : f \in [S -> 0 .. m] /\ f[x] < m => [f EXCEPT ![x] = @ + 1] \in [S -> 0 .. m]
<1>1. f[x] + 1 \in Nat
  OBVIOUS
<1>2. [f EXCEPT ![x] = f[x] + 1] \in [S -> Nat]
  BY <1>1
<1>3. ASSUME NEW m \in Nat, f \in [S -> 0 .. m], f[x] < m
      PROVE  [f EXCEPT ![x] = f[x] + 1] \in [S -> 0 .. m]
  <2>1. f[x] + 1 \in 0 .. m
    BY <1>3
  <2> QED
    BY <1>3, <2>1
<1> QED
  BY <1>2, <1>3

\* The variables of the peer and the budget keep their types.
LEMMA PeerTypesStep ==
  ASSUME AllTypes, [Next]_vars
  PROVE  PeerTypes'
<1> USE MainLoopAssumption DEF AllTypes, PeerTypes
<1>0. ASSUME NEW thing \in Things, Spend(thing)
      PROVE  budget' \in [Things -> Nat]
  BY <1>0 DEF Spend
<1>1. CASE UNCHANGED vars
  BY <1>1 DEF vars, peer
<1>2. ASSUME Write
      PROVE  PeerTypes'
  <2>1. Head(sink) \in MessagesTo(queued)
    BY <1>2, TailElements DEF Write, Writable, LineTypes
  <2>2. Head(sink).kind = "response" => Head(sink).id \in Requests
    BY <2>1 DEF MessagesTo, Answer, Question, Notice
  <2>3. written' = written \/ \E r \in Requests : written' = [written EXCEPT ![r] = @ + 1]
    BY <1>2, <2>2 DEF Write
  <2>4. written' \in [Requests -> Nat]
    <3>1. \A r \in Requests : [written EXCEPT ![r] = @ + 1] \in [Requests -> Nat]
      BY CountUp
    <3> QED
      BY <2>3, <3>1, Zenon
  <2>5. UNCHANGED <<inp, broken, asked, seen, replies, budget>>
    BY <1>2 DEF Write
  <2> QED
    BY <2>4, <2>5
<1>3. CASE PollFlush \/ DriveInnerFlush \/ Feed \/ Close
  <2>1. Write \/ UNCHANGED <<peer, budget>>
    BY <1>3 DEF PollFlush, DriveInnerFlush, DriveFlush, Feed, Close
  <2> QED
    BY <1>2, <2>1 DEF peer
<1>4. CASE PollTasks \/ PollRx \/ Dispatch \/ Wake \/ Park
  <2>1. UNCHANGED peer /\ (UNCHANGED budget \/ Spend("break"))
    <3>1. CASE PollRx
      BY <3>1 DEF PollRx, DispatchRequest, DispatchOutgoing, DispatchAny, Break
    <3> QED
      BY <1>4, <3>1 DEF PollTasks, Dispatch, Wake, Park
  <2> QED
    BY <1>0, <2>1 DEF peer, Things
<1>5. CASE ReceiveBad \/ ReceiveRequest \/ ReceiveResponse \/ ReceiveNotification
  <2>1. inp # <<>> /\ inp' = Tail(inp) /\ UNCHANGED <<broken, asked, seen, replies, written>>
    BY <1>5 DEF ReceiveBad, ReceiveRequest, ReceiveResponse, ReceiveNotification, Receive
  <2>2. UNCHANGED budget \/ Spend("break")
    BY <1>5 DEF ReceiveBad, ReceiveRequest, ReceiveResponse, ReceiveNotification, Break
  <2>3. budget' \in [Things -> Nat]
    BY <1>0, <2>2 DEF Things
  <2>4. inp' \in Seq(InMessages) /\ Len(inp') <= InCapacity
    BY <2>1, FirstMessage
  <2> QED
    BY <2>1, <2>3, <2>4
<1>6. CASE \/ \E r \in Requests : PeerRequest(r)
           \/ \E n \in OutgoingIds : PeerReply(n) \/ PeerStray(n)
           \/ \E r \in Requests \cup {Nobody} : PeerNotice(r)
           \/ PeerBad
  <2>1. PICK m \in InMessages : PeerSends(m)
    <3>1. \A r \in Requests : [kind |-> "request", id |-> r] \in InMessages
      BY DEF InMessages
    <3>2. \A n \in OutgoingIds : [kind |-> "response", id |-> n, for |-> seen[n]] \in InMessages
      BY DEF InMessages
    <3>3. \A n \in OutgoingIds : [kind |-> "response", id |-> n, for |-> Nobody] \in InMessages
      BY DEF InMessages
    <3>4. \A r \in Requests \cup {Nobody} : [kind |-> "notification", cancels |-> r] \in InMessages
      BY DEF InMessages
    <3>5. [kind |-> "bad"] \in InMessages
      BY DEF InMessages
    <3> QED
      BY <1>6, <3>1, <3>2, <3>3, <3>4, <3>5 DEF PeerRequest, PeerReply, PeerStray, PeerNotice, PeerBad
  <2>2. inp' \in Seq(InMessages) /\ Len(inp') = Len(inp) + 1 /\ Len(inp) < InCapacity /\ Len(inp) \in Nat
    BY <2>1, AppendElements DEF PeerSends
  <2>3. UNCHANGED <<broken, seen, written>>
    BY <2>1 DEF PeerSends
  <2>4. asked' = asked \/ \E r \in Requests : asked' = asked \cup {r}
    BY <1>6 DEF PeerRequest, PeerReply, PeerStray, PeerNotice, PeerBad
  <2>5. \/ replies' = replies
        \/ \E n \in OutgoingIds : replies[n] < MaxReplies /\ replies' = [replies EXCEPT ![n] = @ + 1]
    BY <1>6 DEF PeerRequest, PeerReply, PeerStray, PeerNotice, PeerBad
  <2>6. replies' \in [OutgoingIds -> 0 .. MaxReplies]
    <3>1. replies \in [OutgoingIds -> Nat] /\ MaxReplies \in Nat
      OBVIOUS
    <3>2. \A n \in OutgoingIds : replies[n] < MaxReplies =>
            [replies EXCEPT ![n] = @ + 1] \in [OutgoingIds -> 0 .. MaxReplies]
      BY <3>1, CountUp
    <3> QED
      BY <2>5, <3>2, Zenon
  <2>7. UNCHANGED budget \/ Spend("stray") \/ Spend("notice") \/ Spend("bad")
    BY <1>6 DEF PeerRequest, PeerReply, PeerStray, PeerNotice, PeerBad
  <2>8. budget' \in [Things -> Nat]
    BY <1>0, <2>7 DEF Things
  <2>9. asked' \subseteq Requests /\ Len(inp') <= InCapacity
    BY <2>2, <2>4
  <2> QED
    BY <2>2, <2>3, <2>6, <2>8, <2>9
<1>7. CASE PeerReads
  <2>1. Head(out) \in MessagesTo(queued)
    BY <1>7, TailElements DEF PeerReads, LineTypes
  <2>2. Head(out).kind = "request" => Head(out).id \in OutgoingIds /\ Head(out).from \in Requesters
    BY <2>1 DEF MessagesTo, Answer, Question, Notice
  <2> QED
    BY <1>7, <2>2 DEF PeerReads
<1>8. CASE Notify \/ Emit \/ OutputBreaks
  <2>1. UNCHANGED <<inp, asked, seen, replies, written>> /\ (broken' = broken \/ broken' = TRUE)
    BY <1>8 DEF Notify, Emit, OutputBreaks, peer
  <2>2. Spend("notify") \/ Spend("emit") \/ Spend("bad")
    BY <1>8 DEF Notify, Emit, OutputBreaks
  <2> QED
    BY <1>0, <2>1, <2>2 DEF Things
<1>9. CASE \/ \E a \in Requesters : Request(a) \/ DropRequest(a)
           \/ DropSockets \/ ServiceBusy \/ ServiceReady
           \/ \E r \in Requests : HandlerDone(r)
  BY <1>9 DEF Request, DropRequest, DropSockets, ServiceBusy, ServiceReady, HandlerDone, peer
<1> QED
  BY <1>1, <1>3, <1>4, <1>5, <1>6, <1>7, <1>8, <1>9 DEF Next, Run, Environment, PollIncoming

\* What the loop holds fits the place where it is.
LEMMA HandsStep ==
  ASSUME AllTypes, Hands, [Next]_vars
  PROVE  Hands'
<1> USE MainLoopAssumption DEF Hands, Running, Dispatching, Stopped
<1>1. CASE UNCHANGED vars
  BY <1>1 DEF vars, loop
<1>2. ASSUME NEW here \in {"flush", "drain"}, NEW done \in {"flush", "dispatch"},
             NEW next \in {"tasks", "waiting"}, DriveFlush(here, done, next),
             here = "flush" => done = "flush" /\ next = "tasks",
             here = "drain" => done = "dispatch" /\ next = "waiting"
      PROVE  Hands'
  BY <1>2 DEF DriveFlush, Write, Return, DropLoop
<1>3. CASE PollTasks
  BY <1>3 DEF PollTasks
<1>4. CASE PollRx
  <2>1. pc = "rx" /\ held = <<>> /\ cur = Nobody
    BY <1>4 DEF PollRx
  <2>2. CASE rx # <<>> /\ DispatchRequest(Head(rx))
    <3>1. CASE outgoing[outgoing_id] # Nobody
      BY <2>1, <2>2, <3>1 DEF DispatchRequest, Panic, DropLoop
    <3>2. CASE outgoing[outgoing_id] = Nobody
      <4>1. pc' = "feed" /\ cur' = cur /\ \E m : held' = <<m>>
        BY <2>2, <3>2 DEF DispatchRequest
      <4> QED
        BY <2>1, <4>1
    <3> QED
      BY <3>1, <3>2
  <2>3. CASE rx # <<>> /\ (DispatchOutgoing(Head(rx)) \/ DispatchAny(Head(rx)))
    <3>1. cur' = cur /\ ((pc' = "feed" /\ \E m : held' = <<m>>) \/ (pc' \in {"flush", "close"} /\ held' = held))
      BY <2>3 DEF DispatchOutgoing, DispatchAny, Break
    <3> QED
      BY <2>1, <3>1
  <2>4. CASE rx = <<>>
    BY <1>4, <2>1, <2>4 DEF PollRx, Panic, DropLoop
  <2> QED
    BY <1>4, <2>2, <2>3, <2>4 DEF PollRx
<1>5. CASE PollIncoming
  <2>1. ReceiveRequest => cur' # Nobody
    BY FirstMessage DEF ReceiveRequest, Receive, AllTypes
  <2> QED
    BY <1>5, <2>1 DEF PollIncoming, Park, ReceiveBad, ReceiveRequest, ReceiveResponse,
                ReceiveNotification, Receive, Return, DropLoop, Break
<1>6. CASE Dispatch \/ Wake
  BY <1>6 DEF Dispatch, Wake
<1>7. CASE Feed \/ Close
  BY <1>7 DEF Feed, Close, Write, Return, DropLoop
<1>8. CASE Environment
  <2>1. UNCHANGED <<pc, held, cur, sink, outgoing>> /\ (rx' = rx \/ Running)
        /\ (tasks' = tasks)
    BY <1>8 DEF Environment, Request, Send, DropRequest, Notify, Emit, DropSockets, PeerBad,
                PeerReads, OutputBreaks, PeerRequest, PeerReply, PeerStray, PeerNotice, PeerSends,
                HandlerDone, ServiceBusy, ServiceReady, loop
  <2> QED
    BY <2>1
<1> QED
  BY <1>1, <1>2, <1>3, <1>4, <1>5, <1>6, <1>7, <1>8 DEF Next, Run, PollFlush, DriveInnerFlush

\* The result is decided once; run() returns "ok" or a handler's error only
\* after a Break, and then with nothing left to write unless the stream failed.
LEMMA ResultStep ==
  ASSUME AllTypes, Hands, ResultKept, SinkOrder, BreakFlushes, [Next]_vars
  PROVE  ResultKept' /\ BreakFlushes'
<1> USE MainLoopAssumption DEF ResultKept, BreakFlushes
<1>1. CASE UNCHANGED vars
  BY <1>1 DEF vars, loop, users, peer
<1>2. ASSUME NEW here \in {"flush", "drain"}, NEW done \in {"flush", "dispatch"},
             NEW next \in {"tasks", "waiting"}, DriveFlush(here, done, next)
      PROVE  ResultKept' /\ BreakFlushes'
  BY <1>2 DEF DriveFlush, Write, Return
<1>3. CASE PollTasks \/ Dispatch \/ Wake
  BY <1>3 DEF PollTasks, Dispatch, Wake
<1>4. CASE PollRx
  BY <1>4 DEF PollRx, DispatchRequest, DispatchOutgoing, DispatchAny, Break, Panic
<1>5. CASE PollIncoming
  BY <1>5 DEF PollIncoming, Park, ReceiveBad, ReceiveRequest, ReceiveResponse,
              ReceiveNotification, Receive, Return, Break
<1>6. CASE Feed
  BY <1>6 DEF Feed, Write, Return
<1>7. CASE Close
  <2>1. held = <<>> /\ ~Holding(held) /\ Running
    BY <1>7 DEF Close, Hands, Holding, Running, Stopped
  <2>2. sink = <<>> => flushed = taken
    BY <2>1 DEF Holding, SinkOrder, AllTypes, LineTypes
  <2> QED
    BY <1>7, <2>2 DEF Close, Write, WriteFails, Return, peer
<1>8. CASE Environment
  <2>1. /\ UNCHANGED <<pc, result, flushed, taken>>
        /\ broken' = broken \/ broken' = TRUE
    BY <1>8 DEF Environment, Request, Send, DropRequest, Notify, Emit, DropSockets, PeerBad,
                PeerReads, OutputBreaks, PeerRequest, PeerReply, PeerStray, PeerNotice, PeerSends,
                HandlerDone, ServiceBusy, ServiceReady, loop, users, peer
  <2> QED
    BY <2>1
<1> QED
  BY <1>1, <1>2, <1>3, <1>4, <1>5, <1>6, <1>7, <1>8 DEF Next, Run, PollFlush, DriveInnerFlush

----------------------------------------------------------------------------
(***************************************************************************)
(* The journey of the requests of the peer.                                *)
(***************************************************************************)
\* What a step does to a request: it stays where it is, goes to one place, or
\* is lost with the loop.
Stays(r) == (\A p \in Stations : At(r, p)' <=> At(r, p)) /\ (r \in asked' <=> r \in asked) /\ (Running' => Running)
Goes(r) == r \in asked' /\ \E q \in Stations : \A p \in Stations : At(r, p)' <=> p = q
Fades(r) == ~Running' /\ (\A p \in Stations : At(r, p)' => At(r, p)) /\ (r \in asked' <=> r \in asked)

\* Responses in a sequence of at most one message.
LEMMA HasOne ==
  ASSUME NEW r
  PROVE  /\ ~Has(<<>>, r)
         /\ \A m : Has(<<m>>, r) <=> m.kind = "response" /\ m.id = r
BY DEF Has

\* What the loop reads of its input.
LEMMA UnreadStep ==
  ASSUME PeerTypes, Journey, NEW r, inp # <<>>, inp' = Tail(inp)
  PROVE  /\ Unread(r)' => Unread(r)
         /\ IF Head(inp).kind = "request" /\ Head(inp).id = r
            THEN Unread(r) /\ ~Unread(r)'
            ELSE Unread(r)' <=> Unread(r)
<1>1. /\ Len(inp) \in Nat \ {0} /\ Head(inp) = inp[1] /\ Len(inp') = Len(inp) - 1
      /\ \A k \in 1 .. Len(inp) - 1 : inp'[k] = inp[k + 1]
  BY TailElements DEF PeerTypes
<1>2. \A k \in 1 .. Len(inp') : k + 1 \in 1 .. Len(inp) /\ k + 1 # 1 /\ inp'[k] = inp[k + 1]
  BY <1>1
<1>3. \A k \in 1 .. Len(inp) : k # 1 => k - 1 \in 1 .. Len(inp') /\ inp'[k - 1] = inp[k]
  BY <1>1
<1>4. 1 \in 1 .. Len(inp)
  BY <1>1
<1>5. Unread(r)' => \E k \in 1 .. Len(inp) : k # 1 /\ inp[k].kind = "request" /\ inp[k].id = r
  BY <1>2 DEF Unread
<1>6. (\E k \in 1 .. Len(inp) : k # 1 /\ inp[k].kind = "request" /\ inp[k].id = r) => Unread(r)'
  BY <1>3 DEF Unread
<1>7. CASE Head(inp).kind = "request" /\ Head(inp).id = r
  BY <1>1, <1>4, <1>5, <1>7 DEF Unread, Journey
<1>8. CASE ~(Head(inp).kind = "request" /\ Head(inp).id = r)
  BY <1>1, <1>4, <1>5, <1>6, <1>8 DEF Unread
<1> QED
  BY <1>7, <1>8

\* What the peer sends.
LEMMA UnreadSent ==
  ASSUME PeerTypes, NEW r, NEW m \in InMessages, inp' = Append(inp, m)
  PROVE  Unread(r)' <=> Unread(r) \/ (m.kind = "request" /\ m.id = r)
<1>1. /\ Len(inp') = Len(inp) + 1 /\ Len(inp) \in Nat
      /\ \A k \in 1 .. Len(inp) : inp'[k] = inp[k]
      /\ inp'[Len(inp) + 1] = m
  BY AppendElements DEF PeerTypes
<1>2. \A k \in 1 .. Len(inp') : k = Len(inp) + 1 \/ k \in 1 .. Len(inp)
  BY <1>1
<1>3. Len(inp) + 1 \in 1 .. Len(inp') /\ \A k \in 1 .. Len(inp) : k \in 1 .. Len(inp')
  BY <1>1
<1> QED
  BY <1>1, <1>2, <1>3 DEF Unread

\* A request stays where it is when its places do.
LEMMA StaysWhen ==
  ASSUME NEW r, Unread(r)' <=> Unread(r), cur' = r <=> cur = r, r \in tasks' <=> r \in tasks,
         Has(held, r)' <=> Has(held, r), Has(sink, r)' <=> Has(sink, r),
         written'[r] = written[r], r \in asked' <=> r \in asked, Running' => Running
  PROVE  Stays(r)
BY DEF Stays, At, Stations

\* Every step moves a request on to one place, or leaves it, or stops the loop.
LEMMA Moves ==
  ASSUME AllTypes, Hands, Journey, [Next]_vars, NEW r \in Requests
  PROVE  /\ Stays(r) \/ Goes(r) \/ Fades(r)
         /\ written'[r] \in 0 .. 1
<1> USE MainLoopAssumption DEF AllTypes
<1>0. written[r] \in 0 .. 1
  BY DEF Journey
<1>1. ASSUME UNCHANGED <<inp, cur, tasks, held, sink, written, asked>>, Running' => Running
      PROVE  Stays(r) /\ written'[r] \in 0 .. 1
  BY <1>0, <1>1, StaysWhen DEF Unread, Has
<1>2. ASSUME Write, UNCHANGED <<cur, tasks, held>>, Running, Running'
      PROVE  (Stays(r) \/ Goes(r)) /\ written'[r] \in 0 .. 1
  <2>1. /\ sink # <<>> /\ sink' = <<>> /\ UNCHANGED <<inp, asked>>
        /\ written' = IF Head(sink).kind = "response"
                      THEN [written EXCEPT ![Head(sink).id] = @ + 1] ELSE written
    BY <1>2 DEF Write, Writable
  <2>2. Len(sink) = 1 /\ sink[1] = Head(sink) /\ Head(sink) \in MessagesTo(queued)
    <3>1. Len(sink) \in Nat \ {0} /\ Head(sink) = sink[1] /\ Head(sink) \in MessagesTo(queued)
      BY <2>1, TailElements DEF LineTypes
    <3>2. Len(sink) <= 1
      BY DEF LineTypes
    <3>3. \A n \in Nat \ {0} : n <= 1 => n = 1
      OBVIOUS
    <3>4. Len(sink) = 1
      BY <3>1, <3>2, <3>3
    <3> QED
      BY <3>1, <3>4, Zenon
  <2>3. Has(sink, r) <=> Head(sink).kind = "response" /\ Head(sink).id = r
    <3>1. \A k : k \in 1 .. Len(sink) <=> k = 1
      BY <2>2
    <3> QED
      BY <2>2, <3>1 DEF Has
  <2>4. ~Has(sink, r)'
    BY <2>1 DEF Has
  <2>5. /\ Unread(r)' <=> Unread(r)
        /\ Has(held, r)' <=> Has(held, r)
    BY <1>2, <2>1 DEF Unread, Has
  <2>6. CASE Has(sink, r)
    <3>1. r \in asked
      BY <2>6 DEF Journey, At, Stations
    <3>2. OnePlace(r)
      BY <1>2, <3>1 DEF Journey
    <3>3. ~Unread(r) /\ cur # r /\ r \notin tasks /\ ~Has(held, r) /\ ~(written[r] > 0)
      BY <2>6, <3>2 DEF OnePlace, At, Stations
    <3>4. written'[r] = written[r] + 1
      BY <2>1, <2>3, <2>6 DEF PeerTypes
    <3>5. ~Unread(r)' /\ cur' # r /\ r \notin tasks' /\ ~Has(held, r)' /\ ~Has(sink, r)'
      BY <1>2, <2>4, <2>5, <3>3
    <3>6. written'[r] > 0 /\ written'[r] \in 0 .. 1
      BY <1>0, <3>3, <3>4
    <3>7. \A p \in Stations : At(r, p)' <=> p = "written"
      BY <3>5, <3>6 DEF At, Stations
    <3> QED
      BY <2>1, <3>1, <3>6, <3>7 DEF Goes, Stations
  <2>7. CASE ~Has(sink, r)
    <3>1. written'[r] = written[r]
      BY <2>1, <2>3, <2>7 DEF PeerTypes
    <3> QED
      BY <1>0, <1>2, <2>1, <2>4, <2>5, <2>7, <3>1, StaysWhen
  <2> QED
    BY <2>6, <2>7
<1>3. ASSUME DropLoop, ~Running', UNCHANGED <<asked, written>>, inp' = inp \/ (inp # <<>> /\ inp' = Tail(inp))
      PROVE  Fades(r) /\ written'[r] \in 0 .. 1
  <2>1. Unread(r)' => Unread(r)
    BY <1>3, UnreadStep DEF Unread
  <2>2. cur' # r
    BY <1>3 DEF DropLoop
  <2>3. r \notin tasks' /\ ~Has(held, r)' /\ ~Has(sink, r)'
    BY <1>3 DEF DropLoop, Has
  <2> QED
    BY <1>0, <1>3, <2>1, <2>2, <2>3 DEF Fades, At, Stations
\* A request that comes to one of the middle places from another of them.
<1>4. ASSUME At(r, "inp") \/ At(r, "cur") \/ At(r, "tasks") \/ At(r, "held"), Running
      PROVE  /\ r \in asked /\ OnePlace(r)
  <2>1. r \in asked
    BY <1>4 DEF Journey, Stations
  <2> QED
    BY <1>4, <2>1 DEF Journey
<1>5. CASE UNCHANGED vars
  BY <1>1, <1>5 DEF vars, loop, peer, Running
<1>6. CASE PollFlush \/ DriveInnerFlush
  BY <1>1, <1>2, <1>3, <1>6 DEF PollFlush, DriveInnerFlush, DriveFlush, Write, Return, peer, Running, Stopped
<1>7. CASE PollTasks
  <2>1. held = <<>> /\ Running /\ Running'
    BY <1>7 DEF PollTasks, Hands, Running, Stopped
  <2>2. CASE woken = {}
    BY <1>1, <1>7, <2>1, <2>2 DEF PollTasks, peer
  <2>3. CASE woken # {}
    <3>1. PICK d \in woken : tasks' = tasks \ {d} /\ held' = <<Answer(d)>>
      BY <1>7, <2>3 DEF PollTasks
    <3>2. UNCHANGED <<inp, cur, sink, written, asked>> /\ d \in tasks
      BY <1>7, <3>1 DEF PollTasks, peer, LoopTypes
    <3>3. ~Has(held, r) /\ (Has(held', r) <=> r = d)
      BY <2>1, <3>1, HasOne DEF Answer
    <3>4. /\ Unread(r)' <=> Unread(r)
          /\ Has(sink, r)' <=> Has(sink, r)
          /\ Has(held, r)' <=> r = d
      BY <3>2, <3>3 DEF Unread, Has
    <3>5. CASE r = d
      <4>1. r \in asked /\ OnePlace(r)
        BY <1>4, <2>1, <3>2, <3>5 DEF At
      <4>2. ~Unread(r) /\ cur # r /\ ~Has(sink, r) /\ ~(written[r] > 0)
        BY <3>2, <3>5, <4>1 DEF OnePlace, At, Stations
      <4>3. \A p \in Stations : At(r, p)' <=> p = "held"
        BY <3>1, <3>2, <3>4, <3>5, <4>2 DEF At, Stations
      <4> QED
        BY <1>0, <3>2, <4>1, <4>3 DEF Goes, Stations
    <3>6. CASE r # d
      BY <1>0, <2>1, <3>1, <3>2, <3>3, <3>4, <3>6, StaysWhen
    <3> QED
      BY <3>5, <3>6
  <2> QED
    BY <2>2, <2>3
<1>8. CASE PollRx
  <2>0. held = <<>> /\ Running
    BY <1>8 DEF PollRx, Hands, Running, Stopped
  <2>1. CASE Panic
    BY <1>3, <1>8, <2>1 DEF PollRx, DispatchRequest, DispatchOutgoing, DispatchAny, Panic, peer, Running, Stopped
  <2>2. CASE ~Panic
    <3>1. /\ UNCHANGED <<inp, cur, tasks, sink, written, asked>>
          /\ held' = held \/ \E n, a, t : held' = <<Question(n, a, t)>> \/ held' = <<Notice(t)>>
      BY <1>8, <2>2 DEF PollRx, DispatchRequest, DispatchOutgoing, DispatchAny, peer
    <3>2. ~Has(held, r) /\ ~Has(held', r)
      BY <2>0, <3>1, HasOne DEF Question, Notice
    <3>3. /\ Unread(r)' <=> Unread(r)
          /\ Has(sink, r)' <=> Has(sink, r)
          /\ Has(held, r)' <=> Has(held, r)
      BY <3>1, <3>2 DEF Unread, Has
    <3> QED
      BY <1>0, <2>0, <3>1, <3>3, StaysWhen
  <2> QED
    BY <2>1, <2>2
<1>9. CASE Park
  BY <1>1, <1>9 DEF Park, peer, Running, Stopped
<1>10. CASE ReceiveBad
  BY <1>3, <1>10 DEF ReceiveBad, Receive, Return, Running, Stopped
<1>11. CASE ReceiveRequest
  <2>1. /\ inp # <<>> /\ inp' = Tail(inp) /\ Head(inp).kind = "request" /\ cur' = Head(inp).id
        /\ UNCHANGED <<tasks, held, sink, written, asked>> /\ Running
    BY <1>11 DEF ReceiveRequest, Receive, Running, Stopped
  <2>2. cur = Nobody /\ cur # r
    BY <1>11 DEF ReceiveRequest, Receive, Hands, Dispatching
  <2>3. /\ Has(sink, r)' <=> Has(sink, r)
        /\ Has(held, r)' <=> Has(held, r)
    BY <2>1 DEF Has
  <2>4. CASE Head(inp).id = r
    <3>1. Unread(r) /\ ~Unread(r)'
      BY <2>1, <2>4, UnreadStep
    <3>2. r \in asked /\ OnePlace(r)
      BY <1>4, <2>1, <3>1 DEF At
    <3>3. r \notin tasks /\ ~Has(held, r) /\ ~Has(sink, r) /\ ~(written[r] > 0)
      BY <3>1, <3>2 DEF OnePlace, At, Stations
    <3>4. \A p \in Stations : At(r, p)' <=> p = "cur"
      BY <2>1, <2>3, <2>4, <3>1, <3>3 DEF At, Stations
    <3> QED
      BY <1>0, <2>1, <3>2, <3>4 DEF Goes, Stations
  <2>5. CASE Head(inp).id # r
    <3>1. Unread(r)' <=> Unread(r)
      BY <2>1, <2>5, UnreadStep
    <3> QED
      BY <1>0, <2>1, <2>2, <2>3, <2>5, <3>1, StaysWhen
  <2> QED
    BY <2>4, <2>5
<1>12. CASE ReceiveResponse \/ ReceiveNotification
  <2>1. /\ inp # <<>> /\ inp' = Tail(inp) /\ Head(inp).kind # "request"
        /\ UNCHANGED <<cur, tasks, held, sink, written, asked>> /\ Running
    BY <1>12 DEF ReceiveResponse, ReceiveNotification, Receive, Running, Stopped
  <2>2. Unread(r)' <=> Unread(r)
    BY <2>1, UnreadStep
  <2> QED
    BY <1>0, <2>1, <2>2, StaysWhen DEF Has
<1>13. CASE Dispatch
  <2>1. /\ cur \in Requests /\ held = <<>> /\ Running /\ Running'
        /\ UNCHANGED <<inp, sink, written, asked>>
    BY <1>13 DEF Dispatch, Hands, Dispatching, LoopTypes, Running, Stopped, peer
  <2>2. \/ UNCHANGED <<tasks, cur, held>>
        \/ tasks' = tasks \cup {cur} /\ cur' = Nobody /\ held' = held
        \/ tasks' = tasks /\ cur' = Nobody /\ held' = <<Answer(cur)>>
    BY <1>13 DEF Dispatch
  <2>3. /\ Unread(r)' <=> Unread(r)
        /\ Has(sink, r)' <=> Has(sink, r)
        /\ ~Has(held, r)
    BY <2>1 DEF Unread, Has
  <2>4. CASE UNCHANGED <<tasks, cur, held>>
    BY <1>1, <2>1, <2>4
  <2>5. CASE cur # r /\ cur' = Nobody
    <3>1. ~Has(held', r) /\ (r \in tasks' <=> r \in tasks)
      BY <2>2, <2>3, <2>5, HasOne DEF Answer
    <3>2. ~Has(held, r)'
      BY <3>1 DEF Has
    <3> QED
      BY <1>0, <2>1, <2>3, <2>5, <3>1, <3>2, StaysWhen
  <2>6. CASE cur = r /\ cur' = Nobody
    <3>1. r \in asked /\ OnePlace(r)
      BY <1>4, <2>1, <2>6 DEF At
    <3>2. ~Unread(r) /\ r \notin tasks /\ ~Has(sink, r) /\ ~(written[r] > 0) /\ cur' # r
      BY <2>6, <3>1 DEF OnePlace, At, Stations
    <3>3. \/ r \in tasks' /\ ~Has(held', r)
          \/ r \notin tasks' /\ Has(held', r)
      BY <2>2, <2>3, <2>6, <3>2, HasOne DEF Answer
    <3>4. Has(held, r)' <=> Has(held', r)
      BY DEF Has
    <3>5. CASE r \in tasks' /\ ~Has(held', r)
      <4>1. \A p \in Stations : At(r, p)' <=> p = "tasks"
        BY <2>1, <2>3, <3>2, <3>4, <3>5 DEF At, Stations
      <4> QED
        BY <1>0, <2>1, <3>1, <4>1 DEF Goes, Stations
    <3>6. CASE r \notin tasks' /\ Has(held', r)
      <4>1. \A p \in Stations : At(r, p)' <=> p = "held"
        BY <2>1, <2>3, <3>2, <3>4, <3>6 DEF At, Stations
      <4> QED
        BY <1>0, <2>1, <3>1, <4>1 DEF Goes, Stations
    <3> QED
      BY <3>3, <3>5, <3>6
  <2> QED
    BY <2>2, <2>4, <2>5, <2>6
<1>14. CASE Wake
  BY <1>1, <1>14 DEF Wake, Running, Stopped, peer
<1>15. CASE Feed
  <2>1. \/ Write /\ UNCHANGED <<cur, tasks, held, pc>>
        \/ Return("io") /\ UNCHANGED peer
        \/ sink = <<>> /\ sink' = held /\ held' = <<>> /\ UNCHANGED <<inp, cur, tasks, written, asked>> /\ pc' = "flush"
    BY <1>15 DEF Feed, Write, peer
  <2>2. Running
    BY <1>15 DEF Feed, Running, Stopped
  <2>3. CASE Write /\ UNCHANGED <<cur, tasks, held, pc>>
    BY <1>2, <2>2, <2>3 DEF Running
  <2>4. CASE Return("io") /\ UNCHANGED peer
    BY <1>3, <2>4 DEF Return, peer, Running, Stopped
  <2>5. CASE sink = <<>> /\ sink' = held /\ held' = <<>> /\ UNCHANGED <<inp, cur, tasks, written, asked>> /\ pc' = "flush"
    <3>1. /\ Unread(r)' <=> Unread(r)
          /\ ~Has(sink, r) /\ ~Has(held, r)'
          /\ Has(sink, r)' <=> Has(held, r)
      BY <2>5 DEF Unread, Has
    <3>2. CASE Has(held, r)
      <4>1. r \in asked /\ OnePlace(r)
        BY <1>4, <2>2, <3>2 DEF At
      <4>2. ~Unread(r) /\ cur # r /\ r \notin tasks /\ ~(written[r] > 0)
        BY <3>2, <4>1 DEF OnePlace, At, Stations
      <4>3. \A p \in Stations : At(r, p)' <=> p = "sink"
        BY <2>5, <3>1, <3>2, <4>2 DEF At, Stations
      <4> QED
        BY <1>0, <2>5, <4>1, <4>3 DEF Goes, Stations
    <3>3. CASE ~Has(held, r)
      BY <1>0, <2>2, <2>5, <3>1, <3>3, StaysWhen
    <3> QED
      BY <3>2, <3>3
  <2> QED
    BY <2>1, <2>3, <2>4, <2>5
<1>16. CASE Close
  BY <1>2, <1>3, <1>16 DEF Close, Write, Return, peer, Running, Stopped
<1>17. ASSUME NEW x \in Requests, PeerRequest(x)
       PROVE  (Stays(r) \/ Goes(r) \/ Fades(r)) /\ written'[r] \in 0 .. 1
  <2> DEFINE m == [kind |-> "request", id |-> x]
  <2>1. m \in InMessages
    BY DEF InMessages
  <2>2. /\ x \notin asked /\ asked' = asked \cup {x} /\ inp' = Append(inp, m)
        /\ UNCHANGED <<pc, cur, tasks, held, sink, written>>
    BY <1>17 DEF PeerRequest, PeerSends, loop
  <2>3. /\ Unread(r)' <=> Unread(r) \/ x = r
        /\ Has(sink, r)' <=> Has(sink, r)
        /\ Has(held, r)' <=> Has(held, r)
    BY <2>1, <2>2, UnreadSent DEF Has
  <2>4. CASE x = r
    <3>1. \A p \in Stations : ~At(r, p)
      BY <2>2, <2>4 DEF Journey
    <3>2. cur # r /\ r \notin tasks /\ ~Has(sink, r) /\ ~Has(held, r) /\ ~(written[r] > 0)
      BY <3>1 DEF At, Stations
    <3>3. \A p \in Stations : At(r, p)' <=> p = "inp"
      BY <2>2, <2>3, <2>4, <3>2 DEF At, Stations
    <3> QED
      BY <1>0, <2>2, <2>4, <3>3 DEF Goes, Stations
  <2>5. CASE x # r
    BY <1>0, <2>2, <2>3, <2>5, StaysWhen DEF Running
  <2> QED
    BY <2>4, <2>5
<1>18. ASSUME NEW m \in InMessages, PeerSends(m), m.kind # "request", asked' = asked
       PROVE  (Stays(r) \/ Goes(r) \/ Fades(r)) /\ written'[r] \in 0 .. 1
  <2>1. inp' = Append(inp, m) /\ UNCHANGED <<pc, cur, tasks, held, sink, written>>
    BY <1>18 DEF PeerSends, loop
  <2>2. Unread(r)' <=> Unread(r)
    BY <1>18, <2>1, UnreadSent
  <2> QED
    BY <1>0, <1>18, <2>1, <2>2, StaysWhen DEF Has, Running
<1>19. ASSUME NEW n \in OutgoingIds, PeerReply(n) \/ PeerStray(n)
       PROVE  \E m \in InMessages : PeerSends(m) /\ m.kind # "request" /\ asked' = asked
  <2>1. /\ [kind |-> "response", id |-> n, for |-> seen[n]] \in InMessages
        /\ [kind |-> "response", id |-> n, for |-> Nobody] \in InMessages
    BY DEF InMessages, PeerTypes
  <2> QED
    BY <1>19, <2>1 DEF PeerReply, PeerStray
<1>20. ASSUME NEW x \in Requests \cup {Nobody}, PeerNotice(x)
       PROVE  \E m \in InMessages : PeerSends(m) /\ m.kind # "request" /\ asked' = asked
  <2>1. [kind |-> "notification", cancels |-> x] \in InMessages
    BY DEF InMessages
  <2> QED
    BY <1>20, <2>1 DEF PeerNotice
<1>21. ASSUME PeerBad
       PROVE  \E m \in InMessages : PeerSends(m) /\ m.kind # "request" /\ asked' = asked
  <2>1. [kind |-> "bad"] \in InMessages
    BY DEF InMessages
  <2> QED
    BY <1>21, <2>1 DEF PeerBad
<1>22. CASE \/ \E a \in Requesters : Request(a) \/ DropRequest(a)
            \/ Notify \/ Emit \/ DropSockets \/ ServiceBusy \/ ServiceReady \/ PeerReads \/ OutputBreaks
            \/ \E x \in Requests : HandlerDone(x)
  <2>1. UNCHANGED <<pc, inp, cur, tasks, held, sink, written, asked>>
    BY <1>22 DEF Request, Send, DropRequest, Notify, Emit, DropSockets, ServiceBusy, ServiceReady,
                 PeerReads, OutputBreaks, HandlerDone, loop, peer
  <2> QED
    BY <1>1, <2>1 DEF Running
<1>23. CASE Environment
  <2>1. CASE \E x \in Requests : PeerRequest(x)
    BY <1>17, <2>1
  <2>2. CASE \/ \E n \in OutgoingIds : PeerReply(n) \/ PeerStray(n)
             \/ \E x \in Requests \cup {Nobody} : PeerNotice(x)
             \/ PeerBad
    BY <1>18, <1>19, <1>20, <1>21, <2>2
  <2> QED
    BY <1>22, <1>23, <2>1, <2>2 DEF Environment
<1> QED
  BY <1>5, <1>6, <1>7, <1>8, <1>9, <1>10, <1>11, <1>12, <1>13, <1>14, <1>15, <1>16, <1>23
     DEF Next, Run, PollIncoming

\* So a request is in one place on its way, and only once in the input stream.
LEMMA JourneyStep ==
  ASSUME AllTypes, Hands, Journey, [Next]_vars
  PROVE  Journey'
<1>1. ASSUME NEW r \in Requests
      PROVE  /\ written'[r] \in 0 .. 1
             /\ r \in asked' /\ Running' => OnePlace(r)'
             /\ r \notin asked' => \A p \in Stations : ~At(r, p)'
  <2>1. written'[r] \in 0 .. 1 /\ (Stays(r) \/ Goes(r) \/ Fades(r))
    BY Moves
  <2>2. CASE Stays(r)
    BY <2>1, <2>2 DEF Stays, Journey, OnePlace
  <2>3. CASE Goes(r)
    BY <2>1, <2>3 DEF Goes, OnePlace
  <2>4. CASE Fades(r)
    BY <2>1, <2>4 DEF Fades, Journey
  <2> QED
    BY <2>1, <2>2, <2>3, <2>4
<1>2. ASSUME NEW j \in 1 .. Len(inp'), NEW k \in 1 .. Len(inp'),
             inp'[j].kind = "request", inp'[k].kind = "request", inp'[j].id = inp'[k].id
      PROVE  j = k
  <2>0. \/ inp' = inp
        \/ inp # <<>> /\ inp' = Tail(inp)
        \/ \E m \in {x \in InMessages : x.kind # "request"} : inp' = Append(inp, m)
        \/ \E r \in Requests : r \notin asked /\ inp' = Append(inp, [kind |-> "request", id |-> r])
    <3>1. CASE UNCHANGED vars
      BY <3>1 DEF vars, peer
    <3>2. CASE Run
      BY <3>2 DEF Run, PollFlush, DriveInnerFlush, DriveFlush, Write, PollTasks, PollRx, DispatchRequest,
                  DispatchOutgoing, DispatchAny, PollIncoming, Park, ReceiveBad, ReceiveRequest,
                  ReceiveResponse, ReceiveNotification, Receive, Dispatch, Wake, Feed, Close, peer
    <3>3. CASE \/ \E a \in Requesters : Request(a) \/ DropRequest(a)
               \/ Notify \/ Emit \/ DropSockets \/ ServiceBusy \/ ServiceReady \/ PeerReads \/ OutputBreaks
               \/ \E x \in Requests : HandlerDone(x)
      BY <3>3 DEF Request, DropRequest, Notify, Emit, DropSockets, ServiceBusy, ServiceReady,
                  PeerReads, OutputBreaks, HandlerDone, peer
    <3>4. ASSUME NEW n \in OutgoingIds, PeerReply(n) \/ PeerStray(n)
          PROVE  \E m \in {x \in InMessages : x.kind # "request"} : inp' = Append(inp, m)
      <4>1. /\ [kind |-> "response", id |-> n, for |-> seen[n]] \in InMessages
            /\ [kind |-> "response", id |-> n, for |-> Nobody] \in InMessages
        BY DEF InMessages, PeerTypes, AllTypes
      <4> QED
        BY <3>4, <4>1 DEF PeerReply, PeerStray, PeerSends
    <3>5. ASSUME NEW x \in Requests \cup {Nobody}, PeerNotice(x)
          PROVE  \E m \in {y \in InMessages : y.kind # "request"} : inp' = Append(inp, m)
      <4>1. [kind |-> "notification", cancels |-> x] \in InMessages
        BY DEF InMessages
      <4> QED
        BY <3>5, <4>1 DEF PeerNotice, PeerSends
    <3>6. ASSUME PeerBad
          PROVE  \E m \in {y \in InMessages : y.kind # "request"} : inp' = Append(inp, m)
      <4>1. [kind |-> "bad"] \in InMessages
        BY DEF InMessages
      <4> QED
        BY <3>6, <4>1 DEF PeerBad, PeerSends
    <3>7. ASSUME NEW r \in Requests, PeerRequest(r)
          PROVE  r \notin asked /\ inp' = Append(inp, [kind |-> "request", id |-> r])
      BY <3>7 DEF PeerRequest, PeerSends
    <3> QED
      BY <3>1, <3>2, <3>3, <3>4, <3>5, <3>6, <3>7 DEF Next, Environment
  <2>1. CASE inp' = inp
    BY <1>2, <2>1 DEF Journey
  <2>2. CASE inp # <<>> /\ inp' = Tail(inp)
    <3>1. /\ Len(inp) \in Nat \ {0} /\ Len(inp') = Len(inp) - 1
          /\ \A i \in 1 .. Len(inp) - 1 : inp'[i] = inp[i + 1]
      BY <2>2, TailElements DEF PeerTypes, AllTypes
    <3>2. j + 1 \in 1 .. Len(inp) /\ k + 1 \in 1 .. Len(inp) /\ inp'[j] = inp[j + 1] /\ inp'[k] = inp[k + 1]
      BY <3>1
    <3>3. j + 1 = k + 1
      BY <1>2, <3>2 DEF Journey
    <3> QED
      BY <3>1, <3>3
  <2>3. ASSUME NEW m \in InMessages, inp' = Append(inp, m),
               m.kind = "request" => m.id \in Requests /\ m.id \notin asked
        PROVE  j = k
    <3>1. /\ Len(inp') = Len(inp) + 1 /\ Len(inp) \in Nat
          /\ \A i \in 1 .. Len(inp) : inp'[i] = inp[i]
          /\ inp'[Len(inp) + 1] = m
      BY <2>3, AppendElements DEF PeerTypes, AllTypes
    <3>2. m.kind = "request" => ~Unread(m.id)
      BY <2>3 DEF Journey, At, Stations
    <3>3. m.kind = "request" => \A i \in 1 .. Len(inp) : inp[i].kind = "request" => inp[i].id # m.id
      BY <3>2 DEF Unread
    <3>4. (j \in 1 .. Len(inp) \/ j = Len(inp) + 1) /\ (k \in 1 .. Len(inp) \/ k = Len(inp) + 1)
      BY <3>1
    <3> QED
      BY <1>2, <3>1, <3>3, <3>4 DEF Journey
  <2>4. \A r \in Requests : [kind |-> "request", id |-> r] \in InMessages
    BY DEF InMessages
  <2> QED
    BY <2>0, <2>1, <2>2, <2>3, <2>4
<1> QED
  BY <1>1, <1>2 DEF Journey

\* A request that the peer has not sent, that is not read yet or whose
\* dispatch_message awaits poll_ready: the service has not been called with it.
Uncalled(r) == r \notin asked \/ Unread(r) \/ cur = r

\* No request comes back to where it was before its call, not even when the
\* loop drops what it holds.
LEMMA NeverBack ==
  ASSUME AllTypes, Hands, Journey, [Next]_vars, NEW r \in Requests, Uncalled(r)'
  PROVE  Uncalled(r)
<1> USE MainLoopAssumption DEF AllTypes
<1>1. ASSUME cur' \in {cur, Nobody}, asked \subseteq asked',
             inp' = inp \/ (inp # <<>> /\ inp' = Tail(inp))
      PROVE  Uncalled(r)
  <2>1. Unread(r)' => Unread(r)
    BY <1>1, UnreadStep DEF Unread
  <2>2. cur' = r => cur = r
    BY <1>1
  <2> QED
    BY <1>1, <2>1, <2>2 DEF Uncalled
<1>2. CASE UNCHANGED vars
  BY <1>1, <1>2 DEF vars, loop, peer
<1>3. CASE PollFlush \/ DriveInnerFlush
  BY <1>1, <1>3 DEF PollFlush, DriveInnerFlush, DriveFlush, Write, Return, DropLoop, peer
<1>4. CASE PollTasks \/ PollRx
  BY <1>1, <1>4 DEF PollTasks, PollRx, DispatchRequest, DispatchOutgoing, DispatchAny, Panic,
                    DropLoop, peer
<1>5. CASE Park \/ ReceiveBad \/ ReceiveResponse \/ ReceiveNotification
  BY <1>1, <1>5 DEF Park, ReceiveBad, ReceiveResponse, ReceiveNotification, Receive, Return,
                    DropLoop, peer
<1>6. CASE ReceiveRequest
  <2>1. /\ inp # <<>> /\ inp' = Tail(inp) /\ Head(inp).kind = "request" /\ cur' = Head(inp).id
        /\ UNCHANGED asked
    BY <1>6 DEF ReceiveRequest, Receive
  <2>2. Unread(r)' \/ Head(inp).id = r => Unread(r)
    BY <2>1, UnreadStep
  <2> QED
    BY <2>1, <2>2 DEF Uncalled
<1>7. CASE Dispatch \/ Wake \/ Feed \/ Close
  BY <1>1, <1>7 DEF Dispatch, Wake, Feed, Close, Write, Return, DropLoop, peer
<1>8. CASE Environment
  <2>1. ASSUME NEW x \in Requests, PeerRequest(x)
        PROVE  Uncalled(r)
    <3> DEFINE m == [kind |-> "request", id |-> x]
    <3>1. m \in InMessages
      BY DEF InMessages
    <3>2. x \notin asked /\ asked' = asked \cup {x} /\ inp' = Append(inp, m) /\ UNCHANGED cur
      BY <2>1 DEF PeerRequest, PeerSends, loop
    <3>3. Unread(r)' <=> Unread(r) \/ x = r
      BY <3>1, <3>2, UnreadSent
    <3> QED
      BY <3>2, <3>3 DEF Uncalled
  <2>2. ASSUME NEW m \in InMessages, PeerSends(m), m.kind # "request", asked' = asked
        PROVE  Uncalled(r)
    <3>1. inp' = Append(inp, m) /\ UNCHANGED cur
      BY <2>2 DEF PeerSends, loop
    <3>2. Unread(r)' <=> Unread(r)
      BY <2>2, <3>1, UnreadSent
    <3> QED
      BY <2>2, <3>1, <3>2 DEF Uncalled
  <2>3. ASSUME \/ \E n \in OutgoingIds : PeerReply(n) \/ PeerStray(n)
               \/ \E x \in Requests \cup {Nobody} : PeerNotice(x)
               \/ PeerBad
        PROVE  Uncalled(r)
    <3>1. \A n \in OutgoingIds : [kind |-> "response", id |-> n, for |-> seen[n]] \in InMessages
                                 /\ [kind |-> "response", id |-> n, for |-> Nobody] \in InMessages
      BY DEF InMessages, PeerTypes
    <3>2. \A x \in Requests \cup {Nobody} : [kind |-> "notification", cancels |-> x] \in InMessages
      BY DEF InMessages
    <3>3. [kind |-> "bad"] \in InMessages
      BY DEF InMessages
    <3>4. \E m \in InMessages : PeerSends(m) /\ m.kind # "request" /\ asked' = asked
      BY <2>3, <3>1, <3>2, <3>3 DEF PeerReply, PeerStray, PeerNotice, PeerBad
    <3> QED
      BY <2>2, <3>4
  <2>4. CASE \/ \E a \in Requesters : Request(a) \/ DropRequest(a)
             \/ Notify \/ Emit \/ DropSockets \/ ServiceBusy \/ ServiceReady \/ PeerReads \/ OutputBreaks
             \/ \E x \in Requests : HandlerDone(x)
    BY <1>1, <2>4 DEF Request, Send, DropRequest, Notify, Emit, DropSockets, ServiceBusy,
                      ServiceReady, PeerReads, OutputBreaks, HandlerDone, loop, peer
  <2> QED
    BY <1>8, <2>1, <2>3, <2>4 DEF Environment
<1> QED
  BY <1>2, <1>3, <1>4, <1>5, <1>6, <1>7, <1>8 DEF Next, Run, PollIncoming

----------------------------------------------------------------------------
(***************************************************************************)
(* The oneshot senders of the requests of the sockets.                     *)
(***************************************************************************)
Same == (Running' <=> Running) /\ UNCHANGED <<rx, outgoing, req>>
Ends == ~Running' /\ DropLoop
\* A request leaves the queue and is filed under an id.
Files(a, n) ==
    /\ Running /\ Running' /\ rx # <<>> /\ Head(rx).kind = "request" /\ Head(rx).from = a
    /\ outgoing[n] = Nobody
    /\ rx' = Tail(rx) /\ outgoing' = [outgoing EXCEPT ![n] = a] /\ req' = req
Skips ==
    /\ Running /\ Running' /\ rx # <<>> /\ Head(rx).kind # "request"
    /\ rx' = Tail(rx) /\ UNCHANGED <<outgoing, req>>
Joins(a, e) ==
    /\ Running /\ Running' /\ e.kind = "request" /\ e.from = a /\ req[a] = "idle"
    /\ rx' = Append(rx, e) /\ outgoing' = outgoing /\ req' = [req EXCEPT ![a] = "waiting"]
Queues(e) ==
    /\ Running /\ Running' /\ e.kind # "request"
    /\ rx' = Append(rx, e) /\ UNCHANGED <<outgoing, req>>
Leaves(a) ==
    /\ Running' <=> Running
    /\ req' \in {[req EXCEPT ![a] = "dropped"], [req EXCEPT ![a] = "stopped"]}
    /\ UNCHANGED <<rx, outgoing>>
Resolves(n) ==
    /\ Running /\ Running' /\ rx' = rx /\ outgoing' = [outgoing EXCEPT ![n] = Nobody]
    /\ IF outgoing[n] # Nobody /\ req[outgoing[n]] = "waiting"
       THEN req' = [req EXCEPT ![outgoing[n]] = "answered"] ELSE req' = req

\* Every step is one of these.
LEMMA SenderSteps ==
  ASSUME AllTypes, [Next]_vars
  PROVE  \/ Same \/ Ends \/ Skips
         \/ \E a \in Requesters, n \in OutgoingIds : Files(a, n)
         \/ \E a \in Requesters, e \in EventsTo(queued + 1) : Joins(a, e)
         \/ \E e \in EventsTo(queued + 1) : Queues(e)
         \/ \E a \in Requesters : Leaves(a)
         \/ \E n \in OutgoingIds : Resolves(n)
<1> USE DEF AllTypes, Running, Stopped
<1>1. CASE UNCHANGED vars
  BY <1>1 DEF vars, loop, users, Same
<1>2. CASE PollFlush \/ DriveInnerFlush \/ Feed \/ Close
  BY <1>2 DEF PollFlush, DriveInnerFlush, DriveFlush, Feed, Close, Write, Return, Same, Ends, users
<1>3. CASE PollTasks \/ Dispatch \/ Wake
  BY <1>3 DEF PollTasks, Dispatch, Wake, Same, users
<1>4. CASE PollRx
  <2>1. pc = "rx"
    BY <1>4 DEF PollRx
  <2>2. CASE rx # <<>> /\ DispatchRequest(Head(rx))
    <3>1. Head(rx).from \in Requesters /\ Head(rx).kind = "request" /\ outgoing_id \in OutgoingIds
      BY <2>2, FirstEvent DEF DispatchRequest, LoopTypes
    <3>2. CASE outgoing[outgoing_id] # Nobody
      BY <2>2, <3>2 DEF DispatchRequest, Panic, Ends
    <3>3. CASE outgoing[outgoing_id] = Nobody
      <4>1. Files(Head(rx).from, outgoing_id)
        BY <2>1, <2>2, <3>1, <3>3 DEF DispatchRequest, Files
      <4> QED
        BY <3>1, <4>1
    <3> QED
      BY <3>2, <3>3
  <2>3. CASE rx # <<>> /\ (DispatchOutgoing(Head(rx)) \/ DispatchAny(Head(rx)))
    BY <2>1, <2>3 DEF DispatchOutgoing, DispatchAny, Break, Skips, users
  <2>4. CASE rx = <<>>
    BY <1>4, <2>4 DEF PollRx, Panic, Ends, Same, users
  <2> QED
    BY <1>4, <2>2, <2>3, <2>4 DEF PollRx
<1>5. CASE ReceiveResponse
  <2>1. Head(inp).id \in OutgoingIds
    BY <1>5, FirstMessage DEF ReceiveResponse, Receive
  <2>2. Resolves(Head(inp).id)
    BY <1>5 DEF ReceiveResponse, Receive, Resolves
  <2> QED
    BY <2>1, <2>2
<1>6. CASE Park \/ ReceiveBad \/ ReceiveRequest \/ ReceiveNotification
  BY <1>6 DEF Park, ReceiveBad, ReceiveRequest, ReceiveNotification, Receive, Return, Break, Same, Ends, users
<1>7. ASSUME NEW a \in Requesters, Request(a)
      PROVE  (\E e \in EventsTo(queued + 1) : Joins(a, e)) \/ Leaves(a)
  <2>1. CASE Running
    <3> DEFINE e == [kind |-> "request", from |-> a, ticket |-> queued + 1]
    <3>1. e \in EventsTo(queued + 1)
      BY DEF EventsTo, LineTypes
    <3>2. Joins(a, e)
      BY <1>7, <2>1 DEF Request, Send, Joins, loop
    <3> QED
      BY <3>1, <3>2
  <2>2. CASE ~Running
    BY <1>7, <2>2 DEF Request, Send, Leaves, loop
  <2> QED
    BY <2>1, <2>2
<1>8. ASSUME NEW a \in Requesters, DropRequest(a)
      PROVE  Leaves(a)
  BY <1>8 DEF DropRequest, Leaves, loop
<1>9. ASSUME Notify \/ Emit
      PROVE  \E e \in EventsTo(queued + 1) : Queues(e)
  <2>1. /\ [kind |-> "notify", ticket |-> queued + 1] \in EventsTo(queued + 1)
        /\ [kind |-> "emit"] \in EventsTo(queued + 1)
    BY DEF EventsTo, LineTypes
  <2>2. CASE Notify
    <3>1. Queues([kind |-> "notify", ticket |-> queued + 1])
      BY <2>2 DEF Notify, Send, Queues, loop
    <3> QED
      BY <2>1, <3>1
  <2>3. CASE Emit
    <3>1. Queues([kind |-> "emit"])
      BY <2>3 DEF Emit, Send, Queues, loop, users
    <3> QED
      BY <2>1, <3>1
  <2> QED
    BY <1>9, <2>2, <2>3
<1>10. CASE \/ DropSockets \/ ServiceBusy \/ ServiceReady \/ PeerBad \/ PeerReads \/ OutputBreaks
            \/ \E r \in Requests : HandlerDone(r) \/ PeerRequest(r)
            \/ \E n \in OutgoingIds : PeerReply(n) \/ PeerStray(n)
            \/ \E r \in Requests \cup {Nobody} : PeerNotice(r)
  BY <1>10 DEF DropSockets, ServiceBusy, ServiceReady, PeerBad, PeerReads, OutputBreaks, HandlerDone,
               PeerRequest, PeerReply, PeerStray, PeerNotice, PeerSends, loop, users, Same
<1> QED
  BY <1>1, <1>2, <1>3, <1>4, <1>5, <1>6, <1>7, <1>8, <1>9, <1>10
     DEF Next, Run, Environment, PollIncoming

\* So the sender of a oneshot is in one place while its requester waits.
LEMMA OneSenderStep ==
  ASSUME AllTypes, OneSender, [Next]_vars
  PROVE  OneSender'
<1> USE MainLoopAssumption DEF AllTypes
<1>0. /\ Nobody \notin Requesters /\ Len(rx) \in Nat
      /\ outgoing \in [OutgoingIds -> Requesters \cup {Nobody}]
      /\ req \in [Requesters -> {"idle", "waiting", "dropped", "answered", "stopped"}]
  BY DEF LineTypes, LoopTypes, UserTypes
<1>1. CASE Same
  BY <1>1 DEF Same, OneSender, InQueue
<1>2. CASE Ends
  BY <1>2 DEF Ends, DropLoop, OneSender, InQueue, UserTypes
<1>3. CASE rx # <<>> /\ rx' = Tail(rx) /\ Running'
  <2>1. /\ Len(rx) \in Nat \ {0} /\ Head(rx) = rx[1] /\ Len(rx') = Len(rx) - 1
        /\ \A k \in 1 .. Len(rx) - 1 : rx'[k] = rx[k + 1]
    BY <1>3, TailElements DEF LineTypes
  <2>2. \A k \in 1 .. Len(rx') : k + 1 \in 1 .. Len(rx) /\ k + 1 # 1 /\ rx'[k] = rx[k + 1]
    BY <2>1
  <2>3. \A k \in 1 .. Len(rx) : k # 1 => k - 1 \in 1 .. Len(rx') /\ rx'[k - 1] = rx[k]
    BY <2>1
  <2>4. \A k \in 1 .. Len(rx'), a \in Requesters : InQueue(k, a)' <=> InQueue(k + 1, a)
    BY <2>2 DEF InQueue
  <2>5. \A k \in 1 .. Len(rx), a \in Requesters : k # 1 /\ InQueue(k, a) => InQueue(k - 1, a)'
    BY <2>3 DEF InQueue
  <2>6. \A j, k \in 1 .. Len(rx'), a \in Requesters : InQueue(j, a)' /\ InQueue(k, a)' => j = k
    <3> TAKE j, k \in 1 .. Len(rx'), a \in Requesters
    <3>1. InQueue(j, a)' /\ InQueue(k, a)' => j + 1 = k + 1
      BY <2>2, <2>4 DEF OneSender
    <3>2. j \in Nat /\ k \in Nat
      BY <2>1
    <3> QED
      BY <3>1, <3>2
  <2>7. CASE Skips
    <3>1. \A a \in Requesters : ~InQueue(1, a)
      BY <2>1, <2>7 DEF Skips, InQueue
    <3>2. \A a \in Requesters : (\E k \in 1 .. Len(rx) : InQueue(k, a)) => \E k \in 1 .. Len(rx') : InQueue(k, a)'
      BY <2>3, <2>5, <3>1
    <3>3. \A k \in 1 .. Len(rx'), a \in Requesters : InQueue(k, a)' => k + 1 \in 1 .. Len(rx) /\ InQueue(k + 1, a)
      BY <2>2, <2>4
    <3>4. UNCHANGED <<outgoing, req>> /\ Running /\ Running'
      BY <2>7 DEF Skips
    <3>5. \A k \in 1 .. Len(rx'), n \in OutgoingIds, a \in Requesters : InQueue(k, a)' => outgoing'[n] # a
      BY <3>3, <3>4 DEF OneSender
    <3>6. \A a \in Requesters : req'[a] = "waiting" =>
            (\E k \in 1 .. Len(rx') : InQueue(k, a)') \/ (\E n \in OutgoingIds : outgoing'[n] = a)
      BY <3>2, <3>4 DEF OneSender
    <3>7. \A a \in Requesters : req'[a] = "idle" =>
            /\ \A k \in 1 .. Len(rx') : ~InQueue(k, a)'
            /\ \A n \in OutgoingIds : outgoing'[n] # a
      BY <3>3, <3>4 DEF OneSender
    <3>8. \A m, n \in OutgoingIds : outgoing'[m] = outgoing'[n] /\ outgoing'[m] # Nobody => m = n
      BY <3>4 DEF OneSender
    <3> QED
      BY <2>6, <3>4, <3>5, <3>6, <3>7, <3>8 DEF OneSender
  <2>8. ASSUME NEW b \in Requesters, NEW i \in OutgoingIds, Files(b, i)
        PROVE  OneSender'
    <3>1. InQueue(1, b) /\ 1 \in 1 .. Len(rx) /\ \A a \in Requesters : InQueue(1, a) => a = b
      BY <2>1, <2>8 DEF Files, InQueue
    <3>2. /\ outgoing[i] = Nobody /\ req' = req /\ Running /\ Running'
          /\ outgoing'[i] = b /\ \A n \in OutgoingIds : n # i => outgoing'[n] = outgoing[n]
      BY <1>0, <2>8 DEF Files
    <3>3. \A n \in OutgoingIds : outgoing[n] # b
      BY <3>1 DEF OneSender
    <3>4. \A k \in 1 .. Len(rx'), a \in Requesters : InQueue(k, a)' => k + 1 \in 1 .. Len(rx) /\ k + 1 # 1 /\ InQueue(k + 1, a)
      BY <2>2, <2>4
    <3>5. \A k \in 1 .. Len(rx') : ~InQueue(k, b)'
      BY <3>1, <3>4 DEF OneSender
    <3>6. \A m, n \in OutgoingIds : outgoing'[m] = outgoing'[n] /\ outgoing'[m] # Nobody => m = n
      BY <3>2, <3>3 DEF OneSender
    <3>7. \A k \in 1 .. Len(rx'), n \in OutgoingIds, a \in Requesters : InQueue(k, a)' => outgoing'[n] # a
      <4> TAKE k \in 1 .. Len(rx'), n \in OutgoingIds, a \in Requesters
      <4>1. CASE n = i
        BY <3>2, <3>5, <4>1
      <4>2. CASE n # i
        BY <3>2, <3>4, <4>2 DEF OneSender
      <4> QED
        BY <4>1, <4>2
    <3>8. ASSUME NEW a \in Requesters, req'[a] = "waiting"
          PROVE  (\E k \in 1 .. Len(rx') : InQueue(k, a)') \/ (\E n \in OutgoingIds : outgoing'[n] = a)
      <4>1. CASE a = b
        BY <3>2, <4>1
      <4>2. CASE a # b
        <5>1. (\E k \in 1 .. Len(rx) : InQueue(k, a)) \/ (\E n \in OutgoingIds : outgoing[n] = a)
          BY <3>2, <3>8 DEF OneSender
        <5>2. CASE \E k \in 1 .. Len(rx) : InQueue(k, a)
          <6>1. PICK k \in 1 .. Len(rx) : InQueue(k, a)
            BY <5>2
          <6>2. k # 1
            BY <3>1, <4>2, <6>1
          <6> QED
            BY <2>3, <2>5, <6>1, <6>2
        <5>3. CASE \E n \in OutgoingIds : outgoing[n] = a
          BY <1>0, <3>2, <5>3
        <5> QED
          BY <5>1, <5>2, <5>3
      <4> QED
        BY <4>1, <4>2
    <3>9. ASSUME NEW a \in Requesters, req'[a] = "idle"
          PROVE  /\ \A k \in 1 .. Len(rx') : ~InQueue(k, a)'
                 /\ \A n \in OutgoingIds : outgoing'[n] # a
      <4>1. a # b
        BY <3>1, <3>2, <3>9 DEF OneSender
      <4> QED
        BY <3>2, <3>4, <3>9, <4>1 DEF OneSender
    <3> QED
      BY <2>6, <3>2, <3>6, <3>7, <3>8, <3>9 DEF OneSender
  <2>9. CASE ~(Skips \/ \E b \in Requesters, i \in OutgoingIds : Files(b, i))
    <3>1. Len(rx') # Len(rx)
      BY <2>1
    <3>2. rx' # rx
      BY <3>1
    <3>3. ASSUME NEW e \in EventsTo(queued + 1)
          PROVE  rx' # Append(rx, e)
      <4>1. rx \in Seq(EventsTo(queued + 1))
        BY TicketsGrow DEF LineTypes
      <4>2. Len(Append(rx, e)) = Len(rx) + 1
        BY <4>1, AppendElements
      <4> QED
        BY <2>1, <4>2
    <3> QED
      BY <1>3, <2>9, <3>2, <3>3, SenderSteps DEF Same, Ends, Joins, Queues, Leaves, Resolves
  <2> QED
    BY <2>7, <2>8, <2>9
<1>4. ASSUME NEW e \in EventsTo(queued + 1), rx' = Append(rx, e), outgoing' = outgoing, Running, Running',
             \/ e.kind # "request" /\ req' = req
             \/ e.kind = "request" /\ e.from \in Requesters /\ req[e.from] = "idle"
                /\ req' = [req EXCEPT ![e.from] = "waiting"]
      PROVE  OneSender'
  <2>1. rx \in Seq(EventsTo(queued + 1))
    BY TicketsGrow DEF LineTypes
  <2>2. /\ Len(rx') = Len(rx) + 1 /\ rx'[Len(rx) + 1] = e
        /\ \A k \in 1 .. Len(rx) : rx'[k] = rx[k]
    BY <1>4, <2>1, AppendElements
  <2>0. PICK l \in Nat : l = Len(rx) + 1
    BY <1>0
  <2>3. /\ \A k \in 1 .. Len(rx') : k \in 1 .. Len(rx) \/ k = l
        /\ \A k \in 1 .. Len(rx) : k \in 1 .. Len(rx') /\ k # l
        /\ l \in 1 .. Len(rx')
    BY <1>0, <2>0, <2>2
  <2>4. \A k \in 1 .. Len(rx), a \in Requesters : InQueue(k, a)' <=> InQueue(k, a)
    BY <2>2 DEF InQueue
  <2>5. \A a \in Requesters : InQueue(l, a)' <=> e.kind = "request" /\ e.from = a
    BY <2>0, <2>2 DEF InQueue
  <2>6. \A a \in Requesters :
          /\ req'[a] = IF e.kind = "request" /\ e.from = a THEN "waiting" ELSE req[a]
          /\ e.kind = "request" /\ e.from = a => req[a] = "idle"
    BY <1>0, <1>4
  <2>7. \A a \in Requesters : e.kind = "request" /\ e.from = a =>
          /\ \A k \in 1 .. Len(rx) : ~InQueue(k, a)
          /\ \A n \in OutgoingIds : outgoing[n] # a
    BY <2>6 DEF OneSender
  <2>8. \A j, k \in 1 .. Len(rx'), a \in Requesters : InQueue(j, a)' /\ InQueue(k, a)' => j = k
    BY <2>3, <2>4, <2>5, <2>7 DEF OneSender
  <2>9. \A k \in 1 .. Len(rx'), n \in OutgoingIds, a \in Requesters : InQueue(k, a)' => outgoing'[n] # a
    BY <1>4, <2>3, <2>4, <2>5, <2>7 DEF OneSender
  <2>10. ASSUME NEW a \in Requesters, req'[a] = "waiting"
         PROVE  (\E k \in 1 .. Len(rx') : InQueue(k, a)') \/ (\E n \in OutgoingIds : outgoing'[n] = a)
    BY <1>4, <2>3, <2>4, <2>5, <2>6, <2>10 DEF OneSender
  <2>11. ASSUME NEW a \in Requesters, req'[a] = "idle"
         PROVE  /\ \A k \in 1 .. Len(rx') : ~InQueue(k, a)'
                /\ \A n \in OutgoingIds : outgoing'[n] # a
    BY <1>4, <2>3, <2>4, <2>5, <2>6, <2>11 DEF OneSender
  <2>12. \A m, n \in OutgoingIds : outgoing'[m] = outgoing'[n] /\ outgoing'[m] # Nobody => m = n
    BY <1>4 DEF OneSender
  <2> QED
    BY <1>4, <2>8, <2>9, <2>10, <2>11, <2>12 DEF OneSender
<1>5. ASSUME NEW b \in Requesters, Leaves(b)
      PROVE  OneSender'
  <2>1. \A a \in Requesters : req'[a] = req[a] \/ req'[a] \in {"dropped", "stopped"}
    BY <1>0, <1>5 DEF Leaves
  <2>2. UNCHANGED <<rx, outgoing>> /\ (Running' <=> Running)
    BY <1>5 DEF Leaves
  <2> QED
    BY <2>1, <2>2 DEF OneSender, InQueue
<1>6. ASSUME NEW i \in OutgoingIds, Resolves(i)
      PROVE  OneSender'
  <2>1. /\ rx' = rx /\ Running /\ Running'
        /\ outgoing'[i] = Nobody /\ \A n \in OutgoingIds : n # i => outgoing'[n] = outgoing[n]
        /\ \A a \in Requesters :
            \/ req'[a] = req[a] /\ (req[a] = "waiting" => a # outgoing[i])
            \/ req'[a] = "answered"
    BY <1>0, <1>6 DEF Resolves
  <2>2. \A a \in Requesters : req'[a] \in {"waiting", "idle"} =>
          /\ req'[a] = req[a]
          /\ req[a] = "waiting" => a # outgoing[i]
    BY <2>1
  <2>3. \A k, a : InQueue(k, a)' <=> InQueue(k, a)
    BY <2>1 DEF InQueue
  <2>4. \A m, n \in OutgoingIds : outgoing'[m] = outgoing'[n] /\ outgoing'[m] # Nobody => m = n
    BY <2>1 DEF OneSender
  <2>5. \A n \in OutgoingIds : outgoing'[n] = outgoing[n] \/ outgoing'[n] = Nobody
    BY <2>1
  <2>6. \A a \in Requesters : req'[a] = "waiting" =>
          (\E k \in 1 .. Len(rx) : InQueue(k, a)) \/ (\E n \in OutgoingIds : outgoing'[n] = a)
    BY <2>1, <2>2 DEF OneSender
  <2>7. \A a \in Requesters : req'[a] = "idle" =>
          /\ \A k \in 1 .. Len(rx) : ~InQueue(k, a)
          /\ \A n \in OutgoingIds : outgoing'[n] # a
    BY <1>0, <2>2, <2>5 DEF OneSender
  <2>8. \A k \in 1 .. Len(rx), n \in OutgoingIds, a \in Requesters : InQueue(k, a) => outgoing'[n] # a
    BY <1>0, <2>5 DEF OneSender
  <2> QED
    BY <2>1, <2>3, <2>4, <2>6, <2>7, <2>8 DEF OneSender
<1> QED
  BY <1>1, <1>2, <1>3, <1>4, <1>5, <1>6, SenderSteps DEF Skips, Files, Joins, Queues

----------------------------------------------------------------------------
(***************************************************************************)
(* Whose request an id stands for.  As long as the counter does not wrap,  *)
(* an id has one owner, and all that is sent and received under it is the  *)
(* owner's.                                                                *)
(***************************************************************************)
\* A request is filed under the next id and fed.
Filing ==
    /\ PollRx /\ rx # <<>>
    /\ DispatchRequest(Head(rx)) /\ outgoing[outgoing_id] = Nobody

\* The requests among the messages s are their ids' owners'.
Owns(owner, s) == \A k \in 1 .. Len(s) : s[k].kind = "request" => s[k].from = owner[s[k].id]
Mine(owner, m) == m.kind = "response" => m.for \in {owner[m.id], Nobody}

\* The first used ids have different owners, who have left the queue.
Owners(owner, used) ==
    /\ owner \in [OutgoingIds -> Requesters \cup {Nobody}]
    /\ used \in 0 .. IdLimit /\ outgoing_id = IF used = IdLimit THEN 0 ELSE used
    /\ \A n \in OutgoingIds : owner[n] # Nobody <=> n < used
    /\ \A m, n \in OutgoingIds : owner[m] = owner[n] /\ owner[m] # Nobody => m = n
    /\ \A n \in OutgoingIds : owner[n] # Nobody =>
        req[owner[n]] # "idle" /\ \A k \in 1 .. Len(rx) : ~InQueue(k, owner[n])

Copies(owner) ==
    /\ \A n \in OutgoingIds : {outgoing[n], seen[n]} \subseteq {owner[n], Nobody}
    /\ Owns(owner, held) /\ Owns(owner, sink) /\ Owns(owner, out)
    /\ \A k \in 1 .. Len(inp) : Mine(owner, inp[k])
    /\ OwnReply

Owned == \E owner, used : Owners(owner, used) /\ Copies(owner)

\* The counter of the ids wraps around.
LEMMA Wrap ==
  ASSUME NEW n \in Nat \ {0}, NEW x \in 0 .. n - 1
  PROVE  (x + 1) % n = IF x + 1 = n THEN 0 ELSE x + 1
<1>1. CASE x + 1 = n
  BY <1>1
<1>2. CASE x + 1 # n
  BY <1>2
<1> QED
  BY <1>1, <1>2

\* The messages sent and received, when no request is filed.
LEMMA WireSteps ==
  ASSUME AllTypes, [Next]_vars, ~Filing
  PROVE  /\ outgoing_id' = outgoing_id
         /\ held' = held \/ held' = <<>> \/ \E m : held' = <<m>> /\ m.kind # "request"
         /\ sink' = sink \/ sink' = <<>> \/ sink' = held
         /\ out' = out \/ (out # <<>> /\ out' = Tail(out)) \/ (sink # <<>> /\ out' = Append(out, Head(sink)))
         /\ seen' = seen \/ (out # <<>> /\ Head(out).kind = "request"
                               /\ seen' = [seen EXCEPT ![Head(out).id] = Head(out).from])
<1> USE DEF AllTypes
<1>1. CASE UNCHANGED vars
  BY <1>1 DEF vars, loop, peer
<1>2. CASE PollFlush \/ DriveInnerFlush \/ Feed \/ Close
  BY <1>2 DEF PollFlush, DriveInnerFlush, DriveFlush, Feed, Close, Write, Writable, Return, DropLoop, peer
<1>3. CASE PollTasks
  BY <1>3 DEF PollTasks, Answer, peer
<1>4. CASE PollRx
  <2>1. CASE rx # <<>> /\ DispatchRequest(Head(rx))
    BY <1>4, <2>1 DEF Filing, DispatchRequest, Panic, DropLoop, peer
  <2>2. CASE rx # <<>> /\ (DispatchOutgoing(Head(rx)) \/ DispatchAny(Head(rx)))
    BY <2>2 DEF DispatchOutgoing, DispatchAny, Notice, peer
  <2>3. CASE rx = <<>>
    BY <1>4, <2>3 DEF PollRx, Panic, DropLoop, peer
  <2> QED
    BY <1>4, <2>1, <2>2, <2>3 DEF PollRx
<1>5. CASE PollIncoming
  BY <1>5 DEF PollIncoming, Park, ReceiveBad, ReceiveRequest, ReceiveResponse, ReceiveNotification,
              Receive, Return, DropLoop, peer
<1>6. CASE Dispatch \/ Wake
  BY <1>6 DEF Dispatch, Wake, Answer, peer
<1>7. CASE PeerReads
  BY <1>7 DEF PeerReads, loop
<1>8. CASE Environment /\ ~PeerReads
  BY <1>8 DEF Environment, Request, Send, DropRequest, Notify, Emit, DropSockets, PeerBad, OutputBreaks,
              PeerRequest, PeerReply, PeerStray, PeerNotice, PeerSends, HandlerDone, ServiceBusy,
              ServiceReady, loop, peer
<1> QED
  BY <1>1, <1>2, <1>3, <1>4, <1>5, <1>6, <1>7, <1>8 DEF Next, Run

\* What the peer sends is an answer to whoever it saw under the id.
LEMMA InputSteps ==
  ASSUME AllTypes, [Next]_vars
  PROVE  \/ inp' = inp
         \/ inp # <<>> /\ inp' = Tail(inp)
         \/ \E m \in InMessages : inp' = Append(inp, m) /\ (m.kind = "response" => m.for \in {seen[m.id], Nobody})
<1>1. CASE UNCHANGED vars
  BY <1>1 DEF vars, peer
<1>2. CASE Run
  BY <1>2 DEF Run, PollFlush, DriveInnerFlush, DriveFlush, Write, PollTasks, PollRx, DispatchRequest,
              DispatchOutgoing, DispatchAny, PollIncoming, Park, ReceiveBad, ReceiveRequest,
              ReceiveResponse, ReceiveNotification, Receive, Dispatch, Wake, Feed, Close, peer
<1>3. CASE \/ \E a \in Requesters : Request(a) \/ DropRequest(a)
           \/ Notify \/ Emit \/ DropSockets \/ ServiceBusy \/ ServiceReady \/ PeerReads \/ OutputBreaks
           \/ \E x \in Requests : HandlerDone(x)
  BY <1>3 DEF Request, DropRequest, Notify, Emit, DropSockets, ServiceBusy, ServiceReady,
              PeerReads, OutputBreaks, HandlerDone, peer
<1>4. ASSUME NEW m \in InMessages, PeerSends(m), m.kind = "response" => m.for \in {seen[m.id], Nobody}
      PROVE  \E x \in InMessages : inp' = Append(inp, x) /\ (x.kind = "response" => x.for \in {seen[x.id], Nobody})
  BY <1>4 DEF PeerSends
<1>5. CASE \/ \E r \in Requests : PeerRequest(r)
           \/ \E n \in OutgoingIds : PeerReply(n) \/ PeerStray(n)
           \/ \E r \in Requests \cup {Nobody} : PeerNotice(r)
           \/ PeerBad
  <2>1. /\ \A r \in Requests : [kind |-> "request", id |-> r] \in InMessages
        /\ \A n \in OutgoingIds : [kind |-> "response", id |-> n, for |-> seen[n]] \in InMessages
        /\ \A n \in OutgoingIds : [kind |-> "response", id |-> n, for |-> Nobody] \in InMessages
        /\ \A r \in Requests \cup {Nobody} : [kind |-> "notification", cancels |-> r] \in InMessages
        /\ [kind |-> "bad"] \in InMessages
    BY DEF InMessages, AllTypes, PeerTypes
  <2>2. \E m \in InMessages : PeerSends(m) /\ (m.kind = "response" => m.for \in {seen[m.id], Nobody})
    BY <1>5, <2>1 DEF PeerRequest, PeerReply, PeerStray, PeerNotice, PeerBad
  <2> QED
    BY <1>4, <2>2
<1> QED
  BY <1>1, <1>2, <1>3, <1>5 DEF Next, Environment

\* An entry goes, and an answer comes, only with a response under its id.
LEMMA ReplySteps ==
  ASSUME AllTypes, [Next]_vars, ~Filing
  PROVE  /\ \A n \in OutgoingIds : outgoing'[n] \in {outgoing[n], Nobody}
         /\ \A a \in Requesters : req'[a] = "answered" =>
              \/ req[a] = "answered" /\ reply'[a] = reply[a]
              \/ \E k \in 1 .. Len(inp) :
                   inp[k].kind = "response" /\ inp[k].id \in OutgoingIds
                     /\ outgoing[inp[k].id] = a /\ reply'[a] = inp[k].for
<1> USE DEF AllTypes
<1>0. /\ outgoing \in [OutgoingIds -> Requesters \cup {Nobody}]
      /\ req \in [Requesters -> {"idle", "waiting", "dropped", "answered", "stopped"}]
      /\ reply \in [Requesters -> Requesters \cup {Nobody}]
  BY DEF LoopTypes, UserTypes
<1>1. CASE UNCHANGED <<outgoing, req, reply>>
  BY <1>1
<1>2. CASE DropLoop /\ reply' = reply
  BY <1>0, <1>2 DEF DropLoop
<1>3. CASE ReceiveResponse
  <2>1. /\ Head(inp).id \in OutgoingIds /\ inp # <<>> /\ Head(inp).kind = "response"
    BY <1>3, FirstMessage DEF ReceiveResponse, Receive
  <2>2. 1 \in 1 .. Len(inp) /\ Head(inp) = inp[1]
    BY <2>1, TailElements DEF PeerTypes
  <2>3. /\ outgoing' = [outgoing EXCEPT ![Head(inp).id] = Nobody]
        /\ LET a == outgoing[Head(inp).id]
           IN  IF a # Nobody /\ req[a] = "waiting"
               THEN req' = [req EXCEPT ![a] = "answered"] /\ reply' = [reply EXCEPT ![a] = Head(inp).for]
               ELSE UNCHANGED <<req, reply>>
    BY <1>3 DEF ReceiveResponse
  <2>4. ASSUME NEW a \in Requesters, req'[a] = "answered"
        PROVE  \/ req[a] = "answered" /\ reply'[a] = reply[a]
               \/ outgoing[Head(inp).id] = a /\ reply'[a] = Head(inp).for
    BY <1>0, <2>3, <2>4
  <2>5. \A n \in OutgoingIds : outgoing'[n] \in {outgoing[n], Nobody}
    BY <1>0, <2>3
  <2> QED
    BY <2>1, <2>2, <2>4, <2>5
<1>4. CASE \E a \in Requesters : Request(a) \/ DropRequest(a)
  <2>1. PICK a \in Requesters : Request(a) \/ DropRequest(a)
    BY <1>4
  <2>2. UNCHANGED <<outgoing, reply>> /\ req' \in {[req EXCEPT ![a] = "waiting"],
             [req EXCEPT ![a] = "stopped"], [req EXCEPT ![a] = "dropped"]}
    BY <2>1 DEF Request, DropRequest, Send, loop
  <2> QED
    BY <1>0, <2>2
<1>5. CASE Run /\ ~ReceiveResponse
  <2>1. CASE PollRx
    <3>1. CASE rx # <<>> /\ DispatchRequest(Head(rx))
      BY <1>2, <2>1, <3>1 DEF Filing, DispatchRequest, Panic
    <3>2. CASE rx # <<>> /\ (DispatchOutgoing(Head(rx)) \/ DispatchAny(Head(rx)))
      BY <1>1, <3>2 DEF DispatchOutgoing, DispatchAny, users
    <3>3. CASE rx = <<>>
      BY <1>1, <1>2, <2>1, <3>3 DEF PollRx, Panic, users
    <3> QED
      BY <2>1, <3>1, <3>2, <3>3 DEF PollRx
  <2>2. CASE PollFlush \/ DriveInnerFlush \/ Feed \/ Close
    BY <1>1, <1>2, <2>2 DEF PollFlush, DriveInnerFlush, DriveFlush, Feed, Close, Write, Return, users
  <2>3. CASE PollTasks \/ Dispatch \/ Wake
    BY <1>1, <2>3 DEF PollTasks, Dispatch, Wake, users
  <2>4. CASE Park \/ ReceiveBad \/ ReceiveRequest \/ ReceiveNotification
    BY <1>1, <1>2, <2>4 DEF Park, ReceiveBad, ReceiveRequest, ReceiveNotification, Return, users
  <2> QED
    BY <1>5, <2>1, <2>2, <2>3, <2>4 DEF Run, PollIncoming
<1>6. CASE Environment /\ ~\E a \in Requesters : Request(a) \/ DropRequest(a)
  <2>1. UNCHANGED <<outgoing, req, reply>>
    BY <1>6 DEF Environment, Notify, Emit, Send, DropSockets, PeerBad, PeerReads, OutputBreaks, PeerRequest,
                PeerReply, PeerStray, PeerNotice, PeerSends, HandlerDone, ServiceBusy, ServiceReady,
                loop, users
  <2> QED
    BY <1>1, <2>1
<1> QED
  BY <1>1, <1>3, <1>4, <1>5, <1>6 DEF Next, vars, loop, users

\* A requester that has left the queue does not come back.
LEMMA LeftQueue ==
  ASSUME AllTypes, [Next]_vars, NEW a \in Requesters, req[a] # "idle",
         \A k \in 1 .. Len(rx) : ~InQueue(k, a)
  PROVE  req'[a] # "idle" /\ \A k \in 1 .. Len(rx') : ~InQueue(k, a)'
<1> USE DEF AllTypes
<1>0. /\ req \in [Requesters -> {"idle", "waiting", "dropped", "answered", "stopped"}]
      /\ outgoing \in [OutgoingIds -> Requesters \cup {Nobody}]
  BY DEF LoopTypes, UserTypes
<1>1. ASSUME rx # <<>>, rx' = Tail(rx)
      PROVE  \A k \in 1 .. Len(rx') : ~InQueue(k, a)'
  <2>1. /\ Len(rx) \in Nat \ {0} /\ Len(rx') = Len(rx) - 1
        /\ \A k \in 1 .. Len(rx) - 1 : rx'[k] = rx[k + 1]
    BY <1>1, TailElements DEF LineTypes
  <2>2. \A k \in 1 .. Len(rx') : k + 1 \in 1 .. Len(rx) /\ rx'[k] = rx[k + 1]
    BY <2>1
  <2> QED
    BY <2>2 DEF InQueue
<1>2. ASSUME NEW e \in EventsTo(queued + 1), rx' = Append(rx, e), e.kind = "request" => e.from # a
      PROVE  \A k \in 1 .. Len(rx') : ~InQueue(k, a)'
  <2>1. rx \in Seq(EventsTo(queued + 1))
    BY TicketsGrow DEF LineTypes
  <2>2. /\ Len(rx) \in Nat /\ Len(rx') = Len(rx) + 1 /\ rx'[Len(rx) + 1] = e
        /\ \A k \in 1 .. Len(rx) : rx'[k] = rx[k]
    BY <1>2, <2>1, AppendElements
  <2>3. \A k \in 1 .. Len(rx') : k \in 1 .. Len(rx) \/ rx'[k] = e
    BY <2>2
  <2> QED
    BY <1>2, <2>2, <2>3 DEF InQueue
<1>3. ASSUME rx' = rx \/ rx' = <<>>
      PROVE  \A k \in 1 .. Len(rx') : ~InQueue(k, a)'
  BY <1>3 DEF InQueue
<1>4. CASE Same
  BY <1>3, <1>4 DEF Same
<1>5. CASE Ends
  BY <1>0, <1>3, <1>5 DEF Ends, DropLoop
<1>6. CASE Skips \/ \E b \in Requesters, n \in OutgoingIds : Files(b, n)
  BY <1>1, <1>6 DEF Skips, Files
<1>7. ASSUME NEW b \in Requesters, NEW e \in EventsTo(queued + 1), Joins(b, e)
      PROVE  req'[a] # "idle" /\ \A k \in 1 .. Len(rx') : ~InQueue(k, a)'
  BY <1>0, <1>2, <1>7 DEF Joins
<1>8. ASSUME NEW e \in EventsTo(queued + 1), Queues(e)
      PROVE  req'[a] # "idle" /\ \A k \in 1 .. Len(rx') : ~InQueue(k, a)'
  BY <1>2, <1>8 DEF Queues
<1>9. ASSUME NEW b \in Requesters, Leaves(b)
      PROVE  req'[a] # "idle" /\ \A k \in 1 .. Len(rx') : ~InQueue(k, a)'
  BY <1>0, <1>3, <1>9 DEF Leaves
<1>10. ASSUME NEW n \in OutgoingIds, Resolves(n)
       PROVE  req'[a] # "idle" /\ \A k \in 1 .. Len(rx') : ~InQueue(k, a)'
  BY <1>0, <1>3, <1>10 DEF Resolves
<1> QED
  BY <1>4, <1>5, <1>6, <1>7, <1>8, <1>9, <1>10, SenderSteps

\* Fewer messages, or one more that is the owner's, keep what Owns says.
LEMMA OwnsKept ==
  ASSUME NEW owner, NEW s \in Seq(MessagesTo(queued)), Owns(owner, s)
  PROVE  /\ s # <<>> => Owns(owner, Tail(s))
         /\ \A m \in MessagesTo(queued) :
              (m.kind = "request" => m.from = owner[m.id]) => Owns(owner, Append(s, m))
<1>1. ASSUME s # <<>>
      PROVE  Owns(owner, Tail(s))
  <2>1. /\ Len(s) \in Nat \ {0} /\ Len(Tail(s)) = Len(s) - 1
        /\ \A k \in 1 .. Len(s) - 1 : Tail(s)[k] = s[k + 1]
    BY <1>1, TailElements
  <2>2. \A k \in 1 .. Len(Tail(s)) : k + 1 \in 1 .. Len(s) /\ Tail(s)[k] = s[k + 1]
    BY <2>1
  <2> QED
    BY <2>2 DEF Owns
<1>2. ASSUME NEW m \in MessagesTo(queued), m.kind = "request" => m.from = owner[m.id]
      PROVE  Owns(owner, Append(s, m))
  <2>1. /\ Len(s) \in Nat /\ Len(Append(s, m)) = Len(s) + 1 /\ Append(s, m)[Len(s) + 1] = m
        /\ \A k \in 1 .. Len(s) : Append(s, m)[k] = s[k]
    BY AppendElements
  <2>2. \A k \in 1 .. Len(Append(s, m)) : k \in 1 .. Len(s) \/ Append(s, m)[k] = m
    BY <2>1
  <2> QED
    BY <1>2, <2>1, <2>2 DEF Owns
<1> QED
  BY <1>1, <1>2

\* Unless a request is filed the ids keep their owners.
LEMMA OwnedUnfiled ==
  ASSUME AllTypes, [Next]_vars, ~Filing, NEW owner, NEW used, Owners(owner, used), Copies(owner)
  PROVE  Owners(owner, used)' /\ Copies(owner)'
<1> USE MainLoopAssumption DEF AllTypes
<1>1. /\ owner \in [OutgoingIds -> Requesters \cup {Nobody}]
      /\ seen \in [OutgoingIds -> Requesters \cup {Nobody}]
  BY DEF Owners, PeerTypes
<1>2. Owners(owner, used)'
  <2>1. ASSUME NEW n \in OutgoingIds, owner[n] # Nobody
        PROVE  req'[owner[n]] # "idle" /\ \A k \in 1 .. Len(rx') : ~InQueue(k, owner[n])'
    <3>1. /\ owner[n] \in Requesters /\ req[owner[n]] # "idle"
          /\ \A k \in 1 .. Len(rx) : ~InQueue(k, owner[n])
      BY <1>1, <2>1 DEF Owners
    <3> QED
      BY <3>1, LeftQueue
  <2>2. outgoing_id' = outgoing_id
    BY WireSteps
  <2> QED
    BY <2>1, <2>2 DEF Owners
<1>3. /\ held \in Seq(MessagesTo(queued)) /\ sink \in Seq(MessagesTo(queued))
      /\ out \in Seq(MessagesTo(queued))
  BY DEF LineTypes
<1>4. ASSUME NEW s \in Seq(MessagesTo(queued)), s # <<>>, Owns(owner, s), Head(s).kind = "request"
      PROVE  Head(s).id \in OutgoingIds /\ Head(s).from = owner[Head(s).id]
  <2>1. Head(s) = s[1] /\ Head(s) \in MessagesTo(queued) /\ 1 \in 1 .. Len(s)
    BY <1>4, TailElements
  <2>2. Head(s).id \in OutgoingIds
    BY <1>4, <2>1 DEF MessagesTo, Question, Answer, Notice
  <2> QED
    BY <1>4, <2>1, <2>2 DEF Owns
<1>5. Owns(owner, held)' /\ Owns(owner, sink)'
  <2>1. Owns(owner, <<>>) /\ Owns(owner, held) /\ Owns(owner, sink)
    BY DEF Owns, Copies
  <2>2. \A m : m.kind # "request" => Owns(owner, <<m>>)
    BY DEF Owns
  <2>3. Owns(owner, held')
    BY <2>1, <2>2, WireSteps
  <2>4. Owns(owner, sink')
    BY <2>1, WireSteps
  <2> QED
    BY <2>3, <2>4 DEF Owns
<1>6. Owns(owner, out')
  <2>1. Owns(owner, out) /\ Owns(owner, sink)
    BY DEF Copies
  <2>2. ASSUME sink # <<>>, out' = Append(out, Head(sink))
        PROVE  Owns(owner, out')
    <3>1. Head(sink) \in MessagesTo(queued)
      BY <1>3, <2>2, TailElements
    <3> QED
      BY <1>3, <1>4, <2>1, <2>2, <3>1, OwnsKept
  <2>3. ASSUME out # <<>>, out' = Tail(out)
        PROVE  Owns(owner, out')
    BY <1>3, <2>1, <2>3, OwnsKept
  <2> QED
    BY <2>1, <2>2, <2>3, WireSteps
<1>7. \A n \in OutgoingIds : {outgoing'[n], seen'[n]} \subseteq {owner[n], Nobody}
  <2>1. \A n \in OutgoingIds : {outgoing[n], seen[n]} \subseteq {owner[n], Nobody}
    BY DEF Copies
  <2>2. \A n \in OutgoingIds : outgoing'[n] \in {outgoing[n], Nobody}
    BY ReplySteps
  <2>3. ASSUME out # <<>>, Head(out).kind = "request", seen' = [seen EXCEPT ![Head(out).id] = Head(out).from]
        PROVE  \A n \in OutgoingIds : seen'[n] \in {seen[n], owner[n]}
    <3>1. Head(out).id \in OutgoingIds /\ Head(out).from = owner[Head(out).id]
      BY <1>3, <1>4, <2>3 DEF Copies
    <3> QED
      BY <1>1, <2>3, <3>1
  <2>4. \A n \in OutgoingIds : seen'[n] \in {seen[n], owner[n]}
    BY <2>3, WireSteps
  <2> QED
    BY <2>1, <2>2, <2>4
<1>8. \A k \in 1 .. Len(inp') : Mine(owner, inp'[k])
  <2>1. \A k \in 1 .. Len(inp) : Mine(owner, inp[k])
    BY DEF Copies
  <2>2. CASE inp # <<>> /\ inp' = Tail(inp)
    <3>1. /\ Len(inp) \in Nat \ {0} /\ Len(inp') = Len(inp) - 1
          /\ \A k \in 1 .. Len(inp) - 1 : inp'[k] = inp[k + 1]
      BY <2>2, TailElements DEF PeerTypes
    <3>2. \A k \in 1 .. Len(inp') : k + 1 \in 1 .. Len(inp) /\ inp'[k] = inp[k + 1]
      BY <3>1
    <3> QED
      BY <2>1, <3>2
  <2>3. ASSUME NEW m \in InMessages, inp' = Append(inp, m), m.kind = "response" => m.for \in {seen[m.id], Nobody}
        PROVE  \A k \in 1 .. Len(inp') : Mine(owner, inp'[k])
    <3>1. /\ Len(inp) \in Nat /\ Len(inp') = Len(inp) + 1 /\ inp'[Len(inp) + 1] = m
          /\ \A k \in 1 .. Len(inp) : inp'[k] = inp[k]
      BY <2>3, AppendElements DEF PeerTypes
    <3>2. \A k \in 1 .. Len(inp') : k \in 1 .. Len(inp) \/ inp'[k] = m
      BY <3>1
    <3>3. m.kind = "response" => m.id \in OutgoingIds
      BY DEF InMessages
    <3>4. Mine(owner, m)
      BY <2>3, <3>3 DEF Mine, Copies
    <3> QED
      BY <2>1, <3>1, <3>2, <3>4
  <2> QED
    BY <2>1, <2>2, <2>3, InputSteps
<1>9. OwnReply'
  <2>1. ASSUME NEW a \in Requesters, req'[a] = "answered"
        PROVE  reply'[a] \in {a, Nobody}
    <3>1. CASE req[a] = "answered" /\ reply'[a] = reply[a]
      BY <3>1 DEF Copies, OwnReply
    <3>2. ASSUME NEW k \in 1 .. Len(inp), inp[k].kind = "response", inp[k].id \in OutgoingIds,
                 outgoing[inp[k].id] = a, reply'[a] = inp[k].for
          PROVE  reply'[a] \in {a, Nobody}
      <4>1. owner[inp[k].id] = a
        BY <3>2 DEF Copies
      <4> QED
        BY <3>2, <4>1 DEF Copies, Mine
    <3> QED
      BY <2>1, <3>1, <3>2, ReplySteps
  <2> QED
    BY <2>1 DEF OwnReply
<1> QED
  BY <1>2, <1>5, <1>6, <1>7, <1>8, <1>9 DEF Copies, Owns

\* There is an id for each requester, so a request that is filed finds one
\* that was never used: all of them in use would be somebody else's.
LEMMA IdLeft ==
  ASSUME Cardinality(Requesters) <= IdLimit, NEW owner, NEW used, Owners(owner, used),
         NEW a \in Requesters, \A n \in OutgoingIds : owner[n] # a
  PROVE  used < IdLimit
<1> USE MainLoopAssumption
<1> SUFFICES ASSUME used = IdLimit
             PROVE  FALSE
  BY DEF Owners
<1>1. \A n \in OutgoingIds : owner[n] \in Requesters \ {a}
  BY DEF Owners, OutgoingIds
<1>2. owner \in [OutgoingIds -> Requesters \ {a}]
  BY <1>1 DEF Owners
<1>3. IsFiniteSet(OutgoingIds) /\ Cardinality(OutgoingIds) = IdLimit
  BY FS_Interval DEF OutgoingIds
<1>4. IsFiniteSet(Requesters \ {a}) /\ Cardinality(Requesters \ {a}) = Cardinality(Requesters) - 1
  BY FS_RemoveElement
<1>5. Cardinality(Requesters \ {a}) < Cardinality(OutgoingIds)
  BY <1>3, <1>4, FS_CardinalityType
<1>6. \E m, n \in OutgoingIds : m # n /\ owner[m] = owner[n]
  BY <1>2, <1>3, <1>4, <1>5, FS_PigeonHole
<1> QED
  BY <1>1, <1>6 DEF Owners

\* The requester whose request is filed becomes the owner of its id.
LEMMA OwnedFiled ==
  ASSUME AllTypes, OneSender, Cardinality(Requesters) <= IdLimit, Filing,
         NEW owner, NEW used, Owners(owner, used), Copies(owner)
  PROVE  Owned'
<1> USE MainLoopAssumption DEF AllTypes
<1>0. PICK a \in Requesters, i \in OutgoingIds : a = Head(rx).from /\ i = outgoing_id
  BY FirstEvent DEF Filing, DispatchRequest, LoopTypes
<1> DEFINE mine == [owner EXCEPT ![i] = a]
<1>1. /\ rx # <<>> /\ Head(rx).kind = "request" /\ Head(rx).from = a
      /\ outgoing_id = i /\ outgoing[i] = Nobody
      /\ outgoing' = [outgoing EXCEPT ![i] = a]
      /\ outgoing_id' = (i + 1) % IdLimit
      /\ held' = <<Question(i, a, Head(rx).ticket)>>
      /\ rx' = Tail(rx)
      /\ UNCHANGED <<sink, req, reply, inp, out, seen>>
  BY <1>0 DEF Filing, DispatchRequest, peer
<1>2. /\ owner \in [OutgoingIds -> Requesters \cup {Nobody}]
      /\ outgoing \in [OutgoingIds -> Requesters \cup {Nobody}]
      /\ used \in 0 .. IdLimit
  BY DEF Owners, LoopTypes
<1>3. /\ Len(rx) \in Nat \ {0} /\ Len(rx') = Len(rx) - 1 /\ InQueue(1, a)
      /\ \A k \in 1 .. Len(rx') : k + 1 \in 1 .. Len(rx) /\ k + 1 # 1 /\ rx'[k] = rx[k + 1]
  <2>1. /\ Len(rx) \in Nat \ {0} /\ Len(rx') = Len(rx) - 1 /\ Head(rx) = rx[1]
        /\ \A k \in 1 .. Len(rx) - 1 : rx'[k] = rx[k + 1]
    BY <1>1, TailElements DEF LineTypes
  <2> QED
    BY <1>1, <2>1 DEF InQueue
<1>4. \A n \in OutgoingIds : owner[n] # a
  BY <1>1, <1>3 DEF Owners
<1>5. used < IdLimit
  BY <1>1, <1>4, IdLeft
<1>6. i = used /\ owner[i] = Nobody
  BY <1>1, <1>2, <1>5 DEF Owners
<1>7. /\ mine \in [OutgoingIds -> Requesters \cup {Nobody}] /\ mine[i] = a
      /\ \A n \in OutgoingIds : n # i => mine[n] = owner[n]
      /\ \A n \in OutgoingIds : mine[n] = owner[n] \/ owner[n] = Nobody
  BY <1>1, <1>2, <1>6
<1> HIDE DEF mine
<1>8. Owners(mine, used + 1)'
  <2>1. outgoing_id' = IF used + 1 = IdLimit THEN 0 ELSE used + 1
    BY <1>1, <1>2, <1>5, <1>6, Wrap
  <2>2. \A n \in OutgoingIds : mine[n] # Nobody <=> n < used + 1
    <3>1. \A n \in OutgoingIds : n \in Nat /\ (owner[n] # Nobody <=> n < used)
      BY DEF Owners, OutgoingIds
    <3>2. a # Nobody
      BY <1>1
    <3> QED
      BY <1>2, <1>6, <1>7, <3>1, <3>2
  <2>3. \A m, n \in OutgoingIds : mine[m] = mine[n] /\ mine[m] # Nobody => m = n
    BY <1>4, <1>7 DEF Owners
  <2>4. \A b \in Requesters : (\A k \in 1 .. Len(rx) : ~InQueue(k, b)) =>
                               \A k \in 1 .. Len(rx') : ~InQueue(k, b)'
    BY <1>3 DEF InQueue
  <2>5. \A k \in 1 .. Len(rx') : ~InQueue(k, a)'
    <3>1. 1 \in 1 .. Len(rx)
      BY <1>3
    <3>2. \A k \in 1 .. Len(rx') : ~InQueue(k + 1, a)
      BY <1>1, <1>3, <3>1 DEF OneSender
    <3> QED
      BY <1>3, <3>2 DEF InQueue
  <2>6. req[a] # "idle"
    <3>1. 1 \in 1 .. Len(rx)
      BY <1>3
    <3> QED
      BY <1>1, <1>3, <3>1 DEF OneSender
  <2>7. ASSUME NEW n \in OutgoingIds, mine[n] # Nobody
        PROVE  req'[mine[n]] # "idle" /\ \A k \in 1 .. Len(rx') : ~InQueue(k, mine[n])'
    <3>1. CASE n = i
      BY <1>1, <1>7, <2>5, <2>6, <3>1
    <3>2. CASE n # i
      <4>1. mine[n] = owner[n] /\ owner[n] \in Requesters
        BY <1>2, <1>7, <2>7, <3>2
      <4>2. req[owner[n]] # "idle" /\ \A k \in 1 .. Len(rx) : ~InQueue(k, owner[n])
        BY <2>7, <4>1 DEF Owners
      <4> QED
        BY <1>1, <2>4, <4>1, <4>2
    <3> QED
      BY <3>1, <3>2
  <2>8. used + 1 \in 0 .. IdLimit
    BY <1>2, <1>5
  <2> QED
    BY <1>7, <2>1, <2>2, <2>3, <2>7, <2>8 DEF Owners
<1>9. Copies(mine)'
  <2>1. \A n \in OutgoingIds : {outgoing'[n], seen'[n]} \subseteq {mine[n], Nobody}
    BY <1>1, <1>2, <1>6, <1>7 DEF Copies
  <2>2. Owns(mine, held')
    BY <1>1, <1>7 DEF Owns, Question
  <2>3. ASSUME NEW s \in Seq(MessagesTo(queued)), Owns(owner, s)
        PROVE  Owns(mine, s)
    <3>1. ASSUME NEW k \in 1 .. Len(s), s[k].kind = "request"
          PROVE  s[k].from = mine[s[k].id]
      <4>1. s[k] \in MessagesTo(queued)
        OBVIOUS
      <4>2. s[k].id \in OutgoingIds /\ s[k].from \in Requesters
        BY <3>1, <4>1 DEF MessagesTo, Question, Answer, Notice
      <4>3. s[k].from = owner[s[k].id]
        BY <2>3, <3>1 DEF Owns
      <4> QED
        BY <1>7, <4>2, <4>3
    <3> QED
      BY <3>1 DEF Owns
  <2>4. Owns(mine, sink') /\ Owns(mine, out')
    BY <1>1, <2>3 DEF Copies, LineTypes
  <2>5. ASSUME NEW k \in 1 .. Len(inp), inp[k].kind = "response"
        PROVE  inp[k].for \in {mine[inp[k].id], Nobody}
    <3>1. inp[k] \in InMessages
      BY DEF PeerTypes
    <3>2. inp[k].id \in OutgoingIds
      BY <2>5, <3>1 DEF InMessages
    <3>3. inp[k].for \in {owner[inp[k].id], Nobody}
      BY <2>5 DEF Copies, Mine
    <3> QED
      BY <1>7, <3>2, <3>3
  <2>6. \A k \in 1 .. Len(inp') : Mine(mine, inp'[k])
    BY <1>1, <2>5 DEF Mine
  <2>7. OwnReply'
    BY <1>1 DEF Copies, OwnReply
  <2> QED
    BY <2>1, <2>2, <2>4, <2>6, <2>7 DEF Copies, Owns
<1> QED
  BY <1>8, <1>9 DEF Owned

\* Every step leaves the ids with their owners.
LEMMA OwnedStep ==
  ASSUME AllTypes, OneSender, Cardinality(Requesters) <= IdLimit, Owned, [Next]_vars
  PROVE  Owned'
<1>1. PICK owner, used : Owners(owner, used) /\ Copies(owner)
  BY DEF Owned
<1>2. CASE Filing
  BY <1>1, <1>2, OwnedFiled
<1>3. CASE ~Filing
  BY <1>1, <1>3, OwnedUnfiled DEF Owned
<1> QED
  BY <1>2, <1>3

----------------------------------------------------------------------------
\* What the loop starts from.
LEMMA InitHolds == Init => IInv
<1> SUFFICES ASSUME Init
             PROVE  IInv
  OBVIOUS
<1> USE MainLoopAssumption DEF Init
<1>1. LineTypes
  BY EmptySeq DEF LineTypes
<1>2. LoopTypes /\ UserTypes
  <2>1. 0 \in OutgoingIds
    BY DEF OutgoingIds
  <2>2. pc \in Places /\ cur \in Requests \cup {Nobody} /\ tasks \subseteq Requests /\ woken \subseteq tasks
    BY DEF Places, Scanning
  <2>3. outgoing \in [OutgoingIds -> Requesters \cup {Nobody}]
    OBVIOUS
  <2>4. UserTypes
    BY DEF UserTypes
  <2> QED
    BY <2>1, <2>2, <2>3, <2>4 DEF LoopTypes
<1>3. PeerTypes
  <2>1. inp \in Seq(InMessages) /\ Len(inp) <= InCapacity
    BY EmptySeq
  <2>2. replies \in [OutgoingIds -> 0 .. MaxReplies] /\ written \in [Requests -> Nat]
    OBVIOUS
  <2>3. seen \in [OutgoingIds -> Requesters \cup {Nobody}]
    OBVIOUS
  <2> QED
    BY <2>1, <2>2, <2>3 DEF PeerTypes
<1>4. Hands /\ QueueOrder /\ SinkOrder /\ ResultKept /\ BreakFlushes
  BY DEF Hands, QueueOrder, SinkOrder, Holding, ResultKept, BreakFlushes, Running, Stopped, Dispatching
<1>5. Journey
  <2>1. \A r \in Requests : ~Unread(r) /\ cur # r /\ r \notin tasks /\ ~Has(held, r) /\ ~Has(sink, r) /\ written[r] = 0
    BY DEF Unread, Has
  <2>2. ASSUME NEW r \in Requests, NEW p \in Stations
        PROVE  ~At(r, p)
    <3>1. ~Unread(r) /\ cur # r /\ r \notin tasks /\ ~Has(held, r) /\ ~Has(sink, r) /\ ~(written[r] > 0)
      BY <2>1
    <3> HIDE DEF Init
    <3> QED
      BY <3>1 DEF At, Stations
  <2> QED
    BY <2>1, <2>2 DEF Journey
<1>6. OneSender
  BY DEF OneSender, InQueue
<1> QED
  BY <1>1, <1>2, <1>3, <1>4, <1>5, <1>6 DEF IInv, AllTypes

\* The invariant holds at first, and every step keeps it.
THEOREM Invariant == Spec => []IInv
<1>1. ASSUME IInv, [Next]_vars
      PROVE  IInv'
  <2>1. AllTypes /\ Hands /\ QueueOrder /\ SinkOrder /\ ResultKept /\ Journey /\ OneSender /\ BreakFlushes
    BY <1>1 DEF IInv
  <2>2. LineTypes /\ LoopTypes /\ PeerTypes
    BY <2>1 DEF AllTypes
  <2>3. Stops \/ Writes \/ Loads \/ Answers \/ Takes \/ Handles \/ Sends \/ Reads \/ Idles
    BY <1>1, <2>1, <2>2, LineSteps
  <2>4. LineTypes'
    BY <2>2, <2>3, LineTypesStep
  <2>5. QueueOrder' /\ SinkOrder'
    BY <2>1, <2>2, <2>3, <2>4, QueueOrderStep, SinkOrderStep
  <2>6. AllTypes'
    BY <1>1, <2>1, <2>4, LoopTypesStep, UserTypesStep, PeerTypesStep DEF AllTypes
  <2>7. Hands' /\ ResultKept' /\ BreakFlushes'
    BY <1>1, <2>1, HandsStep, ResultStep
  <2>8. Journey' /\ OneSender'
    BY <1>1, <2>1, JourneyStep, OneSenderStep
  <2> QED
    BY <2>5, <2>6, <2>7, <2>8 DEF IInv
<1> QED
  BY <1>1, InitHolds, PTL DEF Spec

\* The variables of MainLoop keep their types.
THEOREM TypeCorrect == Spec => []TypeOK
<1>1. IInv => TypeOK
  BY Types DEF IInv
<1> QED
  BY <1>1, Invariant, PTL

\* What the sockets queue is written in the order in which they queued it,
\* with nothing lost or repeated, whatever comes between (dispatch_event, feed
\* and the sink).
THEOREM SocketsKeepOrder == Spec => []SocketOrder
<1>1. IInv => SocketOrder
  BY OrderHolds DEF IInv, AllTypes
<1> QED
  BY <1>1, Invariant, PTL

\* A request of the peer is in one place on its way while the loop runs, and
\* its response is written at most once (dispatch_message, tasks, feed).
THEOREM RequestsAreInOnePlace == Spec => []RequestInOnePlace
<1>1. ASSUME IInv, NEW r \in asked
      PROVE  /\ written[r] <= 1
             /\ Running => Cardinality({p \in Stations : At(r, p)}) = 1
  <2>1. r \in Requests
    BY <1>1 DEF IInv, AllTypes, PeerTypes
  <2>2. written[r] \in 0 .. 1 /\ (Running => OnePlace(r))
    BY <1>1, <2>1 DEF IInv, Journey
  <2>3. ASSUME Running
        PROVE  Cardinality({p \in Stations : At(r, p)}) = 1
    <3>1. PICK q \in Stations : \A p \in Stations : At(r, p) <=> p = q
      BY <2>2, <2>3 DEF OnePlace
    <3>2. {p \in Stations : At(r, p)} = {q}
      BY <3>1
    <3> QED
      BY <3>2, FS_Singleton
  <2> QED
    BY <2>2, <2>3
<1>2. IInv => RequestInOnePlace
  BY <1>1 DEF RequestInOnePlace
<1> QED
  BY <1>2, Invariant, PTL

\* Nobody waits for a oneshot whose sender is gone, or is in two places: a
\* socket user that waits can still be resolved, and none waits when the loop
\* has stopped (PeerSocket::request, dispatch_event, dispatch_message).
THEOREM WaitersStayReachable == Spec => []WaitersReachable
<1>1. ASSUME IInv, NEW a \in Requesters, req[a] = "waiting"
      PROVE  /\ Running
             /\ Cardinality({k \in 1 .. Len(rx) : rx[k].kind = "request" /\ rx[k].from = a})
                  + Cardinality({n \in OutgoingIds : outgoing[n] = a}) = 1
  <2> DEFINE Q == {k \in 1 .. Len(rx) : rx[k].kind = "request" /\ rx[k].from = a}
             F == {n \in OutgoingIds : outgoing[n] = a}
  <2>1. OneSender /\ a # Nobody
    BY <1>1, MainLoopAssumption DEF IInv
  <2>2. Running /\ ((\E k \in 1 .. Len(rx) : InQueue(k, a)) \/ (\E n \in OutgoingIds : outgoing[n] = a))
    BY <1>1, <2>1 DEF OneSender
  <2>3. CASE \E k \in 1 .. Len(rx) : InQueue(k, a)
    <3>1. PICK k \in 1 .. Len(rx) : InQueue(k, a)
      BY <2>3
    <3>2. Q = {k}
      BY <2>1, <3>1 DEF OneSender, InQueue
    <3>3. F = {}
      BY <2>1, <3>1 DEF OneSender
    <3>4. Cardinality(Q) = 1 /\ Cardinality(F) = 0
      BY <3>2, <3>3, FS_Singleton, FS_EmptySet
    <3> QED
      BY <2>2, <3>4
  <2>4. CASE ~\E k \in 1 .. Len(rx) : InQueue(k, a)
    <3>1. PICK n \in OutgoingIds : outgoing[n] = a
      BY <2>2, <2>4
    <3>2. F = {n}
      BY <2>1, <3>1 DEF OneSender
    <3>3. Q = {}
      BY <2>4 DEF InQueue
    <3>4. Cardinality(F) = 1 /\ Cardinality(Q) = 0
      BY <3>2, <3>3, FS_Singleton, FS_EmptySet
    <3> QED
      BY <2>2, <3>4
  <2> QED
    BY <2>3, <2>4
<1>2. IInv => WaitersReachable
  BY <1>1 DEF WaitersReachable
<1> QED
  BY <1>2, Invariant, PTL

\* After a Break everything taken from the queue is written before run()
\* returns, unless the stream failed (outgoing.close()).
THEOREM BreakIsFlushed == Spec => []BreakFlushes
<1>1. IInv => BreakFlushes
  BY DEF IInv
<1> QED
  BY <1>1, Invariant, PTL

\* With an id for each requester nobody gets the response to another one's
\* request, although the peer answers repeatedly, out of order and under ids
\* it was never sent (dispatch_event, dispatch_message).
THEOREM RepliesReachTheirOwner ==
  ASSUME Cardinality(Requesters) <= IdLimit
  PROVE  Spec => []OwnReply
<1>1. Init => Owned
  <2> SUFFICES ASSUME Init
               PROVE  Owned
    OBVIOUS
  <2> DEFINE none == [n \in OutgoingIds |-> Nobody]
  <2>1. \A n \in OutgoingIds : none[n] = Nobody /\ n \in Nat
    BY DEF OutgoingIds
  <2>2. none \in [OutgoingIds -> Requesters \cup {Nobody}]
    OBVIOUS
  <2>3. Owners(none, 0)
    BY <2>1, <2>2, MainLoopAssumption DEF Init, Owners
  <2>4. Copies(none)
    BY <2>1 DEF Init, Copies, Owns, OwnReply
  <2> QED
    BY <2>3, <2>4 DEF Owned
<1>2. IInv /\ Owned /\ [Next]_vars => Owned'
  BY OwnedStep DEF IInv
<1>3. Owned => OwnReply
  BY DEF Owned, Copies
<1> QED
  BY <1>1, <1>2, <1>3, Invariant, PTL DEF Spec
=============================================================================
