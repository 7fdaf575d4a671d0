----------------------- MODULE ConcurrentLoop_proofs -----------------------
(***************************************************************************)
(* Proofs about the main loop driving the Concurrency middleware, for any  *)
(* number of requests, requesters, ids and permitted concurrent requests.  *)
(***************************************************************************)
EXTENDS ConcurrentLoop, TLAPS

\* The same two instances, through the modules that hold their theorems.
LP == INSTANCE MainLoop_proofs WITH busy <- caller = "pending" /\ ~notified

CP == INSTANCE Concurrency_proofs WITH
        Futures <- Requests, NoFuture <- Nobody, Ids <- Requests,
        Detached <- {}, CallMayPanic <- FALSE

\* The assumptions of both modules hold of the constants they are given.
LEMMA LoopConstants == LP!MainLoopAssumption
  BY ConcurrentLoopAssumption DEF LP!Things, IsFiniteSet, LP!IsFiniteSet

\* Likewise for the middleware: no other thread drives a future, and calls do
\* not panic.
LEMMA ServiceConstants == CP!ConcurrencyAssumption
  BY ConcurrentLoopAssumption DEF IsFiniteSet, CP!IsFiniteSet

----------------------------------------------------------------------------
(***************************************************************************)
(* Every step of the composition is a step of the loop or leaves it alone. *)
(***************************************************************************)

\* A step of poll_ready at the place where dispatch_message awaits it: only
\* the second check can find the service busy.
LEMMA AwaitIsLoopStep ==
    AwaitReady => [L!Next]_(L!vars)
  <1> SUFFICES ASSUME AwaitReady PROVE [L!Next]_(L!vars)
    OBVIOUS
  <1>1. UNCHANGED loopVars /\ pc = "dispatch"
    BY DEF AwaitReady
  <1>2. CASE C!PollReady /\ (caller = "idle" \/ notified)
    BY <1>1, <1>2 DEF C!PollReady, loopVars, L!vars, L!loop, L!users, L!peer
  <1>3. CASE C!RegisterWaker
    BY <1>1, <1>3 DEF C!RegisterWaker, loopVars, L!vars, L!loop, L!users, L!peer
  <1>4. CASE C!Recheck
    BY <1>1, <1>4 DEF C!Recheck, L!Next, L!Environment, L!ServiceBusy,
                      loopVars, L!vars, L!loop, L!users, L!peer
  <1> QED BY <1>2, <1>3, <1>4 DEF AwaitReady

\* Drop glue that has not returned the token leaves the loop alone, except
\* that the wakeup makes a busy service ready.
LEMMA DropGlueIsLoopStep ==
    ASSUME NEW r \in Requests, TaskCompletes(r) \/ TaskDropped(r)
    PROVE  [L!Next]_(L!vars)
  <1>1. UNCHANGED loopVars
    BY DEF TaskCompletes, TaskDropped
  <1>2. CASE UNCHANGED <<caller, notified>>
    BY <1>1, <1>2 DEF loopVars, L!vars, L!loop, L!users, L!peer
  <1>3. CASE C!Wake(r)
    BY <1>1, <1>3 DEF C!Wake, L!Next, L!Environment, L!ServiceReady,
                      loopVars, L!vars, L!loop, L!users, L!peer
  <1> QED BY <1>2, <1>3 DEF TaskCompletes, TaskDropped, C!Finish, C!FinishCancelled,
                            C!AbortHandleOnDrop, C!TakeWaker

\* The loop of the composition is the main loop, step by step.
LEMMA LoopStep == [Next]_vars => [L!Next]_(L!vars)
  <1> SUFFICES ASSUME [Next]_vars PROVE [L!Next]_(L!vars)
    OBVIOUS
  <1>1. CASE UNCHANGED vars
    BY <1>1 DEF vars, loopVars, serviceVars, L!vars, L!loop, L!users, L!peer
  <1>2. CASE AwaitReady
    BY <1>2, AwaitIsLoopStep
  <1>3. CASE DispatchCall
    BY <1>3 DEF DispatchCall, L!Next, L!Run
  <1>4. CASE DispatchPending
    BY <1>4 DEF DispatchPending, L!Next, L!Run
  <1>5. CASE PollTasks
    <2>1. ASSUME NEW r \in Requests, TaskCompletes(r) \/ TaskDropped(r)
          PROVE  [L!Next]_(L!vars)
      BY <2>1, DropGlueIsLoopStep
    <2>2. ASSUME NEW r \in Requests, TaskResponds(r)
          PROVE  [L!Next]_(L!vars)
      BY <2>2 DEF TaskResponds, L!Next, L!Run
    <2>3. CASE NoTaskReady
      BY <2>3 DEF NoTaskReady, L!Next, L!Run
    <2> QED BY <1>5, <2>1, <2>2, <2>3 DEF PollTasks
  <1>6. CASE ReceiveCancel
    BY <1>6 DEF ReceiveCancel, L!Next, L!Run, L!PollIncoming
  <1>7. CASE ReceiveNotification
    BY <1>7 DEF ReceiveNotification, L!Next, L!Run, L!PollIncoming
  <1>8. CASE RestOfLoop
    BY <1>8 DEF RestOfLoop, L!Next, L!Run, L!PollIncoming
  <1>9. CASE Environment
    BY <1>9 DEF Environment, L!Next, L!Environment
  <1> QED BY <1>1, <1>2, <1>3, <1>4, <1>5, <1>6, <1>7, <1>8, <1>9 DEF Next, Run

\* The composition is a behaviour of the main loop with an arbitrary service:
\* the service is busy from a pending poll_ready to the next wakeup by a guard,
\* and refuses only when dispatch_message polls it.
THEOREM LoopIsImplemented == Spec => LoopSpec
  <1>1. Init => L!Init
    BY DEF Init
  <1> QED BY <1>1, LoopStep, PTL DEF Spec, LoopSpec, L!Spec

----------------------------------------------------------------------------
(***************************************************************************)
(* `L` and `LP` instantiate one module in the same way, so whatever is     *)
(* proved of LP!Spec holds of the composition.                             *)
(***************************************************************************)

\* What the sink can do, and how it does it.
LEMMA SameWrite ==
    /\ L!Write <=> LP!Write
    /\ L!Writable <=> LP!Writable
    /\ L!WriteFails <=> LP!WriteFails
    /\ L!WriteBlocks <=> LP!WriteBlocks
  <1>1. (L!Writable <=> LP!Writable) /\ (L!WriteFails <=> LP!WriteFails)
            /\ (L!WriteBlocks <=> LP!WriteBlocks)
    BY DEF L!WriteFails, LP!WriteFails, L!WriteBlocks, LP!WriteBlocks, L!Writable, LP!Writable
  <1>2. L!Write <=> LP!Write
    BY <1>1 DEF L!Write, LP!Write, L!users, LP!users
  <1> QED BY <1>1, <1>2

\* The branches of the scan and of the inner loop.
LEMMA SameRun == L!Run <=> LP!Run
  <1> USE DEF L!users, LP!users, L!peer, LP!peer, L!Return, LP!Return, L!Break, LP!Break,
              L!DropLoop, LP!DropLoop, L!Spend, LP!Spend, L!OutgoingIds, LP!OutgoingIds
  <1>1. L!PollFlush <=> LP!PollFlush
    BY SameWrite DEF L!PollFlush, LP!PollFlush, L!DriveFlush, LP!DriveFlush
  <1>2. L!PollTasks <=> LP!PollTasks
    BY DEF L!PollTasks, LP!PollTasks, L!Answer, LP!Answer
  <1>3. L!PollRx <=> LP!PollRx
    BY DEF L!Panic, LP!Panic, L!PollRx, LP!PollRx, L!DispatchRequest, LP!DispatchRequest,
          L!DispatchOutgoing, LP!DispatchOutgoing, L!DispatchAny, LP!DispatchAny,
          L!Question, LP!Question, L!Notice, LP!Notice
  <1>4. L!PollIncoming <=> LP!PollIncoming
    BY DEF L!PollIncoming, LP!PollIncoming, L!Receive, LP!Receive, L!Park, LP!Park,
          L!ReceiveBad, LP!ReceiveBad, L!ReceiveRequest, LP!ReceiveRequest,
          L!ReceiveResponse, LP!ReceiveResponse,
          L!ReceiveNotification, LP!ReceiveNotification
  <1>5. L!Dispatch <=> LP!Dispatch
    BY DEF L!Dispatch, LP!Dispatch, L!Answer, LP!Answer
  <1>6. L!DriveInnerFlush <=> LP!DriveInnerFlush
    BY SameWrite DEF L!DriveInnerFlush, LP!DriveInnerFlush, L!DriveFlush, LP!DriveFlush
  <1>7. L!Wake <=> LP!Wake
    BY SameWrite DEF L!Wake, LP!Wake
  <1>8. L!Feed <=> LP!Feed
    BY SameWrite DEF L!Feed, LP!Feed
  <1>9. L!Close <=> LP!Close
    BY SameWrite DEF L!Close, LP!Close
  <1> HIDE DEF L!users, LP!users, L!peer, LP!peer, L!Return, LP!Return, L!Break, LP!Break,
               L!DropLoop, LP!DropLoop, L!Spend, LP!Spend, L!OutgoingIds, LP!OutgoingIds
  <1> QED BY <1>1, <1>2, <1>3, <1>4, <1>5, <1>6, <1>7, <1>8, <1>9 DEF L!Run, LP!Run

\* The sockets, the handlers, the service and the peer.
LEMMA SameEnvironment == L!Environment <=> LP!Environment
  <1> USE DEF L!users, LP!users, L!peer, LP!peer, L!loop, LP!loop, L!Spend, LP!Spend
  <1>1. \A a : L!Request(a) <=> LP!Request(a)
    BY DEF L!Request, LP!Request, L!Send, LP!Send, L!Running, LP!Running,
           L!Stopped, LP!Stopped
  <1>2. \A a : L!DropRequest(a) <=> LP!DropRequest(a)
    BY DEF L!DropRequest, LP!DropRequest
  <1>3. (L!Notify <=> LP!Notify) /\ (L!Emit <=> LP!Emit)
    BY DEF L!Notify, LP!Notify, L!Emit, LP!Emit, L!Send, LP!Send,
           L!Running, LP!Running, L!Stopped, LP!Stopped
  <1>4. L!DropSockets <=> LP!DropSockets
    BY DEF L!DropSockets, LP!DropSockets
  <1>5. \A r : L!HandlerDone(r) <=> LP!HandlerDone(r)
    BY DEF L!HandlerDone, LP!HandlerDone
  <1>6. (L!ServiceBusy <=> LP!ServiceBusy) /\ (L!ServiceReady <=> LP!ServiceReady)
    BY DEF L!ServiceBusy, LP!ServiceBusy, L!ServiceReady, LP!ServiceReady
  <1>7. \A r : (L!PeerRequest(r) <=> LP!PeerRequest(r)) /\ (L!PeerNotice(r) <=> LP!PeerNotice(r))
    BY DEF L!PeerRequest, LP!PeerRequest, L!PeerNotice, LP!PeerNotice, L!PeerSends, LP!PeerSends
  <1>8. \A n : (L!PeerReply(n) <=> LP!PeerReply(n)) /\ (L!PeerStray(n) <=> LP!PeerStray(n))
    BY DEF L!PeerReply, LP!PeerReply, L!PeerStray, LP!PeerStray, L!PeerSends, LP!PeerSends
  <1>9. (L!PeerBad <=> LP!PeerBad) /\ (L!PeerReads <=> LP!PeerReads)
            /\ (L!OutputBreaks <=> LP!OutputBreaks)
    BY DEF L!PeerBad, LP!PeerBad, L!PeerReads, LP!PeerReads, L!OutputBreaks, LP!OutputBreaks,
           L!PeerSends, LP!PeerSends
  <1> HIDE DEF L!users, LP!users, L!peer, LP!peer, L!loop, LP!loop, L!Spend, LP!Spend
  <1> QED BY <1>1, <1>2, <1>3, <1>4, <1>5, <1>6, <1>7, <1>8, <1>9
          DEF L!Environment, LP!Environment, L!OutgoingIds, LP!OutgoingIds

\* So the theorems about the main loop apply to the composition.
LEMMA LoopTheoremsApply == Spec => LP!Spec
  <1>1. L!Init => LP!Init
    BY DEF L!Init, LP!Init, L!OutgoingIds, LP!OutgoingIds
  <1>2. [L!Next]_(L!vars) => [LP!Next]_(LP!vars)
    BY SameRun, SameEnvironment
       DEF L!Next, LP!Next, L!vars, LP!vars, L!loop, LP!loop, L!users, LP!users,
           L!peer, LP!peer
  <1> QED BY <1>1, <1>2, LoopIsImplemented, PTL DEF LoopSpec, L!Spec, LP!Spec

\* Requests keep their ids on the way from the peer to dispatch_message, and
\* each is in one place on its way.
LEMMA LoopHolds == Spec => [](LP!TypeOK /\ LP!IInv)
  BY LoopConstants, LoopTheoremsApply, LP!TypeCorrect, LP!Invariant, PTL

\* Steps of the composition are steps of the main loop the theorems are about.
LEMMA LoopStepProved == [Next]_vars => [LP!Next]_(LP!vars)
  BY LoopStep, SameRun, SameEnvironment
     DEF L!Next, LP!Next, L!vars, LP!vars, L!loop, LP!loop, L!users, LP!users,
         L!peer, LP!peer

----------------------------------------------------------------------------
\* Response futures are dropped one at a time, by a poll of `tasks` that
\* found them completed or aborted.
DropsInTasks ==
    \A f \in Requests : C!Dropping(f) => pc = "tasks" /\ f \in woken
OneDrop ==
    \A f, g \in Requests : C!Dropping(f) /\ C!Dropping(g) => f = g

\* dispatch_message holds a request of the peer while it awaits poll_ready.
DispatchesRequest == pc \in L!Dispatching => cur \in Requests

\* poll_ready is polled, and its answer used, inside dispatch_message only.
PollsInDispatch == caller \in {"full", "registered", "ready"} => pc = "dispatch"

\* A future or an entry of `ongoing` stems from a call, and no request is on its
\* way to a call again.
Called(r) == stage[r] # "none" \/ \E i \in Requests : ongoing[i] = r
CalledOnce == \A r \in Requests : Called(r) => ~LP!Uncalled(r)

StageType == stage \in [Requests -> C!Stages]
OngoingType == ongoing \in [Requests -> Requests \cup {Nobody}]

IInv ==
    /\ StageType /\ OngoingType /\ DispatchesRequest
    /\ DropsInTasks /\ OneDrop /\ TasksHoldTokens
    /\ PollsInDispatch /\ CalledOnce

\* The invariant holds initially.
LEMMA InitHolds == Init => IInv
  <1> SUFFICES ASSUME Init PROVE IInv
    OBVIOUS
  <1>1. stage = [f \in Requests |-> "none"]
    BY DEF Init, C!Init
  <1>2. pc = "flush" /\ tasks = {}
    BY DEF Init, L!Init
  <1>3. ongoing = [i \in Requests |-> Nobody] /\ caller = "idle"
    BY DEF Init, C!Init
  <1>4. Nobody \notin Requests
    BY ConcurrentLoopAssumption
  <1>5. \A f \in Requests : ~Called(f)
    BY <1>1, <1>3, <1>4 DEF Called
  <1> QED BY <1>1, <1>2, <1>3, <1>5
          DEF IInv, StageType, OngoingType, DispatchesRequest, DropsInTasks, OneDrop,
              TasksHoldTokens, PollsInDispatch, CalledOnce, C!Stages, C!Dropping,
              L!Dispatching

\* The message read next names a request of the peer.
LEMMA FirstRead ==
    ASSUME LP!TypeOK, inp # <<>>
    PROVE  /\ Head(inp).kind = "request" => Head(inp).id \in Requests
           /\ Head(inp).kind = "notification" => Head(inp).cancels \in Requests \cup {Nobody}
  <1> DEFINE Requested == [kind : {"request"}, id : Requests]
             Noticed == [kind : {"notification"}, cancels : Requests \cup {Nobody}]
             Others == [kind : {"response"}, id : LP!OutgoingIds, for : Requesters \cup {Nobody}]
                           \cup [kind : {"bad"}]
  <1>1. Head(inp) \in LP!InMessages
    BY DEF LP!TypeOK
  <1>2. Head(inp) \in Requested \/ Head(inp) \in Noticed \/ Head(inp) \in Others
    BY <1>1 DEF LP!InMessages
  <1>3. Head(inp) \in Requested => Head(inp).kind = "request" /\ Head(inp).id \in Requests
    OBVIOUS
  <1>4. Head(inp) \in Noticed =>
            Head(inp).kind = "notification" /\ Head(inp).cancels \in Requests \cup {Nobody}
    OBVIOUS
  <1>5. Head(inp) \in Others => Head(inp).kind \in {"response", "bad"}
    OBVIOUS
  <1> QED BY <1>2, <1>3, <1>4, <1>5

\* The steps in which the middleware takes no part.
LoopAlone ==
    /\ UNCHANGED serviceVars
    /\ \/ L!Dispatch /\ caller = "pending" /\ ~notified
       \/ L!PollTasks /\ woken = {}
       \/ L!ReceiveNotification
       \/ RestOfLoop
       \/ Environment

\* A step of the loop alone adds no future and drops none before it stops, and
\* leaves the poll of `tasks` only when no future is ready there.
LEMMA LoopAloneStep ==
    ASSUME LP!TypeOK, DispatchesRequest, LoopAlone
    PROVE  /\ L!Running' => L!Running /\ tasks' = tasks
           /\ DispatchesRequest'
           /\ pc = "tasks" => woken = {} \/ (pc' = "tasks" /\ woken \subseteq woken')
  <1> USE DEF L!Running, L!Stopped, DispatchesRequest, L!Dispatching, L!Return, L!Write,
              L!Break
  <1>1. CASE L!Dispatch /\ caller = "pending" /\ ~notified
    BY <1>1 DEF L!Dispatch
  <1>2. CASE L!PollTasks /\ woken = {}
    BY <1>2 DEF L!PollTasks
  <1>3. CASE L!ReceiveNotification
    BY <1>3 DEF L!ReceiveNotification, L!Receive
  <1>4. CASE L!PollFlush \/ L!DriveInnerFlush
    BY <1>4 DEF L!PollFlush, L!DriveInnerFlush, L!DriveFlush
  <1>5. CASE L!PollRx
    BY <1>5 DEF L!PollRx, L!DispatchRequest, L!DispatchOutgoing, L!DispatchAny, L!Panic
  <1>6. CASE L!Wake \/ L!Feed \/ L!Close \/ L!Park
    BY <1>6 DEF L!Wake, L!Feed, L!Close, L!Park
  <1>7. CASE L!ReceiveBad \/ L!ReceiveResponse
    BY <1>7 DEF L!ReceiveBad, L!ReceiveResponse, L!Receive
  <1>8. CASE L!ReceiveRequest
    <2>1. Head(inp).id \in Requests
      BY <1>8, FirstRead DEF L!ReceiveRequest, L!Receive
    <2> QED BY <1>8, <2>1 DEF L!ReceiveRequest, L!Receive
  <1>9. CASE Environment
    <2>1. CASE \E a \in Requesters : L!Request(a) \/ L!DropRequest(a)
      BY <2>1 DEF L!Request, L!DropRequest, L!Send, L!loop
    <2>2. CASE L!Notify \/ L!Emit \/ L!DropSockets
      BY <2>2 DEF L!Notify, L!Emit, L!DropSockets, L!Send, L!loop
    <2>3. CASE \E r \in Requests : L!HandlerDone(r)
      BY <2>3 DEF L!HandlerDone
    <2>4. CASE \/ \E r \in Requests : L!PeerRequest(r)
               \/ \E n \in L!OutgoingIds : L!PeerReply(n) \/ L!PeerStray(n)
               \/ \E r \in Requests \cup {Nobody} : L!PeerNotice(r)
               \/ L!PeerBad \/ L!PeerReads \/ L!OutputBreaks
      BY <2>4 DEF L!PeerRequest, L!PeerReply, L!PeerStray, L!PeerNotice, L!PeerBad,
                  L!PeerReads, L!OutputBreaks, L!PeerSends, L!loop
    <2> QED BY <1>9, <2>1, <2>2, <2>3, <2>4 DEF Environment
  <1> QED BY <1>1, <1>2, <1>3, <1>4, <1>5, <1>6, <1>7, <1>8, <1>9 DEF LoopAlone, RestOfLoop

\* The loop by itself leaves the inner loop only by stopping, and waits in it
\* only for a service that is busy.
LEMMA LoopAloneWaits ==
    ASSUME LoopAlone
    PROVE  /\ pc = "dispatch" => pc' = "dispatch" \/ caller = "pending"
           /\ pc \in L!Dispatching =>
                \/ pc' \in L!Stopped
                \/ pc' \in L!Dispatching /\ tasks' = tasks /\ cur' = cur
           /\ pc \in L!Stopped => pc' \in L!Stopped
  <1> USE DEF L!Dispatching, L!Stopped, L!Return, L!Write, L!Break
  <1>1. CASE L!Dispatch /\ caller = "pending" /\ ~notified
    BY <1>1 DEF L!Dispatch
  <1>2. CASE L!PollTasks \/ L!ReceiveNotification
    BY <1>2 DEF L!PollTasks, L!ReceiveNotification, L!Receive
  <1>3. CASE L!PollFlush \/ L!DriveInnerFlush
    BY <1>3 DEF L!PollFlush, L!DriveInnerFlush, L!DriveFlush
  <1>4. CASE L!PollRx
    BY <1>4 DEF L!PollRx
  <1>5. CASE L!Wake \/ L!Feed \/ L!Close \/ L!Park
    BY <1>5 DEF L!Wake, L!Feed, L!Close, L!Park
  <1>6. CASE L!ReceiveBad \/ L!ReceiveResponse \/ L!ReceiveRequest
    BY <1>6 DEF L!ReceiveBad, L!ReceiveResponse, L!ReceiveRequest, L!Receive
  <1>7. CASE Environment
    <2>1. UNCHANGED <<pc, tasks, cur>>
      BY <1>7 DEF Environment, L!Request, L!DropRequest, L!Send, L!Notify, L!Emit,
           L!DropSockets, L!HandlerDone, L!PeerRequest, L!PeerReply, L!PeerStray,
           L!PeerNotice, L!PeerBad, L!PeerReads, L!OutputBreaks, L!PeerSends, L!loop
    <2> QED BY <2>1
  <1> QED BY <1>1, <1>2, <1>3, <1>4, <1>5, <1>6, <1>7 DEF LoopAlone, RestOfLoop

\* Only a call adds a future or an entry, and only for the request it is about.
LEMMA NotCalledAgain ==
    ASSUME LP!TypeOK, LP!IInv, IInv, [Next]_vars, NEW r \in Requests,
           Called(r)' => Called(r)
    PROVE  Called(r)' => ~LP!Uncalled(r)'
  <1>1. LP!AllTypes /\ LP!Hands /\ LP!Journey
    BY DEF LP!IInv
  <1>2. LP!Uncalled(r)' => LP!Uncalled(r)
    BY <1>1, LoopConstants, LoopStepProved, LP!NeverBack
  <1> QED BY <1>2 DEF IInv, CalledOnce

\* So CalledOnce is kept by every step that adds none.
LEMMA CalledOnceKept ==
    ASSUME LP!TypeOK, LP!IInv, IInv, [Next]_vars,
           \A r \in Requests : Called(r)' => Called(r)
    PROVE  CalledOnce'
  <1> SUFFICES ASSUME NEW r \in Requests PROVE Called(r)' => ~LP!Uncalled(r)'
    BY DEF CalledOnce
  <1> QED BY NotCalledAgain

\* The request dispatch_message holds was not called yet: its future and its id
\* are unused.
LEMMA CurIsUnused ==
    ASSUME IInv, cur \in Requests
    PROVE  C!Unused(cur)
  <1>1. LP!Uncalled(cur)
    BY DEF LP!Uncalled
  <1> QED BY <1>1 DEF IInv, CalledOnce, Called, C!Unused

\* Once called, it is neither in the input stream nor unsent, and
\* dispatch_message no longer holds it.
LEMMA CurIsCalled ==
    ASSUME LP!IInv, NEW r \in Requests, r = cur, pc = "dispatch", cur' = Nobody,
           UNCHANGED <<asked, inp>>
    PROVE  ~LP!Uncalled(r)'
  <1>1. LP!Running /\ LP!Journey
    BY DEF LP!IInv, LP!Running, LP!Stopped
  <1>2. LP!At(r, "cur") /\ "cur" \in LP!Stations /\ "inp" \in LP!Stations
    BY DEF LP!At, LP!Stations
  <1>3. r \in asked
    BY <1>1, <1>2 DEF LP!Journey
  <1>4. LP!OnePlace(r)
    BY <1>1, <1>3 DEF LP!Journey
  <1>5. ~LP!At(r, "inp")
    BY <1>2, <1>4 DEF LP!OnePlace
  <1>6. ~LP!Unread(r)
    BY <1>5 DEF LP!At
  <1>7. ~LP!Unread(r)'
    BY <1>6 DEF LP!Unread
  <1>8. Nobody # r
    BY ConcurrentLoopAssumption
  <1> QED BY <1>3, <1>7, <1>8 DEF LP!Uncalled

\* Hence it preserves the invariant.
LEMMA LoopAlonePreserves ==
    ASSUME LP!TypeOK, LP!IInv, IInv, [Next]_vars, LoopAlone
    PROVE  IInv'
  <1>1. /\ L!Running' => L!Running /\ tasks' = tasks
        /\ DispatchesRequest'
        /\ pc = "tasks" => woken = {} \/ (pc' = "tasks" /\ woken \subseteq woken')
    BY LoopAloneStep DEF IInv
  <1>2. UNCHANGED <<stage, ongoing, caller>>
    BY DEF LoopAlone, serviceVars
  <1>3. StageType' /\ OngoingType' /\ OneDrop' /\ TasksHoldTokens'
    BY <1>1, <1>2 DEF IInv, StageType, OngoingType, OneDrop, TasksHoldTokens, C!Dropping
  <1>4. DropsInTasks'
    BY <1>1, <1>2 DEF IInv, DropsInTasks, C!Dropping
  <1>5. PollsInDispatch'
    BY <1>2, LoopAloneWaits DEF IInv, PollsInDispatch
  <1>6. CalledOnce'
    BY <1>2, CalledOnceKept DEF Called
  <1> QED BY <1>1, <1>3, <1>4, <1>5, <1>6 DEF IInv

\* poll_ready, call and the cancellation, which happen while no future drops.
LEMMA ServicePreserves ==
    ASSUME LP!TypeOK, LP!IInv, IInv, [Next]_vars, AwaitReady \/ DispatchCall \/ ReceiveCancel
    PROVE  IInv'
  <1> USE DEF L!Running, L!Stopped, L!Dispatching
  <1>1. CASE AwaitReady
    <2>1. UNCHANGED loopVars /\ UNCHANGED <<stage, ongoing>> /\ pc = "dispatch"
      BY <1>1 DEF AwaitReady, C!PollReady, C!RegisterWaker, C!Recheck
    <2>2. CalledOnce'
      BY <2>1, CalledOnceKept DEF Called
    <2> QED BY <2>1, <2>2 DEF IInv, StageType, OngoingType, DispatchesRequest, DropsInTasks,
                              OneDrop, TasksHoldTokens, PollsInDispatch, C!Dropping, loopVars
  <1>2. CASE DispatchCall
    <2>1. cur \in Requests /\ pc = "dispatch"
      BY <1>2 DEF DispatchCall, IInv, DispatchesRequest
    <2>2. stage[cur] = "none" /\ stage' = [stage EXCEPT ![cur] = "live"]
      BY <1>2, <2>1, CurIsUnused DEF DispatchCall, C!Call, C!Unused
    <2>3. cur \notin tasks /\ tasks' = tasks \cup {cur}
      BY <1>2, <2>1, <2>2 DEF DispatchCall, IInv, TasksHoldTokens
    <2>4. pc' \notin L!Dispatching /\ cur' = Nobody /\ UNCHANGED <<asked, inp>>
      BY <1>2, <2>1, <2>3 DEF DispatchCall, L!Dispatch, L!peer
    <2>5. \A f \in Requests : ~C!Dropping(f)
      BY <2>1 DEF IInv, DropsInTasks
    <2>6. \A f \in Requests : ~C!Dropping(f)'
      BY <2>2, <2>5 DEF IInv, StageType, C!Dropping
    <2>7. StageType'
      BY <2>1, <2>2 DEF IInv, StageType, C!Stages
    <2>8. TasksHoldTokens'
      BY <2>1, <2>2, <2>3 DEF IInv, StageType, TasksHoldTokens
    <2>9. ongoing' = [C!AfterPurge EXCEPT ![cur] = cur] /\ caller' = "idle"
      BY <1>2 DEF DispatchCall, C!Call
    <2>10. /\ C!AfterPurge \in [Requests -> Requests \cup {Nobody}]
           /\ \A i \in Requests : C!AfterPurge[i] \in {ongoing[i], Nobody}
      BY DEF IInv, OngoingType, C!AfterPurge, C!Purged
    <2>11. OngoingType'
      BY <2>1, <2>9, <2>10 DEF OngoingType
    <2>12. PollsInDispatch'
      BY <2>9 DEF PollsInDispatch
    <2>13. ASSUME NEW r \in Requests, r # cur, Called(r)'
           PROVE  Called(r)
      <3>1. stage'[r] = stage[r]
        BY <2>2, <2>13 DEF IInv, StageType
      <3>2. \A i \in Requests : ongoing'[i] = r => ongoing[i] = r
        <4>1. r # Nobody
          BY ConcurrentLoopAssumption
        <4>2. \A i \in Requests : ongoing'[i] \in {C!AfterPurge[i], cur}
          BY <2>9, <2>10
        <4> QED BY <2>10, <2>13, <4>1, <4>2
      <3> QED BY <2>13, <3>1, <3>2 DEF Called
    <2>14. \A r \in Requests : r = cur => ~LP!Uncalled(r)'
      BY <2>1, <2>4, CurIsCalled
    <2>15. CalledOnce'
      <3>1. ASSUME NEW r \in Requests PROVE Called(r)' => ~LP!Uncalled(r)'
        <4>1. CASE r = cur
          BY <2>14, <4>1
        <4>2. CASE r # cur
          BY <2>13, <4>2, NotCalledAgain
        <4> QED BY <4>1, <4>2
      <3> QED BY <3>1 DEF CalledOnce
    <2> QED BY <2>4, <2>6, <2>7, <2>8, <2>11, <2>12, <2>15
            DEF IInv, DispatchesRequest, DropsInTasks, OneDrop
  <1>3. CASE ReceiveCancel
    <2>1. UNCHANGED <<stage, caller>>
      BY <1>3 DEF ReceiveCancel, C!Cancel, serviceVars
    <2>2. pc = "incoming" /\ pc' = "flush" /\ UNCHANGED tasks
      BY <1>3 DEF ReceiveCancel, L!ReceiveNotification, L!Receive
    <2>3. DropsInTasks'
      BY <2>1, <2>2 DEF IInv, DropsInTasks, C!Dropping
    <2>4. \/ ongoing' = ongoing
          \/ \E i \in Requests : ongoing' = [ongoing EXCEPT ![i] = Nobody]
      BY <1>3, FirstRead DEF ReceiveCancel, L!Receive, C!Cancel, serviceVars
    <2>5. OngoingType' /\ \A i \in Requests : ongoing'[i] \in {ongoing[i], Nobody}
      BY <2>4 DEF IInv, OngoingType
    <2>6. CalledOnce'
      <3>1. Nobody \notin Requests
        BY ConcurrentLoopAssumption
      <3>2. \A r \in Requests : Called(r)' => Called(r)
        BY <2>1, <2>5, <3>1 DEF Called
      <3> QED BY <3>2, CalledOnceKept
    <2> QED BY <2>1, <2>2, <2>3, <2>5, <2>6
            DEF IInv, StageType, DispatchesRequest, OneDrop, PollsInDispatch,
                TasksHoldTokens, C!Dropping
  <1> QED BY <1>1, <1>2, <1>3

\* A future that completes begins to drop when no other one does, and goes on
\* doing so; its token stays.
LEMMA DropGluePreserves ==
    ASSUME LP!TypeOK, LP!IInv, IInv, [Next]_vars,
           NEW r \in Requests, TaskCompletes(r) \/ TaskDropped(r)
    PROVE  IInv'
  <1>1. UNCHANGED <<pc, cur, tasks, woken>>
    BY DEF TaskCompletes, TaskDropped, loopVars
  <1>2. PICK s \in {"resolved", "releasing", "waking", "returning"} :
            stage' = [stage EXCEPT ![r] = s]
    BY DEF TaskCompletes, TaskDropped, C!Finish, C!FinishCancelled,
           C!AbortHandleOnDrop, C!TakeWaker, C!Wake
  <1>3. stage[r] # "none"
    BY DEF TaskCompletes, TaskDropped, C!Finish, C!FinishCancelled,
           C!AbortHandleOnDrop, C!TakeWaker, C!Wake
  <1>4. pc = "tasks" /\ r \in woken
    BY DEF TaskCompletes, TaskDropped, C!AbortHandleOnDrop, C!TakeWaker, C!Wake,
           C!Dropping, IInv, DropsInTasks
  <1>5. \A f \in Requests : C!Dropping(f) => f = r
    BY DEF TaskCompletes, TaskDropped, C!AbortHandleOnDrop, C!TakeWaker, C!Wake,
           C!Dropping, IInv, OneDrop
  <1>6. \A f \in Requests \ {r} : stage'[f] = stage[f]
    BY <1>2 DEF IInv, StageType
  <1>7. \A f \in Requests : C!Dropping(f)' => f = r
    BY <1>5, <1>6 DEF C!Dropping
  <1>8. stage'[r] # "none"
    BY <1>2 DEF IInv, StageType
  <1>9. StageType'
    BY <1>2 DEF IInv, StageType, C!Stages
  <1>10. TasksHoldTokens'
    BY <1>1, <1>3, <1>6, <1>8 DEF IInv, TasksHoldTokens, L!Running
  <1>11. UNCHANGED <<ongoing, caller>>
    BY DEF TaskCompletes, TaskDropped, C!Finish, C!FinishCancelled,
           C!AbortHandleOnDrop, C!TakeWaker, C!Wake
  <1>12. OngoingType' /\ PollsInDispatch'
    BY <1>1, <1>11 DEF IInv, OngoingType, PollsInDispatch
  <1>13. CalledOnce'
    <2>1. \A f \in Requests : Called(f)' => Called(f)
      BY <1>3, <1>6, <1>11 DEF Called
    <2> QED BY <2>1, CalledOnceKept
  <1> QED BY <1>1, <1>4, <1>7, <1>9, <1>10, <1>12, <1>13
          DEF IInv, DispatchesRequest, DropsInTasks, OneDrop

\* The future that returned its token is the one whose response the loop takes
\* and the one that leaves `tasks`.
LEMMA ResponsePreserves ==
    ASSUME LP!TypeOK, LP!IInv, IInv, [Next]_vars, NEW r \in Requests, TaskResponds(r)
    PROVE  IInv'
  <1>1. C!Dropping(r) /\ stage' = [stage EXCEPT ![r] = "none"]
    BY DEF TaskResponds, C!ReturnToken, C!Dropping
  <1>2. pc = "tasks" /\ r \in woken
    BY <1>1 DEF IInv, DropsInTasks
  <1>3. PICK r0 \in woken : tasks' = tasks \ {r0} /\ held' = <<L!Answer(r0)>> /\ pc' = "feed"
    BY <1>2 DEF TaskResponds, L!PollTasks
  <1>4. r0 = r
    <2>1. <<L!Answer(r0)>> = <<L!Answer(r)>>
      BY <1>3 DEF TaskResponds
    <2>2. L!Answer(r0).id = L!Answer(r).id
      BY <2>1
    <2> QED BY <2>2 DEF L!Answer
  <1>5. \A f \in Requests : ~C!Dropping(f)'
    BY <1>1 DEF IInv, StageType, OneDrop, C!Dropping
  <1>6. StageType'
    BY <1>1 DEF IInv, StageType, C!Stages
  <1>7. TasksHoldTokens'
    BY <1>1, <1>2, <1>3, <1>4 DEF IInv, StageType, TasksHoldTokens, L!Running, L!Stopped
  <1>8. UNCHANGED <<ongoing, caller>>
    BY DEF TaskResponds, C!ReturnToken
  <1>9. OngoingType' /\ PollsInDispatch'
    BY <1>2, <1>8 DEF IInv, OngoingType, PollsInDispatch
  <1>10. CalledOnce'
    <2>1. \A f \in Requests : stage'[f] # "none" => stage[f] # "none"
      BY <1>1 DEF IInv, StageType
    <2>2. \A f \in Requests : Called(f)' => Called(f)
      BY <1>8, <2>1 DEF Called
    <2> QED BY <2>2, CalledOnceKept
  <1> QED BY <1>3, <1>5, <1>6, <1>7, <1>9, <1>10
          DEF IInv, DispatchesRequest, L!Dispatching, DropsInTasks, OneDrop

\* The invariant is inductive.
LEMMA StepHolds == LP!TypeOK /\ LP!IInv /\ IInv /\ [Next]_vars => IInv'
  <1> SUFFICES ASSUME LP!TypeOK, LP!IInv, IInv, [Next]_vars PROVE IInv'
    OBVIOUS
  <1>1. CASE UNCHANGED vars
    <2>1. CalledOnce'
      BY <1>1, CalledOnceKept DEF vars, serviceVars, Called
    <2> QED BY <1>1, <2>1
            DEF vars, loopVars, serviceVars, IInv, StageType, OngoingType,
                DispatchesRequest, DropsInTasks, OneDrop, TasksHoldTokens,
                PollsInDispatch, C!Dropping, L!Running
  <1>2. CASE AwaitReady \/ DispatchCall \/ ReceiveCancel
    BY <1>2, ServicePreserves
  <1>3. CASE DispatchPending \/ ReceiveNotification \/ RestOfLoop \/ Environment
    BY <1>3, LoopAlonePreserves
       DEF LoopAlone, DispatchPending, ReceiveNotification, RestOfLoop, Environment
  <1>4. CASE PollTasks
    <2>1. ASSUME NEW r \in Requests, TaskCompletes(r) \/ TaskDropped(r) PROVE IInv'
      BY <2>1, DropGluePreserves
    <2>2. ASSUME NEW r \in Requests, TaskResponds(r) PROVE IInv'
      BY <2>2, ResponsePreserves
    <2>3. CASE NoTaskReady
      BY <2>3, LoopAlonePreserves DEF LoopAlone, NoTaskReady
    <2> QED BY <1>4, <2>1, <2>2, <2>3 DEF PollTasks
  <1> QED BY <1>1, <1>2, <1>3, <1>4 DEF Next, Run

\* The inductive invariant holds of every reachable state.
THEOREM Invariant == Spec => []IInv
  BY InitHolds, StepHolds, LoopHolds, PTL DEF Spec

\* The semaphore counts the requests in `tasks`: `call` and the push of its
\* future are one step, and no token is returned before the future is taken out.
THEOREM TasksHoldTheirTokens == Spec => []TasksHoldTokens
  <1>1. IInv => TasksHoldTokens
    BY DEF IInv
  <1> QED BY <1>1, Invariant, PTL

----------------------------------------------------------------------------
(***************************************************************************)
(* Every step of the composition is a step of the middleware or leaves it  *)
(* alone.                                                                  *)
(***************************************************************************)

\* What the loop does to the middleware is an operation of the middleware.
LEMMA MiddlewareStep ==
    LP!TypeOK /\ IInv /\ [Next]_vars => [C!Next]_(C!vars)
  <1> SUFFICES ASSUME LP!TypeOK, IInv, [Next]_vars PROVE [C!Next]_(C!vars)
    OBVIOUS
  <1>1. CASE UNCHANGED serviceVars
    BY <1>1 DEF serviceVars, C!vars
  \* Where no task is polled none drops; where tasks are polled no poll_ready is.
  <1>a. pc # "tasks" => C!CallerFree
    BY DEF IInv, DropsInTasks, C!CallerFree, C!InDropGlue
  <1>b. pc # "dispatch" => ~C!InPollReady
    BY DEF IInv, PollsInDispatch, C!InPollReady
  <1>2. CASE AwaitReady
    BY <1>2, <1>a DEF AwaitReady, C!Next
  <1>3. CASE DispatchCall
    <2>1. cur \in Requests /\ pc = "dispatch" /\ caller = "ready"
      BY <1>3 DEF DispatchCall, IInv, DispatchesRequest, L!Dispatching
    <2>2. C!MayCall(cur)
      BY <1>a, <2>1, CurIsUnused DEF C!MayCall
    <2>3. C!Call(cur, cur, FALSE)
      BY <1>3 DEF DispatchCall
    <2> QED BY <2>1, <2>2, <2>3 DEF C!Next
  <1>4. CASE PollTasks
    <2>1. ASSUME NEW r \in Requests, TaskCompletes(r) \/ TaskDropped(r) \/ TaskResponds(r)
          PROVE  C!Next
      <3>1. pc = "tasks"
        BY <2>1 DEF TaskCompletes, TaskDropped, TaskResponds, C!AbortHandleOnDrop,
                    C!TakeWaker, C!Wake, C!ReturnToken, C!Dropping, IInv, DropsInTasks
      <3>2. \A f \in Requests : C!Dropping(f) => f = r
        BY <2>1 DEF TaskCompletes, TaskDropped, TaskResponds, C!AbortHandleOnDrop,
                    C!TakeWaker, C!Wake, C!ReturnToken, C!Dropping, IInv, OneDrop
      <3>3. C!DriverFree(r)
        BY <1>b, <3>1, <3>2 DEF C!DriverFree, C!InDropGlue
      <3> QED BY <2>1, <3>3 DEF TaskCompletes, TaskDropped, TaskResponds, C!Next, C!Drop
    <2> QED BY <1>1, <1>4, <2>1 DEF PollTasks, NoTaskReady
  <1>5. CASE ReceiveCancel
    <2>1. Head(inp).cancels \in Requests /\ pc = "incoming"
      BY <1>5, FirstRead DEF ReceiveCancel, L!Receive
    <2>2. C!MayNotify
      BY <1>a, <1>b, <2>1 DEF C!MayNotify
    <2> QED BY <1>1, <1>5, <2>1, <2>2 DEF ReceiveCancel, C!Next
  <1>6. CASE DispatchPending \/ ReceiveNotification \/ RestOfLoop \/ Environment \/ UNCHANGED vars
    BY <1>1, <1>6 DEF DispatchPending, ReceiveNotification, RestOfLoop, Environment, vars
  <1> QED BY <1>2, <1>3, <1>4, <1>5, <1>6 DEF Next, Run

\* The composition is a behaviour of the middleware: the loop calls it only
\* after a poll_ready that was Ready and with a request that has neither a future
\* nor an entry, polls it only while none of the futures drops, and drops them
\* one at a time, as Concurrency assumes.
THEOREM MiddlewareIsImplemented == Spec => MiddlewareSpec
  <1>1. Init => C!Init
    BY DEF Init
  <1> QED BY <1>1, MiddlewareStep, LoopHolds, Invariant, PTL
          DEF Spec, MiddlewareSpec, C!Spec

----------------------------------------------------------------------------
(***************************************************************************)
(* The wait at the limit.                                                  *)
(***************************************************************************)
\* No future is dropped while poll_ready is awaited, so none finds a waker.
WaitsAlone ==
    /\ ~notified
    /\ \A f \in Requests : stage[f] # "waking"
    /\ waker => caller \in {"registered", "pending"}
    /\ caller \in {"full", "registered"} => C!Full
    /\ caller = "pending" => pc \in L!Dispatching \cup L!Stopped

\* A step that finds poll_ready pending leaves it so: dispatch_message goes on
\* holding its request, and no future of `tasks` is taken, until the loop stops.
StaysWaiting ==
    caller = "pending" =>
        /\ caller' = "pending"
        /\ L!Running' => tasks' = tasks /\ cur' = cur /\ pc' \in L!Dispatching

\* Each step of the composition keeps the wait as it is.
LEMMA WaitStep ==
    IInv /\ WaitsAlone /\ [Next]_vars => WaitsAlone' /\ StaysWaiting
  <1> SUFFICES ASSUME IInv, WaitsAlone, [Next]_vars
               PROVE  WaitsAlone' /\ StaysWaiting
    OBVIOUS
  <1> USE DEF L!Running, L!Dispatching, L!Stopped
  <1>0. caller \in {"full", "registered", "ready"} => pc = "dispatch"
    BY DEF IInv, PollsInDispatch
  <1>1. CASE UNCHANGED vars
    BY <1>1 DEF vars, loopVars, serviceVars, WaitsAlone, StaysWaiting, C!Full, C!Tokens
  <1>2. CASE AwaitReady
    <2>1. UNCHANGED <<pc, tasks, cur, stage>> /\ pc = "dispatch"
      BY <1>2 DEF AwaitReady, C!PollReady, C!RegisterWaker, C!Recheck, loopVars
    <2>2. ~notified'
      BY <1>2 DEF AwaitReady, C!PollReady, C!RegisterWaker, C!Recheck, WaitsAlone
    <2>3. C!Full' <=> C!Full
      BY <2>1 DEF C!Full, C!Tokens
    <2>4. CASE C!PollReady /\ (caller = "idle" \/ notified)
      <3>1. ~waker /\ UNCHANGED waker
        BY <2>4 DEF C!PollReady, WaitsAlone
      <3> QED BY <2>1, <2>2, <2>3, <2>4, <3>1 DEF C!PollReady, WaitsAlone, StaysWaiting
    <2>5. CASE C!RegisterWaker
      BY <2>1, <2>2, <2>3, <2>5 DEF C!RegisterWaker, WaitsAlone, StaysWaiting
    <2>6. CASE C!Recheck
      <3>1. caller = "registered" /\ caller' = "pending"
        BY <2>6 DEF C!Recheck, WaitsAlone
      <3> QED BY <2>1, <2>2, <3>1 DEF WaitsAlone, StaysWaiting
    <2> QED BY <1>2, <2>4, <2>5, <2>6 DEF AwaitReady
  <1>3. CASE DispatchCall
    <2>1. pc = "dispatch" /\ caller = "ready" /\ caller' = "idle" /\ UNCHANGED <<waker, notified>>
      BY <1>3 DEF DispatchCall, C!Call
    <2>2. cur \in Requests /\ stage' = [stage EXCEPT ![cur] = "live"]
      BY <1>3 DEF DispatchCall, C!Call, IInv, DispatchesRequest
    <2> QED BY <2>1, <2>2 DEF WaitsAlone, StaysWaiting, IInv, StageType
  <1>4. CASE DispatchPending \/ NoTaskReady \/ ReceiveNotification \/ RestOfLoop \/ Environment
    <2>1. LoopAlone
      BY <1>4 DEF LoopAlone, DispatchPending, NoTaskReady, ReceiveNotification,
                  RestOfLoop, Environment
    <2>2. UNCHANGED <<caller, notified, waker, stage>>
      BY <2>1 DEF LoopAlone, serviceVars
    <2>3. WaitsAlone'
      BY <1>0, <2>1, <2>2, LoopAloneWaits DEF WaitsAlone, C!Full, C!Tokens
    <2>4. StaysWaiting
      BY <2>1, <2>2, LoopAloneWaits DEF WaitsAlone, StaysWaiting
    <2> QED BY <2>3, <2>4
  <1>5. CASE ReceiveCancel
    <2>1. pc = "incoming" /\ UNCHANGED <<caller, notified, waker, stage>>
      BY <1>5 DEF ReceiveCancel, L!Receive, C!Cancel, serviceVars
    <2>2. pc' = "flush"
      BY <1>5 DEF ReceiveCancel
    <2> QED BY <1>0, <2>1, <2>2 DEF WaitsAlone, StaysWaiting
  <1>6. ASSUME NEW r \in Requests, TaskCompletes(r) \/ TaskDropped(r) \/ TaskResponds(r)
        PROVE  WaitsAlone' /\ StaysWaiting
    <2>1. pc = "tasks"
      BY <1>6 DEF TaskCompletes, TaskDropped, TaskResponds, C!AbortHandleOnDrop,
                  C!TakeWaker, C!Wake, C!ReturnToken, C!Dropping, IInv, DropsInTasks
    <2>2. caller \notin {"full", "registered", "ready", "pending"}
      BY <1>0, <2>1 DEF WaitsAlone
    <2>3. waker => FALSE
      BY <2>2 DEF WaitsAlone
    <2>4. ~C!Wake(r)
      BY <1>6 DEF WaitsAlone, C!Wake
    <2>5. UNCHANGED <<caller, notified>> /\ (waker' => waker)
      BY <1>6, <2>3, <2>4 DEF TaskCompletes, TaskDropped, TaskResponds, C!Finish,
              C!FinishCancelled, C!AbortHandleOnDrop, C!TakeWaker, C!ReturnToken
    <2>6. PICK s \in {"resolved", "releasing", "returning", "none"} :
              stage' = [stage EXCEPT ![r] = s]
      BY <1>6, <2>3, <2>4 DEF TaskCompletes, TaskDropped, TaskResponds, C!Finish,
              C!FinishCancelled, C!AbortHandleOnDrop, C!TakeWaker, C!ReturnToken
    <2> QED BY <2>2, <2>5, <2>6 DEF WaitsAlone, StaysWaiting, IInv, StageType
  <1> QED BY <1>1, <1>2, <1>3, <1>4, <1>5, <1>6 DEF Next, Run, PollTasks

\* Once poll_ready is pending in dispatch_message it stays pending: the loop
\* takes no completed handler, whose guard alone could wake it, until it stops.
\* This is why the loop hangs at the limit, whatever the limit is.
THEOREM WaitAtLimitIsFinal == Spec => [][StaysWaiting]_vars
  <1>1. Init => WaitsAlone
    BY DEF Init, C!Init, WaitsAlone
  <1>2. Spec => []WaitsAlone
    BY <1>1, WaitStep, Invariant, PTL DEF Spec
  <1> QED BY <1>2, WaitStep, Invariant, PTL DEF Spec

----------------------------------------------------------------------------
(***************************************************************************)
(* What the two modules prove on their own holds of the composition.       *)
(***************************************************************************)
\* `C` and `CP` are one module, instantiated in the same way.
LEMMA SameMiddleware == C!Spec => CP!Spec
  <1>1. C!Entries = CP!Entries /\ C!Tokens = CP!Tokens
    BY DEF C!Entries, CP!Entries, C!Tokens, CP!Tokens
  <1>2. \A S : C!Cardinality(S) = CP!Cardinality(S)
    BY DEF C!Cardinality, CP!Cardinality, C!IsFiniteSet, CP!IsFiniteSet
  <1>3. (C!Full <=> CP!Full) /\ C!AfterPurge = CP!AfterPurge
    BY <1>1, <1>2 DEF C!Full, CP!Full, C!AfterPurge, CP!AfterPurge, C!Purged, CP!Purged
  <1>4. C!CallerFree <=> CP!CallerFree
    BY DEF C!CallerFree, CP!CallerFree, C!InDropGlue, CP!InDropGlue, C!Dropping, CP!Dropping
  <1>5. \A f : C!DriverFree(f) <=> CP!DriverFree(f)
    BY DEF C!DriverFree, CP!DriverFree, C!InDropGlue, CP!InDropGlue, C!Dropping, CP!Dropping,
           C!InPollReady, CP!InPollReady
  <1>6. (C!CallerFree /\ C!PollReady) \/ C!RegisterWaker \/ C!Recheck => CP!Next
    BY <1>3, <1>4 DEF C!PollReady, C!RegisterWaker, C!Recheck,
                      CP!PollReady, CP!RegisterWaker, CP!Recheck, CP!Next
  <1>7. ASSUME NEW f \in Requests, NEW i \in Requests, NEW panics \in BOOLEAN,
               C!MayCall(f), C!Call(f, i, panics)
        PROVE  CP!Next
    <2>1. CP!MayCall(f) /\ CP!Call(f, i, panics)
      BY <1>3, <1>4, <1>7 DEF C!Call, CP!Call, C!MayCall, CP!MayCall, C!Unused, CP!Unused
    <2> QED BY <2>1 DEF CP!Next
  <1>8. ASSUME NEW i \in Requests, C!MayNotify, C!Cancel(i)
        PROVE  CP!Next
    <2>1. CP!MayNotify /\ CP!Cancel(i)
      BY <1>4, <1>8 DEF C!Cancel, CP!Cancel, C!MayNotify, CP!MayNotify,
                        C!InPollReady, CP!InPollReady
    <2> QED BY <2>1 DEF CP!Next
  <1>9. ASSUME NEW f \in Requests, C!DriverFree(f),
               C!Finish(f) \/ C!FinishCancelled(f) \/ C!Abandon(f) \/ C!Drop(f)
        PROVE  CP!Next
    <2>1. /\ CP!DriverFree(f)
          /\ CP!Finish(f) \/ CP!FinishCancelled(f) \/ CP!Abandon(f) \/ CP!Drop(f)
      BY <1>5, <1>9 DEF C!Finish, CP!Finish, C!FinishCancelled, CP!FinishCancelled,
            C!Abandon, CP!Abandon, C!Drop, CP!Drop, C!AbortHandleOnDrop,
            CP!AbortHandleOnDrop, C!TakeWaker, CP!TakeWaker, C!Wake, CP!Wake,
            C!ReturnToken, CP!ReturnToken
    <2> QED BY <2>1 DEF CP!Next
  <1>10. [C!Next]_(C!vars) => [CP!Next]_(CP!vars)
    BY <1>6, <1>7, <1>8, <1>9 DEF C!Next, C!vars, CP!vars
  <1>11. C!Init => CP!Init
    BY DEF C!Init, CP!Init
  <1> QED BY <1>10, <1>11, PTL DEF C!Spec, CP!Spec

\* In the composition, too, the limit holds, the map of abort handles stays
\* bounded and a running request can be cancelled.  No wakeup is lost either:
\* what hangs the loop at the limit is that nothing drops the guards.
THEOREM MiddlewarePromisesHold ==
    Spec => [](/\ CP!LimitRespected /\ CP!OngoingBounded
               /\ CP!LiveIsCancellable /\ CP!NoLostWakeup)
  <1>1. Spec => CP!Spec
    BY MiddlewareIsImplemented, SameMiddleware, PTL DEF MiddlewareSpec
  <1>2. CP!Spec => []CP!LimitRespected
    BY ServiceConstants, CP!LimitIsRespected
  <1>3. CP!Spec => []CP!OngoingBounded
    BY ServiceConstants, CP!OngoingStaysBounded
  <1>4. CP!Spec => []CP!LiveIsCancellable
    BY ServiceConstants, CP!LiveStaysCancellable
  <1>5. CP!Spec => []CP!NoLostWakeup
    BY ServiceConstants, CP!NoWakeupIsLost
  <1> QED BY <1>1, <1>2, <1>3, <1>4, <1>5, PTL

\* With the middleware as its service the loop still answers no request twice
\* and loses none while it runs, writes what the sockets queue in order, leaves
\* nobody waiting out of reach, and flushes after a Break.
THEOREM LoopPromisesHold ==
    Spec => [](/\ LP!RequestInOnePlace /\ LP!SocketOrder
               /\ LP!WaitersReachable /\ LP!BreakFlushes)
  <1>1. LP!Spec => []LP!RequestInOnePlace
    BY LoopConstants, LP!RequestsAreInOnePlace
  <1>2. LP!Spec => []LP!SocketOrder
    BY LoopConstants, LP!SocketsKeepOrder
  <1>3. LP!Spec => []LP!WaitersReachable
    BY LoopConstants, LP!WaitersStayReachable
  <1>4. LP!Spec => []LP!BreakFlushes
    BY LoopConstants, LP!BreakIsFlushed
  <1> QED BY LoopTheoremsApply, <1>1, <1>2, <1>3, <1>4, PTL
=============================================================================
