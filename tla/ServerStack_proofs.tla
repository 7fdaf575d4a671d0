------------------------- MODULE ServerStack_proofs -------------------------
(***************************************************************************)
(* Proofs of the safety of the server stack for any number of requests,    *)
(* notifications and events and any set of registered handlers.            *)
(***************************************************************************)
EXTENDS ServerStack, TLAPS

Flows == Results \cup {"continue", "panic"}

\* Whatever the stack answers, the loop keeps the types of its variables.
LEMMA ConcludeTypes ==
  ASSUME LoopTypes, TaskTypes, NEW queue \in Seq(Events), NEW flow \in Flows,
         Conclude(flow, queue)
  PROVE  LoopTypes' /\ TaskTypes'
<1>1. CASE flow = "continue"
  BY <1>1 DEF Conclude, LoopTypes, TaskTypes, tasks
<1>2. CASE flow # "continue"
  <2>1. loop' \in {"running", "held", "returned", "panicked"} /\ result' \in Results
    BY <1>2 DEF Conclude, LoopTypes, Flows
  <2>2. rx' \in Seq(Events)
    BY <1>2 DEF Conclude
  <2>3. TaskTypes'
    BY <1>2 DEF Conclude, TaskTypes
  <2> QED
    BY <2>1, <2>2, <2>3 DEF LoopTypes
<1> QED
  BY <1>1, <1>2

\* The router answers a notification or an event with one of these flows.
LEMMA RouterFlows ==
  /\ \A n \in Notices : RouterNotify(n) \subseteq Flows
  /\ RouterEmit("tick") \subseteq Flows
  BY DEF RouterNotify, Fallback, RouterEmit, HandlerFlows, Flows, Results

\* The typing of every variable is kept by every call of the stack, by the
\* futures it returns and by the monitor thread.
THEOREM TypeCorrect == Spec => []TypeOK
<1> USE ServerStackAssumption
<1>1. Init => TypeOK
  <2> SUFFICES ASSUME Init
               PROVE  TypeOK
    OBVIOUS
  <2>1. LoopTypes
    BY DEF Init, LoopTypes, Results
  <2>2. TaskTypes
    BY DEF Init, TaskTypes
  <2>3. ServiceTypes
    BY DEF Init, ServiceTypes, States
  <2>4. ClientTypes
    <3>1. session \in [step : Steps, by : 0 .. MaxRequests]
      BY DEF Init, Steps
    <3>2. notices \in 0 .. MaxNotices /\ ticks \in 0 .. MaxTicks
      BY DEF Init
    <3> QED
      BY <3>1, <3>2 DEF Init, ClientTypes
  <2> QED
    BY <2>1, <2>2, <2>3, <2>4 DEF TypeOK
<1>2. TypeOK /\ [Next]_vars => TypeOK'
  <2> SUFFICES ASSUME TypeOK, [Next]_vars
               PROVE  TypeOK'
    OBVIOUS
  <2>0. LoopTypes /\ TaskTypes /\ ServiceTypes /\ ClientTypes
    BY DEF TypeOK
  <2>1. ASSUME NEW r \in Requests, NEW m \in Methods, Request(r, m)
        PROVE  TypeOK'
    <3>1. ClientTypes'
      BY <2>0, <2>1 DEF Request, Asks, ClientTypes, Requests, Steps
    <3>2. LoopTypes'
      BY <2>0, <2>1 DEF Request, Monitor, LoopTypes, Events
    <3>3. TaskTypes'
      <4>1. \A outcome \in CallOutcomes(m) \cup {Refusal} : outcome \in {"handler", "result"} \cup Codes
        BY DEF CallOutcomes, DefaultAnswer, Refusal, Codes
      <4> QED
        BY <2>0, <2>1, <4>1 DEF Request, TaskTypes
    <3>4. state' \in States
      BY <2>0, <2>1 DEF Request, StateAfter, ServiceTypes, States, service
    <3>5. monitor' \in [Requests -> {"none", "waiting", "failed", "done"}]
      BY <2>0, <2>1 DEF Request, Monitor, ServiceTypes, service
    <3>6. calls' \in [Handlers -> Nat]
      <4>1. CASE UNCHANGED calls
        BY <2>0, <4>1 DEF ServiceTypes
      <4>2. CASE \E outcome \in CallOutcomes(m) :
                    Called(m, m \in Handlers /\ outcome # "INVALID_PARAMS")
        <5>1. PICK outcome \in CallOutcomes(m) :
                 Called(m, m \in Handlers /\ outcome # "INVALID_PARAMS")
          BY <4>2
        <5> QED
          BY <2>0, <5>1 DEF Called, ServiceTypes
      <4> QED
        BY <2>1, <4>1, <4>2 DEF Request, service
    <3> QED
      BY <3>1, <3>2, <3>3, <3>4, <3>5, <3>6 DEF TypeOK, ServiceTypes
  <2>2. ASSUME NEW r \in Requests, PollTask(r)
        PROVE  TypeOK'
    <3>1. TaskTypes'
      BY <2>0, <2>2 DEF PollTask, TaskTypes, Codes
    <3>2. LoopTypes' /\ ServiceTypes' /\ ClientTypes'
      BY <2>0, <2>2 DEF PollTask, LoopTypes, ServiceTypes, ClientTypes, service, ghosts
    <3> QED
      BY <3>1, <3>2 DEF TypeOK
  <2>3. ASSUME NEW r \in Requests, MonitorWakes(r) \/ MonitorFails(r)
        PROVE  TypeOK'
    <3>1. LoopTypes'
      BY <2>0, <2>3 DEF MonitorWakes, MonitorFails, LoopTypes, Events
    <3>2. ServiceTypes'
      BY <2>0, <2>3 DEF MonitorWakes, MonitorFails, ServiceTypes
    <3>3. TaskTypes' /\ ClientTypes'
      BY <2>0, <2>3 DEF MonitorWakes, MonitorFails, TaskTypes, ClientTypes, tasks, ghosts
    <3> QED
      BY <3>1, <3>2, <3>3 DEF TypeOK
  <2>4. ASSUME NEW n \in Notices, Notify(n)
        PROVE  TypeOK'
    <3>1. ClientTypes'
      BY <2>0, <2>4 DEF Notify, Tells, ClientTypes, Steps
    <3>2. PICK flow \in Flows : Conclude(flow, rx)
      <4>1. {"protocol", "ok"} \subseteq Flows
        BY DEF Flows, Results
      <4> QED
        BY <2>4, <4>1, RouterFlows DEF Notify, NotifyInitialized, NotifyExit, NotifyOther, Notices
    <3>3. LoopTypes' /\ TaskTypes'
      BY <2>0, <3>2, ConcludeTypes DEF LoopTypes
    <3>4. state' \in States
      BY <2>0, <2>4
      DEF Notify, NotifyInitialized, NotifyExit, NotifyOther, ServiceTypes, States
    <3>5. calls' \in [Handlers -> Nat]
      <4>1. CASE UNCHANGED calls
        BY <2>0, <4>1 DEF ServiceTypes
      <4>2. CASE \E how \in RouterNotify(n) : Called(n, n \in Handlers /\ how # "params")
        BY <2>0, <4>2 DEF Called, ServiceTypes
      <4> QED
        BY <2>4, <4>1, <4>2 DEF Notify, NotifyInitialized, NotifyExit, NotifyOther
    <3> QED
      BY <2>0, <2>4, <3>1, <3>3, <3>4, <3>5 DEF Notify, TypeOK, ServiceTypes
  <2>5. CASE Emit
    <3>1. Head(rx) \in Events /\ Tail(rx) \in Seq(Events)
      <4>1. rx # <<>> /\ rx \in Seq(Events)
        BY <2>0, <2>5 DEF Emit, LoopTypes
      <4> QED
        BY <4>1
    <3>2. PICK flow \in Flows : Conclude(flow, Tail(rx))
      <4>1. "client exited" \in Flows
        BY DEF Flows, Results
      <4> QED
        BY <2>5, <3>1, <4>1, RouterFlows DEF Emit, Events
    <3>3. LoopTypes' /\ TaskTypes'
      BY <2>0, <3>1, <3>2, ConcludeTypes
    <3>4. calls' \in [Handlers -> Nat]
      <4>1. UNCHANGED calls \/ Called(Head(rx), Head(rx) \in Handlers)
        BY <2>5 DEF Emit
      <4> QED
        BY <2>0, <4>1 DEF Called, ServiceTypes
    <3>5. ServiceTypes' /\ ClientTypes'
      BY <2>0, <2>5, <3>4 DEF Emit, ServiceTypes, ClientTypes, ghosts
    <3> QED
      BY <3>3, <3>5 DEF TypeOK
  <2>6. CASE Tick
    <3>1. LoopTypes'
      BY <2>0, <2>6 DEF Tick, LoopTypes, Events
    <3>2. ClientTypes'
      BY <2>0, <2>6 DEF Tick, ClientTypes, ghosts
    <3>3. TaskTypes' /\ ServiceTypes'
      BY <2>0, <2>6 DEF Tick, TaskTypes, ServiceTypes, tasks, service
    <3> QED
      BY <3>1, <3>2, <3>3 DEF TypeOK
  <2>7. CASE ClientDies \/ Hold \/ Resume
    BY <2>0, <2>7 DEF ClientDies, Hold, Resume, TypeOK, LoopTypes, TaskTypes, ServiceTypes, ClientTypes,
                      service, tasks, ghosts
  <2>8. CASE UNCHANGED vars
    BY <2>0, <2>8 DEF vars, TypeOK, LoopTypes, TaskTypes, ServiceTypes, ClientTypes,
                      service, tasks, ghosts
  <2> QED
    BY <2>1, <2>2, <2>3, <2>4, <2>5, <2>6, <2>7, <2>8 DEF Next
<1> QED
  BY <1>1, <1>2, PTL DEF Spec

----------------------------------------------------------------------------
Unheard(name) == name \in Handlers => calls[name] = 0

\* What the handlers have seen in each state of Lifecycle.
Phases ==
  /\ state = "Uninitialized" => \A m \in Methods : Unheard(m)
  /\ state # "ShuttingDown" => Unheard("shutdown")
  /\ Running /\ state \in {"Ready", "ShuttingDown"} => CalledBefore("initialized")

\* A request calls no handler but its own, and only when it is admitted.
LEMMA RequestCalls ==
  ASSUME ServiceTypes, NEW r \in Requests, NEW m \in Methods, Request(r, m)
  PROVE  /\ Selecting /\ loop' = loop
         /\ \/ /\ Admits(m) /\ state' = StateAfter(m)
               /\ \A h \in Handlers : h # m => calls'[h] = calls[h]
            \/ UNCHANGED <<state, calls>>
<1>1. CASE Admits(m)
  <2>1. PICK outcome \in CallOutcomes(m) : Called(m, m \in Handlers /\ outcome # "INVALID_PARAMS")
    BY <1>1 DEF Request
  <2>2. \A h \in Handlers : h # m => calls'[h] = calls[h]
    BY <2>1 DEF Called, ServiceTypes
  <2> QED
    BY <1>1, <2>2 DEF Request
<1>2. CASE ~Admits(m)
  BY <1>2 DEF Request, service
<1> QED
  BY <1>1, <1>2

\* A notification calls no handler but its own, and takes the state no
\* further than from Initializing to Ready.
LEMMA NotifyCalls ==
  ASSUME ServiceTypes, NEW n \in Notices, Notify(n)
  PROVE  /\ Selecting
         /\ \A h \in Handlers : h # n => calls'[h] = calls[h]
         /\ \A h \in Handlers : calls'[h] \in {calls[h], calls[h] + 1}
         /\ \/ state' = state
            \/ /\ n = "initialized" /\ state = "Initializing" /\ state' = "Ready"
               /\ Running' => CalledBefore("initialized")'
<1> DEFINE Quiet == UNCHANGED <<state, calls>>
<1>1. Selecting
  BY DEF Notify
<1>2. CASE n = "initialized" /\ state # "Initializing"
  BY <1>1, <1>2 DEF Notify, NotifyInitialized, ServiceTypes
<1>3. CASE n = "initialized" /\ state = "Initializing"
  <2>1. PICK flow \in RouterNotify("initialized") :
           /\ Conclude(flow, rx)
           /\ Called("initialized", "initialized" \in Handlers /\ flow # "params")
    BY <1>3 DEF Notify, NotifyInitialized
  <2>2. state' = "Ready"
    BY <1>3 DEF Notify, NotifyInitialized
  <2>3. /\ \A h \in Handlers : h # n => calls'[h] = calls[h]
        /\ \A h \in Handlers : calls'[h] \in {calls[h], calls[h] + 1}
    BY <1>3, <2>1 DEF Called, ServiceTypes
  <2>4. ASSUME Running'
        PROVE  CalledBefore("initialized")'
    <3>1. flow = "continue"
      BY <2>1, <2>4 DEF Conclude, Running, Selecting
    <3>2. "initialized" \in Handlers
      BY <2>1, <3>1 DEF RouterNotify
    <3>3. calls'["initialized"] = calls["initialized"] + 1
      BY <2>1, <3>1, <3>2 DEF Called, ServiceTypes
    <3> QED
      BY <3>2, <3>3 DEF CalledBefore, ServiceTypes
  <2> QED
    BY <1>1, <1>3, <2>2, <2>3, <2>4
<1>4. CASE n # "initialized"
  <2>1. PICK flow \in RouterNotify(n) : Called(n, n \in Handlers /\ flow # "params")
    BY <1>4 DEF Notify, NotifyExit, NotifyOther
  <2>2. state' = state
    BY <1>4 DEF Notify, NotifyExit, NotifyOther
  <2> QED
    BY <1>1, <2>1, <2>2 DEF Called, ServiceTypes
<1> QED
  BY <1>2, <1>3, <1>4

\* No other step calls a handler of a request or a notification.
LEMMA OtherCalls ==
  ASSUME LoopTypes, ServiceTypes, [Next]_vars,
         \A r \in Requests, m \in Methods : ~Request(r, m),
         \A n \in Notices : ~Notify(n)
  PROVE  /\ state' = state
         /\ \A h \in Handlers : h \in Methods \cup Notices => calls'[h] = calls[h]
         /\ Running' => Running
<1>1. ASSUME NEW r \in Requests, PollTask(r) \/ MonitorWakes(r) \/ MonitorFails(r)
      PROVE  UNCHANGED <<loop, state, calls>>
  BY <1>1 DEF PollTask, MonitorWakes, MonitorFails, service
<1>2. CASE Emit
  <2>1. \A h \in Handlers : h \in Methods \cup Notices => calls'[h] = calls[h]
    <3>1. CASE Head(rx) = "ClientProcessExited"
      BY <1>2, <3>1 DEF Emit
    <3>2. CASE Head(rx) # "ClientProcessExited"
      <4>1. Called(Head(rx), Head(rx) \in Handlers)
        BY <1>2, <3>2 DEF Emit
      <4>2. rx # <<>> /\ rx \in Seq(Events)
        BY <1>2 DEF Emit, LoopTypes
      <4>3. Head(rx) \in Events
        BY <4>2
      <4>4. Head(rx) = "tick"
        BY <3>2, <4>3 DEF Events
      <4> QED
        BY <4>1, <4>4 DEF Called, ServiceTypes, Methods, Notices
    <3> QED
      BY <3>1, <3>2
  <2> QED
    BY <1>2, <2>1 DEF Emit, Running
<1>3. CASE Tick \/ ClientDies \/ Hold \/ Resume \/ UNCHANGED vars
  BY <1>3 DEF Tick, ClientDies, Hold, Resume, vars, service, Running, Selecting
<1> QED
  BY <1>1, <1>2, <1>3 DEF Next, Running, Selecting

\* Lifecycle::state and the history of calls stay in the phases above.
LEMMA PhasesKept == Spec => []Phases
<1>1. Init => Phases
  BY DEF Init, Phases, Unheard, Methods
<1>2. TypeOK /\ Phases /\ [Next]_vars => Phases'
  <2> SUFFICES ASSUME TypeOK, Phases, [Next]_vars
               PROVE  Phases'
    OBVIOUS
  <2>0. LoopTypes /\ ServiceTypes
    BY DEF TypeOK
  <2>1. ASSUME NEW r \in Requests, NEW m \in Methods, Request(r, m)
        PROVE  Phases'
    <3>1. /\ Selecting /\ loop' = loop
          /\ \/ /\ Admits(m) /\ state' = StateAfter(m)
                /\ \A h \in Handlers : h # m => calls'[h] = calls[h]
             \/ UNCHANGED <<state, calls>>
      BY <2>0, <2>1, RequestCalls
    <3>2. CASE UNCHANGED <<state, calls>>
      BY <3>1, <3>2 DEF Phases, Unheard, CalledBefore, Running, Selecting
    <3>3. CASE state = "Uninitialized" /\ m = "initialize" /\ ~UNCHANGED <<state, calls>>
      BY <3>1, <3>3 DEF Phases, Unheard, StateAfter, Methods, States
    <3>4. CASE state = "Ready" /\ m # "initialize" /\ ~UNCHANGED <<state, calls>>
      <4>1. state' = IF m = "shutdown" THEN "ShuttingDown" ELSE "Ready"
        BY <3>1, <3>4 DEF StateAfter
      <4>2. CalledBefore("initialized")'
        BY <3>1, <3>4 DEF Phases, CalledBefore, Methods, Running
      <4>3. m # "shutdown" => Unheard("shutdown")'
        BY <3>1, <3>4 DEF Phases, Unheard
      <4> QED
        BY <4>1, <4>2, <4>3 DEF Phases
    <3> QED
      BY <3>1, <3>2, <3>3, <3>4 DEF Admits
  <2>2. ASSUME NEW n \in Notices, Notify(n)
        PROVE  Phases'
    <3>1. /\ Selecting
          /\ \A h \in Handlers : h # n => calls'[h] = calls[h]
          /\ \A h \in Handlers : calls'[h] \in {calls[h], calls[h] + 1}
          /\ \/ state' = state
             \/ /\ n = "initialized" /\ state = "Initializing" /\ state' = "Ready"
                /\ Running' => CalledBefore("initialized")'
      BY <2>0, <2>2, NotifyCalls
    <3>2. \A m \in Methods : Unheard(m) => Unheard(m)'
      BY <3>1 DEF Unheard, Methods, Notices
    <3>3. CalledBefore("initialized") => CalledBefore("initialized")'
      BY <2>0, <3>1 DEF CalledBefore, ServiceTypes
    <3>4. CASE state' = state
      BY <3>1, <3>2, <3>3, <3>4 DEF Phases, Methods, Running
    <3>5. CASE state = "Initializing" /\ state' = "Ready"
      BY <3>1, <3>2, <3>5 DEF Phases, Methods, Running
    <3> QED
      BY <3>1, <3>4, <3>5
  <2>3. CASE /\ \A r \in Requests, m \in Methods : ~Request(r, m)
             /\ \A n \in Notices : ~Notify(n)
    <3>1. /\ state' = state
          /\ \A h \in Handlers : h \in Methods \cup Notices => calls'[h] = calls[h]
          /\ Running' => Running
      BY <2>0, <2>3, OtherCalls
    <3> QED
      BY <3>1 DEF Phases, Unheard, CalledBefore, Methods, Notices
  <2> QED
    BY <2>1, <2>2, <2>3
<1> QED
  BY <1>1, <1>2, TypeCorrect, PTL DEF Spec

\* For any requests and handlers, the user's request handlers see a session in
\* order: Lifecycle::call and notify keep `initialize` first and alone, the
\* rest after `initialized`, and nothing after `shutdown`.
THEOREM SessionInOrder == Spec => SessionOrder
<1>1. TypeOK /\ Phases /\ [Next]_vars =>
        [\A m \in Methods : NewCall(m) =>
            /\ ~CalledBefore("shutdown")
            /\ IF m = "initialize" THEN \A k \in Methods : ~CalledBefore(k)
               ELSE CalledBefore("initialized")]_vars
  <2> SUFFICES ASSUME TypeOK, Phases, [Next]_vars, NEW m \in Methods, NewCall(m)
               PROVE  /\ ~CalledBefore("shutdown")
                      /\ IF m = "initialize" THEN \A k \in Methods : ~CalledBefore(k)
                         ELSE CalledBefore("initialized")
    OBVIOUS
  <2>0. LoopTypes /\ ServiceTypes
    BY DEF TypeOK
  <2>1. m \in Handlers /\ calls'[m] # calls[m]
    BY <2>0 DEF NewCall, ServiceTypes
  <2>2. \A n \in Notices : ~Notify(n)
    BY <2>0, <2>1, NotifyCalls DEF Methods, Notices
  <2>3. PICK r \in Requests, k \in Methods : Request(r, k)
    BY <2>0, <2>1, <2>2, OtherCalls
  <2>4. Running /\ Admits(m) /\ k = m
    BY <2>0, <2>1, <2>3, RequestCalls DEF Running
  <2>5. CASE state = "Uninitialized" /\ m = "initialize"
    BY <2>5 DEF Phases, Unheard, CalledBefore, Methods
  <2>6. CASE state = "Ready" /\ m # "initialize"
    BY <2>4, <2>6 DEF Phases, Unheard, CalledBefore
  <2> QED
    BY <2>4, <2>5, <2>6 DEF Admits
<1> QED
  BY <1>1, TypeCorrect, PhasesKept, PTL DEF Spec, SessionOrder

----------------------------------------------------------------------------
\* The state of Lifecycle a client that follows the protocol relies on.
InStep ==
  /\ session.step = "start" => state = "Uninitialized"
  /\ session.step = "initializing" => state = "Initializing"
  /\ session.step = "open" => state = "Ready"
  /\ session.step = "closing" => state = "ShuttingDown"

\* A client that follows the protocol stays in step with Lifecycle however
\* its requests end and whatever the loop does between them, and is never
\* refused: `call` and `notify` of src/src/server.rs.
THEOREM PoliteIsNeverRefused == Spec => []PoliteNeverRefused
<1> DEFINE Refused == {"SERVER_NOT_INITIALIZED", "INVALID_REQUEST"}
<1>1. Init => InStep /\ PoliteNeverRefused
  BY DEF Init, InStep, PoliteNeverRefused
<1>2. TypeOK /\ InStep /\ PoliteNeverRefused /\ [Next]_vars
        => InStep' /\ PoliteNeverRefused'
  <2> SUFFICES ASSUME TypeOK, InStep, PoliteNeverRefused, [Next]_vars
               PROVE  InStep' /\ PoliteNeverRefused'
    OBVIOUS
  <2>0. LoopTypes /\ TaskTypes /\ ServiceTypes /\ ClientTypes
    BY DEF TypeOK
  <2>1. ASSUME NEW r \in Requests, NEW m \in Methods, Request(r, m)
        PROVE  InStep' /\ PoliteNeverRefused'
    <3>1. CASE session'.step = "rude"
      BY <3>1 DEF InStep, PoliteNeverRefused
    <3>2. CASE session'.step # "rude"
      <4>1. \/ /\ session.step = "start" /\ m = "initialize"
               /\ session'.step = "initializing"
            \/ /\ session.step = "open" /\ m \in {"hover", "shutdown"}
               /\ session'.step = IF m = "shutdown" THEN "closing" ELSE "open"
        BY <2>0, <2>1, <3>2 DEF Request, Asks, ClientTypes
      <4>2. Admits(m) /\ session.step # "rude"
        BY <4>1 DEF InStep, Admits
      <4>3. state' = StateAfter(m)
        BY <2>1, <4>2 DEF Request
      <4>4. InStep'
        BY <4>1, <4>3 DEF InStep, StateAfter
      <4>5. PICK outcome \in CallOutcomes(m) : future' = [future EXCEPT ![r] = outcome]
        BY <2>1, <4>2 DEF Request
      <4>6. outcome \notin Refused
        BY DEF CallOutcomes, DefaultAnswer
      <4>7. answer' = answer /\ result' = result
        BY <2>1 DEF Request
      <4> QED
        BY <2>0, <4>2, <4>4, <4>5, <4>6, <4>7 DEF PoliteNeverRefused, TaskTypes
    <3> QED
      BY <3>1, <3>2
  <2>2. ASSUME NEW n \in Notices, Notify(n)
        PROVE  InStep' /\ PoliteNeverRefused'
    <3>1. CASE session'.step = "rude"
      BY <3>1 DEF InStep, PoliteNeverRefused
    <3>2. CASE session'.step # "rude"
      <4>1. /\ session.step # "rude"
            /\ \/ /\ session.step = "initializing" /\ n = "initialized"
                  /\ session'.step = "open"
               \/ /\ n \in {"didChange", "$/"} /\ session' = session
               \/ /\ n = "exit" /\ session'.step = "done"
        BY <2>0, <2>2, <3>2 DEF Notify, Tells, ClientTypes
      <4>2. CASE n = "initialized"
        <5>1. state = "Initializing" /\ session'.step = "open" /\ session.step # "rude"
          BY <4>1, <4>2 DEF InStep
        <5>2. /\ state' = "Ready"
              /\ \E flow \in RouterNotify("initialized") : Conclude(flow, rx)
          BY <2>2, <4>2, <5>1 DEF Notify, NotifyInitialized
        <5>3. PoliteNeverRefused'
          BY <4>1, <5>2
          DEF PoliteNeverRefused, Conclude, RouterNotify, Fallback, HandlerFlows, tasks
        <5> QED
          BY <5>1, <5>2, <5>3 DEF InStep
      <4>3. CASE n # "initialized"
        <5>1. /\ state' = state
              /\ \E flow \in RouterNotify(n) \cup {"ok"} : Conclude(flow, rx)
          BY <2>2, <4>3 DEF Notify, NotifyExit, NotifyOther
        <5>2. PoliteNeverRefused'
          BY <4>1, <5>1
          DEF PoliteNeverRefused, Conclude, RouterNotify, Fallback, HandlerFlows, tasks
        <5> QED
          BY <4>1, <4>3, <5>1, <5>2 DEF InStep
      <4> QED
        BY <4>2, <4>3
    <3> QED
      BY <3>1, <3>2
  <2>3. ASSUME NEW r \in Requests, PollTask(r)
        PROVE  InStep' /\ PoliteNeverRefused'
    <3>1. UNCHANGED <<state, session, result>>
      BY <2>3 DEF PollTask, service, ghosts
    <3>2. CASE session.step = "rude"
      BY <3>1, <3>2 DEF InStep, PoliteNeverRefused
    <3>3. CASE session.step # "rude"
      <4>1. PICK a : /\ a \in {"result", "error", "INTERNAL_ERROR", future[r]}
                     /\ answer' = [answer EXCEPT ![r] = a]
        BY <2>3 DEF PollTask
      <4>2. a \notin Refused
        BY <3>3, <4>1 DEF PoliteNeverRefused
      <4>3. future' = [future EXCEPT ![r] = "none"]
        BY <2>3 DEF PollTask
      <4> QED
        BY <2>0, <3>1, <3>3, <4>1, <4>2, <4>3 DEF InStep, PoliteNeverRefused, TaskTypes
    <3> QED
      BY <3>2, <3>3
  <2>4. CASE Emit
    <3>1. UNCHANGED <<state, session>>
      BY <2>4 DEF Emit, ghosts
    <3>2. PICK flow \in HandlerFlows \cup {"routing", "client exited"} : Conclude(flow, Tail(rx))
      BY <2>4 DEF Emit, RouterEmit
    <3>3. PoliteNeverRefused'
      BY <3>1, <3>2 DEF PoliteNeverRefused, Conclude, HandlerFlows, tasks
    <3> QED
      BY <3>1, <3>3 DEF InStep
  <2>5. ASSUME NEW r \in Requests, MonitorWakes(r) \/ MonitorFails(r)
        PROVE  InStep' /\ PoliteNeverRefused'
    BY <2>5 DEF MonitorWakes, MonitorFails, InStep, PoliteNeverRefused, tasks, ghosts
  <2>6. CASE Tick \/ ClientDies \/ Hold \/ Resume \/ UNCHANGED vars
    BY <2>6 DEF Tick, ClientDies, Hold, Resume, vars, InStep, PoliteNeverRefused, service, tasks, ghosts
  <2> QED
    BY <2>1, <2>2, <2>3, <2>4, <2>5, <2>6 DEF Next
<1> QED
  BY <1>1, <1>2, TypeCorrect, PTL DEF Spec

----------------------------------------------------------------------------
\* A loop that runs has no result yet.
ResultWhenDone == Running => result = "none"

\* When the router has a handler for `exit`, that notification ends the loop in
\* one of the ways ExitEndsLoop lists (Lifecycle::notify): never by a routing or
\* protocol error, and by the router's Error::Deserialize only for parameters
\* that the handler's type does not allow.
THEOREM ExitEnds == "exit" \in Handlers => (Spec => []ExitEndsLoop)
<1> SUFFICES ASSUME "exit" \in Handlers
             PROVE  Spec => []ExitEndsLoop
  OBVIOUS
<1>1. Init => ResultWhenDone /\ ExitEndsLoop
  BY DEF Init, ResultWhenDone, ExitEndsLoop
<1>2. ResultWhenDone /\ ExitEndsLoop /\ [Next]_vars => ResultWhenDone' /\ ExitEndsLoop'
  <2> SUFFICES ASSUME ResultWhenDone, ExitEndsLoop, [Next]_vars
               PROVE  ResultWhenDone' /\ ExitEndsLoop'
    OBVIOUS
  <2> USE DEF ResultWhenDone, ExitEndsLoop, Running, Selecting
  <2>1. ASSUME NEW r \in Requests, NEW m \in Methods, Request(r, m)
        PROVE  ResultWhenDone' /\ ExitEndsLoop'
    BY <2>1 DEF Request
  <2>2. ASSUME NEW r \in Requests, PollTask(r) \/ MonitorWakes(r) \/ MonitorFails(r)
        PROVE  ResultWhenDone' /\ ExitEndsLoop'
    BY <2>2 DEF PollTask, MonitorWakes, MonitorFails, ghosts
  <2>3. ASSUME NEW n \in Notices, Notify(n)
        PROVE  ResultWhenDone' /\ ExitEndsLoop'
    <3>1. Running /\ ~exited /\ result = "none"
      BY <2>3 DEF Notify
    <3>2. CASE n = "exit"
      <4>1. PICK flow \in RouterNotify("exit") :
               Conclude(IF flow = "continue" THEN "ok" ELSE flow, rx)
        BY <2>3, <3>2 DEF Notify, NotifyExit
      <4>2. flow \in {"continue", "ok", "handler", "panic", "params"}
        BY DEF RouterNotify, Fallback, HandlerFlows
      <4> QED
        BY <3>1, <4>1, <4>2 DEF Conclude
    <3>3. CASE n # "exit"
      <4>1. ~exited'
        BY <2>3, <3>1, <3>3 DEF Notify
      <4>2. \E flow \in RouterNotify(n) \cup {"protocol"} : Conclude(flow, rx)
        BY <2>3, <3>3 DEF Notify, NotifyInitialized, NotifyOther
      <4> QED
        BY <3>1, <4>1, <4>2 DEF Conclude, tasks
    <3> QED
      BY <3>2, <3>3
  <2>4. CASE Emit
    <3>1. Running /\ ~exited /\ exited' = exited /\ \E flow : Conclude(flow, Tail(rx))
      BY <2>4 DEF Emit, ghosts
    <3> QED
      BY <3>1 DEF Conclude, tasks
  <2>5. CASE Tick \/ ClientDies \/ Hold \/ Resume \/ UNCHANGED vars
    BY <2>5 DEF Tick, ClientDies, Hold, Resume, vars, ghosts
  <2> QED
    BY <2>1, <2>2, <2>3, <2>4, <2>5 DEF Next
<1> QED
  BY <1>1, <1>2, PTL DEF Spec
----------------------------------------------------------------------------
\* A panic that ends the loop comes from a handler of a notification or an
\* event that this very step has called: those of requests are caught by
\* CatchUnwind::call and by the poll of its future.
THEOREM PanicStaysContained == Spec => PanicContained
<1>1. TypeOK /\ [Next]_vars
        => [Running /\ loop' = "panicked" => \E n \in Notices \cup {"tick"} : NewCall(n)]_vars
  <2> DEFINE Culprit == \E n \in Notices \cup {"tick"} : NewCall(n)
  <2> SUFFICES ASSUME TypeOK, [Next]_vars, Running, loop' = "panicked"
               PROVE  Culprit
    OBVIOUS
  <2>0. ServiceTypes /\ loop \in {"running", "held"}
    BY DEF TypeOK, Running, Selecting
  <2>1. ASSUME NEW name \in Handlers \cap (Notices \cup {"tick"}), Called(name, TRUE)
        PROVE  Culprit
    <3>1. calls'[name] = calls[name] + 1 /\ calls[name] \in Nat
      BY <2>0, <2>1 DEF Called, ServiceTypes
    <3> QED
      BY <3>1 DEF NewCall
  <2>2. CASE \E n \in Notices : Notify(n)
    <3>1. PICK n \in Notices : Notify(n)
      BY <2>2
    <3>2. PICK flow \in RouterNotify(n) :
             /\ Conclude(flow, rx) \/ Conclude("ok", rx)
             /\ Conclude(flow, rx) => Called(n, n \in Handlers /\ flow # "params")
      <4>1. ~Conclude("protocol", rx)
        BY <2>0 DEF Conclude
      <4> QED
        BY <3>1, <4>1 DEF Notify, NotifyInitialized, NotifyExit, NotifyOther
    <3>3. flow = "panic" /\ Conclude(flow, rx)
      BY <2>0, <3>2 DEF Conclude
    <3>4. n \in Handlers
      BY <3>3 DEF RouterNotify
    <3>5. (n \in Handlers /\ flow # "params") = TRUE
      BY <3>3, <3>4
    <3> QED
      BY <2>1, <3>2, <3>3, <3>4, <3>5
  <2>3. CASE Emit
    <3>1. PICK flow \in RouterEmit(Head(rx)) :
             /\ Conclude(flow, Tail(rx))
             /\ Called(Head(rx), Head(rx) \in Handlers)
      <4>1. ~Conclude("client exited", Tail(rx))
        BY <2>0 DEF Conclude
      <4> QED
        BY <2>3, <4>1 DEF Emit
    <3>2. flow = "panic"
      BY <2>0, <3>1 DEF Conclude
    <3>3. Head(rx) \in Handlers
      BY <3>2 DEF RouterEmit
    <3>4. Head(rx) \in Events
      <4>1. rx # <<>> /\ rx \in Seq(Events)
        BY <2>3 DEF Emit, TypeOK, LoopTypes
      <4> QED
        BY <4>1
    <3>5. Head(rx) \in Notices \cup {"tick"}
      BY <3>3, <3>4, ServerStackAssumption DEF Events, Methods, Notices
    <3>6. (Head(rx) \in Handlers) = TRUE
      BY <3>3
    <3> QED
      BY <2>1, <3>1, <3>3, <3>5, <3>6
  <2>4. ASSUME NEW r \in Requests,
               \/ \E m \in Methods : Request(r, m)
               \/ PollTask(r) \/ MonitorWakes(r) \/ MonitorFails(r)
        PROVE  FALSE
    BY <2>0, <2>4 DEF Request, PollTask, MonitorWakes, MonitorFails
  <2>5. CASE Tick \/ ClientDies \/ Hold \/ Resume \/ UNCHANGED vars
    BY <2>0, <2>5 DEF Tick, ClientDies, Hold, Resume, vars
  <2> QED
    BY <2>2, <2>3, <2>4, <2>5 DEF Next
<1> QED
  BY <1>1, TypeCorrect, PTL DEF Spec, PanicContained
============================================================================
