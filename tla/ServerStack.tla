---------------------------- MODULE ServerStack ----------------------------
(***************************************************************************)
(* A language server as the examples layer it: Lifecycle (server.rs) over  *)
(* CatchUnwind (panic.rs) over ClientProcessMonitor (client_monitor.rs)    *)
(* over a Router (router.rs).  Concurrency, which stands between the       *)
(* second and the third, has a module of its own; tracing changes nothing. *)
(*                                                                         *)
(* The main loop appears as its callers see it: it calls the stack with    *)
(* requests, notifications and events one at a time, polls the futures it  *)
(* was given, and ends when the stack breaks or unwinds.  While it awaits  *)
(* poll_ready, or feeds a message to a pipe that is full, it does none of  *)
(* this.  Requests and notifications come in the order the client sent     *)
(* them; events come from `rx`, where the monitor thread and the user's    *)
(* tasks put them.                                                         *)
(***************************************************************************)
EXTENDS Naturals, Sequences

CONSTANTS
    MaxRequests,    \* requests the client sends
    Handlers,       \* names the router has a handler for
    Defaults,       \* those whose handler is the default of trait LanguageServer
    MaxNotices,     \* notifications the client sends
    MaxTicks        \* events the user's own tasks emit

\* Methods that stand for all of their kind: "hover" a request like any other,
\* "didChange" a notification like any other, "$/" an optional one, "tick" an
\* event of the user.
Methods == {"initialize", "shutdown", "hover"}
Notices == {"initialized", "exit", "didChange", "$/"}
Events == {"ClientProcessExited", "tick"}

\* Router::from_language_server has a handler for every method of the trait.
TraitHandlers == Methods \cup Notices

\* A request is named by its rank among those the client has sent.
Requests == 1 .. MaxRequests

ASSUME ServerStackAssumption ==
    /\ Handlers \subseteq Methods \cup Notices \cup {"tick"}
    /\ Defaults \subseteq Handlers \ {"initialize", "tick"}
    /\ MaxRequests \in Nat /\ MaxNotices \in Nat /\ MaxTicks \in Nat

VARIABLES
    loop,      \* whether run() selects, is held in an await, or how it ended
    result,    \* what run() returned
    state,     \* Lifecycle::state
    future,    \* per request, what its future in `tasks` waits for or yields
    answer,    \* per request, the response the loop got from its future
    monitor,   \* per request, the monitor thread its call has spawned
    rx,        \* events on their way to the loop
    client,    \* whether the client process lives
    calls,     \* history: how often the router has called each handler
    session,   \* history: where a client that follows the protocol is
    exited,    \* history: whether `exit` was received
    notices,   \* notifications the client has sent
    ticks      \* events the user's tasks have emitted

service == <<state, monitor, calls>>
tasks == <<future, answer>>
ghosts == <<session, exited, notices>>
vars == <<loop, result, service, tasks, rx, client, ghosts, ticks>>

States == {"Uninitialized", "Initializing", "Ready", "ShuttingDown"}
Codes == {"SERVER_NOT_INITIALIZED", "INVALID_REQUEST", "METHOD_NOT_FOUND",
          "INVALID_PARAMS", "INTERNAL_ERROR"}
Results == {"none", "ok", "protocol", "routing", "params", "handler", "client exited"}
Steps == {"start", "initializing", "open", "closing", "done", "rude"}

LoopTypes ==
    /\ loop \in {"running", "held", "returned", "panicked"}
    /\ result \in Results
    /\ rx \in Seq(Events)
TaskTypes ==
    /\ future \in [Requests -> {"none", "handler", "result"} \cup Codes]
    /\ answer \in [Requests -> {"none", "result", "error"} \cup Codes]
ServiceTypes ==
    /\ state \in States
    /\ monitor \in [Requests -> {"none", "waiting", "failed", "done"}]
    /\ calls \in [Handlers -> Nat]
ClientTypes ==
    /\ client \in {"alive", "dead"}
    /\ session \in [step : Steps, by : 0 .. MaxRequests]
    /\ exited \in BOOLEAN
    /\ notices \in 0 .. MaxNotices /\ ticks \in 0 .. MaxTicks

TypeOK == LoopTypes /\ TaskTypes /\ ServiceTypes /\ ClientTypes

\* The select of run() polls its branches; run() has not ended.
Selecting == loop = "running"
Running == Selecting \/ loop = "held"
Sent(r) == future[r] # "none" \/ answer[r] # "none"

----------------------------------------------------------------------------
(***************************************************************************)
(* What a client that follows the protocol does: it sends one `initialize` *)
(* first, `initialized` once that has succeeded, then anything, and at the *)
(* end one `shutdown` and, when it is answered, `exit`.                    *)
(***************************************************************************)
Asks(r, m) ==
    session' =
        CASE session.step = "start" /\ m = "initialize" -> [step |-> "initializing", by |-> r]
          [] session.step = "open" /\ m = "hover" -> session
          [] session.step = "open" /\ m = "shutdown" -> [step |-> "closing", by |-> r]
          [] OTHER -> [session EXCEPT !.step = "rude"]

Tells(n) ==
    LET answered == answer[session.by] # "none"
        done == answer[session.by] = "result"
    IN  session' =
          CASE session.step = "initializing" /\ n = "initialized" /\ done ->
                 [session EXCEPT !.step = "open"]
            [] session.step \in {"open", "closing"} /\ n \in {"didChange", "$/"} -> session
            [] session.step = "closing" /\ n = "exit" /\ answered ->
                 [session EXCEPT !.step = "done"]
            [] OTHER -> [session EXCEPT !.step = "rude"]

----------------------------------------------------------------------------
ConcludeWithPanic(flow, queue) ==  \* faulty: a panic is reported like an error
    IF flow = "continue"
    THEN UNCHANGED <<loop, result, tasks>> /\ rx' = queue
    ELSE /\ loop' = "returned" /\ result' = flow
         /\ future' = [r \in Requests |-> "none"]
         /\ rx' = <<>>
         /\ UNCHANGED answer

\* How a call of the stack that returns a ControlFlow, or unwinds, goes on in
\* the loop, which then has `queue` to take events from.  When the loop ends,
\* its futures and its queue are dropped.
Conclude(flow, queue) ==
    IF flow = "continue"
    THEN UNCHANGED <<loop, result, tasks>> /\ rx' = queue
    ELSE /\ loop' = IF flow = "panic" THEN "panicked" ELSE "returned"
         /\ result' = IF flow = "panic" THEN result ELSE flow
         /\ future' = [r \in Requests |-> "none"]
         /\ rx' = <<>>
         /\ UNCHANGED answer

\* A handler of a notification or an event may do any of this.
HandlerFlows == {"continue", "ok", "handler", "panic"}

\* The default handlers of trait LanguageServer.
Fallback(n) == IF n \in {"$/", "exit", "initialized"} THEN "continue" ELSE "routing"
DefaultAnswer(m) == IF m = "shutdown" THEN "result" ELSE "METHOD_NOT_FOUND"

\* Router::notify with the default for what has no handler.
RouterNotify(n) ==
    IF n \in Handlers
    THEN {"params"} \cup IF n \in Defaults THEN {Fallback(n)} ELSE HandlerFlows
    ELSE IF n = "$/" THEN {"continue"} ELSE {"routing"}

\* Router::emit.
RouterEmit(event) == IF event \in Handlers THEN HandlerFlows ELSE {"routing"}

\* Router::call under CatchUnwind::call: what the future it returns waits for
\* or yields.  A handler may panic before it returns its future; no handler
\* is called when its parameters cannot be decoded.
CallOutcomes(m) ==
    IF m \in Handlers
    THEN {"INVALID_PARAMS"} \cup
         IF m \in Defaults THEN {DefaultAnswer(m)} ELSE {"handler", "INTERNAL_ERROR"}
    ELSE {"METHOD_NOT_FOUND"}

\* The router remembers nothing, so calls only says whom it has called.
Called(name, happened) ==
    calls' = IF happened THEN [calls EXCEPT ![name] = @ + 1] ELSE calls

----------------------------------------------------------------------------
\* Lifecycle::call, which requests reach the inner service.
AdmitsAfterShutdown(m) ==  \* faulty: ShuttingDown is treated like Ready
    \/ state = "Uninitialized" /\ m = "initialize"
    \/ state \in {"Ready", "ShuttingDown"} /\ m # "initialize"

Admits(m) ==
    \/ state = "Uninitialized" /\ m = "initialize"
    \/ state = "Ready" /\ m # "initialize"

\* Lifecycle::call, the error of a request that does not.
Refusal ==
    IF state \in {"Uninitialized", "Initializing"}
    THEN "SERVER_NOT_INITIALIZED" ELSE "INVALID_REQUEST"

\* Lifecycle::call: the state changes before the inner service is called,
\* whatever comes of that.
StateForgotten(m) == IF m = "shutdown" THEN "ShuttingDown" ELSE state  \* faulty

StateAfter(m) ==
    CASE m = "initialize" -> "Initializing"
      [] m = "shutdown" -> "ShuttingDown"
      [] OTHER -> state

\* ClientProcessMonitor::call.  Without a usable processId, or when the
\* process cannot be watched, nothing happens; when it is gone already, the
\* event is emitted at once.
Monitor(r, m) ==
    \/ UNCHANGED <<monitor, rx>>
    \/ /\ m = "initialize" /\ client = "alive"
       /\ monitor' = [monitor EXCEPT ![r] = "waiting"]
       /\ UNCHANGED rx
    \/ /\ m = "initialize" /\ client = "dead"
       /\ rx' = Append(rx, "ClientProcessExited")
       /\ UNCHANGED monitor

\* A request passes, or is refused with a future that is ready.
Request(r, m) ==
    /\ Selecting /\ ~Sent(r)
    /\ \A earlier \in 1 .. r - 1 : Sent(earlier)
    /\ Asks(r, m)
    /\ \/ /\ Admits(m)
          /\ state' = StateAfter(m)
          /\ Monitor(r, m)
          /\ \E outcome \in CallOutcomes(m) :
                /\ future' = [future EXCEPT ![r] = outcome]
                /\ Called(m, m \in Handlers /\ outcome # "INVALID_PARAMS")
       \/ /\ ~Admits(m)
          /\ future' = [future EXCEPT ![r] = Refusal]
          /\ UNCHANGED <<service, rx>>
    /\ UNCHANGED <<loop, result, answer, client, exited, notices, ticks>>

PollTaskUncaught(r) ==  \* faulty: a panic while the future is polled is not caught
    /\ Selecting /\ future[r] # "none"
    /\ \E a \in IF future[r] = "handler" THEN {"result", "error"} ELSE {future[r]} :
          answer' = [answer EXCEPT ![r] = a]
    /\ future' = [future EXCEPT ![r] = "none"]
    /\ loop' \in IF future[r] = "handler" THEN {"running", "panicked"} ELSE {"running"}
    /\ UNCHANGED <<result, service, rx, client, ghosts, ticks>>

\* The loop polls a future to its end: CatchUnwind::poll turns the panic of a
\* handler into an error as well.
PollTask(r) ==
    /\ Selecting /\ future[r] # "none"
    /\ \E a \in IF future[r] = "handler"
                THEN {"result", "error", "INTERNAL_ERROR"} ELSE {future[r]} :
          answer' = [answer EXCEPT ![r] = a]
    /\ future' = [future EXCEPT ![r] = "none"]
    /\ UNCHANGED <<loop, result, service, rx, client, ghosts, ticks>>

----------------------------------------------------------------------------
\* Lifecycle::notify of `initialized`: a protocol error in any other state.
NotifyInitialized ==
    IF state # "Initializing"
    THEN Conclude("protocol", rx) /\ UNCHANGED <<state, calls>>
    ELSE /\ state' = "Ready"
         /\ \E flow \in RouterNotify("initialized") :
               /\ Conclude(flow, rx)
               /\ Called("initialized", "initialized" \in Handlers /\ flow # "params")

\* Lifecycle::notify of `exit`, in any state: if the inner service does not
\* break first, the loop ends well.
NotifyExitPassed ==  \* faulty: `exit` is passed on like the rest
    \E flow \in RouterNotify("exit") :
        /\ Conclude(flow, rx)
        /\ Called("exit", "exit" \in Handlers /\ flow # "params")
        /\ UNCHANGED state

NotifyExit ==
    \E flow \in RouterNotify("exit") :
        /\ Conclude(IF flow = "continue" THEN "ok" ELSE flow, rx)
        /\ Called("exit", "exit" \in Handlers /\ flow # "params")
        /\ UNCHANGED state

\* Lifecycle::notify of anything else, in any state.
NotifyOther(n) ==
    \E flow \in RouterNotify(n) :
        /\ Conclude(flow, rx)
        /\ Called(n, n \in Handlers /\ flow # "params")
        /\ UNCHANGED state

Notify(n) ==
    /\ Selecting /\ notices < MaxNotices
    /\ notices' = notices + 1
    /\ Tells(n)
    /\ exited' = (exited \/ n = "exit")
    /\ \/ n = "initialized" /\ NotifyInitialized
       \/ n = "exit" /\ NotifyExit
       \/ n \in {"didChange", "$/"} /\ NotifyOther(n)
    /\ UNCHANGED <<monitor, client, ticks>>

\* emit: the monitor takes its own event, the router gets the others.
Emit ==
    /\ Selecting /\ rx # <<>>
    /\ LET event == Head(rx)
       IN  \/ /\ event = "ClientProcessExited"
              /\ Conclude("client exited", Tail(rx))
              /\ UNCHANGED calls
           \/ /\ event # "ClientProcessExited"
              /\ \E flow \in RouterEmit(event) : Conclude(flow, Tail(rx))
              /\ Called(event, event \in Handlers)
    /\ UNCHANGED <<state, monitor, client, ghosts, ticks>>

\* run() awaits poll_ready in dispatch_message, or room for a message in feed,
\* and polls neither `tasks` nor rx meanwhile.
Hold ==
    /\ Selecting
    /\ loop' = "held"
    /\ UNCHANGED <<result, service, tasks, rx, client, ghosts, ticks>>

\* The service is ready, or the client has read.
Resume ==
    /\ loop = "held"
    /\ loop' = "running"
    /\ UNCHANGED <<result, service, tasks, rx, client, ghosts, ticks>>

----------------------------------------------------------------------------
\* The monitor thread: `emit` fails once the loop has ended, which it ignores.
MonitorForgets(r) ==  \* faulty: the thread ends without the event
    /\ monitor[r] = "waiting" /\ client = "dead"
    /\ monitor' = [monitor EXCEPT ![r] = "done"]
    /\ UNCHANGED <<loop, result, state, calls, tasks, rx, client, ghosts, ticks>>

MonitorWakes(r) ==
    /\ monitor[r] = "waiting" /\ client = "dead"
    /\ monitor' = [monitor EXCEPT ![r] = "done"]
    /\ rx' = IF Running THEN Append(rx, "ClientProcessExited") ELSE rx
    /\ UNCHANGED <<loop, result, state, calls, tasks, client, ghosts, ticks>>

\* Waiting for the process fails; the thread logs that and ends.
MonitorFails(r) ==
    /\ monitor[r] = "waiting"
    /\ monitor' = [monitor EXCEPT ![r] = "failed"]
    /\ UNCHANGED <<loop, result, state, calls, tasks, rx, client, ghosts, ticks>>

ClientDies ==
    /\ client = "alive"
    /\ client' = "dead"
    /\ UNCHANGED <<loop, result, service, tasks, rx, ghosts, ticks>>

\* A task of the user emits an event through the client socket.
Tick ==
    /\ Running /\ ticks < MaxTicks
    /\ ticks' = ticks + 1
    /\ rx' = Append(rx, "tick")
    /\ UNCHANGED <<loop, result, service, tasks, client, ghosts>>

Init ==
    /\ loop = "running" /\ result = "none"
    /\ state = "Uninitialized"
    /\ future = [r \in Requests |-> "none"]
    /\ answer = [r \in Requests |-> "none"]
    /\ monitor = [r \in Requests |-> "none"]
    /\ rx = <<>>
    /\ client = "alive"
    /\ calls = [name \in Handlers |-> 0]
    /\ session = [step |-> "start", by |-> 0]
    /\ exited = FALSE
    /\ notices = 0 /\ ticks = 0

Next ==
    \/ \E r \in Requests, m \in Methods : Request(r, m)
    \/ \E r \in Requests : PollTask(r) \/ MonitorWakes(r) \/ MonitorFails(r)
    \/ \E n \in Notices : Notify(n)
    \/ Emit \/ Hold \/ Resume \/ Tick \/ ClientDies

Spec == Init /\ [][Next]_vars

\* Each time the loop selects it takes what is in `rx` before it reads input,
\* and the futures that come before `rx` are finitely many: so an event is taken
\* unless the loop is held for ever, which nothing here excludes.  The operating
\* system wakes the thread when the process has ended.
FairSpec == Spec /\ SF_vars(Emit) /\ \A r \in Requests : WF_vars(MonitorWakes(r))

----------------------------------------------------------------------------
NewCall(name) == name \in Handlers /\ calls'[name] > calls[name]
CalledBefore(name) == name \in Handlers /\ calls[name] > 0

\* The user's request handlers see a session in order, whatever the client
\* sends and however handlers fail: `initialize` once and first, the others
\* only after `initialized`, and none after `shutdown`.
SessionOrder ==
    [][\A m \in Methods : NewCall(m) =>
          /\ ~CalledBefore("shutdown")
          /\ IF m = "initialize" THEN \A k \in Methods : ~CalledBefore(k)
             ELSE CalledBefore("initialized")]_vars

\* A client that follows the protocol is never refused and never breaks the
\* loop by doing so: what it knows from the answers it has got is enough to
\* stay in step with Lifecycle::state.
PoliteNeverRefused ==
    session.step # "rude" =>
        /\ \A r \in Requests :
              {future[r], answer[r]} \cap {"SERVER_NOT_INITIALIZED", "INVALID_REQUEST"} = {}
        /\ result # "protocol"

\* Where `exit` has a handler the notification ends the loop: well, by an error
\* or a panic of that handler, or by the router's error for parameters the
\* handler's type cannot be decoded from.  It is never left without an effect,
\* nor is it ever an unhandled method or a protocol error.
ExitEndsLoop ==
    exited => \/ loop = "panicked"
              \/ loop = "returned" /\ result \in {"ok", "handler", "params"}

\* What the documentation says: `exit` ends the loop "with
\* `ControlFlow::Break(Ok(()))`".  A handler may have an error of its own; the
\* framework should add none.
ExitEndsWell == exited => ~Running /\ result \notin {"routing", "protocol", "params"}

\* Only a handler of a notification or an event that panics takes the loop
\* with it, never that of a request.
PanicContained ==
    [][Running /\ loop' = "panicked" => \E n \in Notices \cup {"tick"} : NewCall(n)]_vars

\* The loop ends when the client process it watches dies, whatever state the
\* session is in and whenever the event comes, between two awaits or during one:
\* unless the operating system refuses to tell, or the loop is held for ever,
\* by its service or by a pipe that nobody reads but that stays open.
DeathStops ==
    []<>(loop # "held") =>
        \A r \in Requests :
            (client = "dead" /\ monitor[r] = "waiting") ~> (~Running \/ monitor[r] = "failed")
============================================================================
