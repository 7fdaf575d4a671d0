---------------------------- MODULE Concurrency ----------------------------
(***************************************************************************)
(* The Concurrency middleware (src/src/concurrency.rs): a semaphore that   *)
(* counts the weak references of an Arc<AtomicWaker>, and the `ongoing`    *)
(* map from request ids to abort handles, which `$/cancelRequest` uses.    *)
(*                                                                         *)
(* A member of Futures names a ResponseFuture together with its abort      *)
(* handle; a name is used again once the future is gone and no entry of    *)
(* `ongoing` holds its handle.  The caller is the task that owns the       *)
(* middleware (the main loop).  Futures in Detached are driven, and        *)
(* dropped, by another thread: the steps of their drop glue interleave     *)
(* with the steps of `poll_ready`.  The other futures live in the caller's *)
(* own task, as `MainLoop::tasks` does, so their drop glue runs as a whole *)
(* between two polls.                                                      *)
(***************************************************************************)
EXTENDS Naturals, FiniteSets

CONSTANTS
    Futures,         \* names of response futures
    NoFuture,        \* "no entry" in the ongoing map
    Ids,             \* request ids the peer uses, in any order and repeatedly
    MaxConcurrency,  \* the limit the builder was given
    Detached,        \* futures that a thread other than the caller's drives
    CallMayPanic     \* whether `service.call` may panic before it returns

ASSUME ConcurrencyAssumption ==
    /\ IsFiniteSet(Futures)
    /\ NoFuture \notin Futures
    /\ MaxConcurrency \in Nat \ {0}
    /\ Detached \subseteq Futures
    /\ CallMayPanic \in BOOLEAN

VARIABLES
    stage,     \* how far each future is from creation to the end of its drop
    id,        \* the request id a future was called with
    aborted,   \* futures whose abort flag is set
    ongoing,   \* HashMap<RequestId, AbortHandle>
    waker,     \* whether the AtomicWaker holds the caller's waker
    notified,  \* whether the caller's task is scheduled to be polled
    caller,    \* where the caller is in the poll_ready/call protocol
    shadowed   \* history: live futures whose id a later call used again

vars == <<stage, id, aborted, ongoing, waker, notified, caller, shadowed>>

\* The fields of ResponseFuture are dropped in order: `fut`, `_abort_on_drop`,
\* `_guard`; the guard's own Drop runs before its Weak is released.
Stages == {"none", "live", "resolved", "releasing", "waking", "returning"}
CallerStates == {"idle", "full", "registered", "pending", "ready"}

Dropping(f) == stage[f] \in {"resolved", "releasing", "waking", "returning"}

\* The tokens in use: one weak reference per guard that still exists.
Tokens == {f \in Futures : stage[f] # "none"}
FullLax == Cardinality(Tokens) > MaxConcurrency           \* faulty: off by one
Full == Cardinality(Tokens) >= MaxConcurrency

Entries == {i \in Ids : ongoing[i] # NoFuture}

TypeOK ==
    /\ stage \in [Futures -> Stages]
    /\ id \in [Futures -> Ids]
    /\ aborted \subseteq Futures
    /\ ongoing \in [Ids -> Futures \cup {NoFuture}]
    /\ waker \in BOOLEAN
    /\ notified \in BOOLEAN
    /\ caller \in CallerStates
    /\ shadowed \subseteq Futures

----------------------------------------------------------------------------
\* What the middleware relies on; no operation checks it.  The caller's task
\* runs one thing at a time: it polls the service only outside the drop glue of
\* the futures it owns, and the other way round; and it calls only after a
\* poll_ready that was Ready (the contract of tower_service::Service).
InDropGlue(S) == \E f \in S : Dropping(f)
InPollReady == caller \in {"full", "registered"}
CallerFree == ~InDropGlue(Futures \ Detached)
DriverFree(f) ==
    f \notin Detached => ~InPollReady /\ ~InDropGlue(Futures \ (Detached \cup {f}))

\* The name f is not in use.
Unused(f) == stage[f] = "none" /\ \A i \in Ids : ongoing[i] # f
MayCall(f) == caller = "ready" /\ CallerFree /\ Unused(f)
MayNotify == ~InPollReady /\ CallerFree

\* poll_ready, first check.  The caller polls when it has a request, again
\* when it was notified, and possibly for no reason while it waits.
PollReady ==
    /\ caller \in {"idle", "pending"}
    /\ caller' = IF Full THEN "full" ELSE "ready"
    /\ notified' = FALSE
    /\ UNCHANGED <<stage, id, aborted, ongoing, waker, shadowed>>

\* Faulty: the caller parks without a registered waker.
RegisterNothing ==
    /\ caller = "full"
    /\ caller' = "registered"
    /\ UNCHANGED <<stage, id, aborted, ongoing, waker, notified, shadowed>>

\* poll_ready, the implicit acquire.
RegisterWaker ==
    /\ caller = "full"
    /\ waker' = TRUE
    /\ caller' = "registered"
    /\ UNCHANGED <<stage, id, aborted, ongoing, notified, shadowed>>

\* poll_ready, second check.
Recheck ==
    /\ caller = "registered"
    /\ caller' = IF Full THEN "pending" ELSE "ready"
    /\ UNCHANGED <<stage, id, aborted, ongoing, waker, notified, shadowed>>

\* Faulty: `retain` with its condition inverted.
PurgedLive ==
    [i \in Ids |-> IF ongoing[i] \notin aborted THEN NoFuture ELSE ongoing[i]]

\* The map `retain` leaves: entries whose handle is not aborted.
Purged ==
    [i \in Ids |-> IF ongoing[i] \in aborted THEN NoFuture ELSE ongoing[i]]

\* Faulty: the purge is late by one.
AfterLatePurge ==
    IF Cardinality(Entries) > 2 * MaxConcurrency THEN Purged ELSE ongoing

\* The map after the regular purge that precedes an insertion.
AfterPurge ==
    IF Cardinality(Entries) >= 2 * MaxConcurrency THEN Purged ELSE ongoing

\* call: take a token, purge, insert the handle, then call the inner service.
\* When that panics, unwinding drops the guard, but no AbortOnDrop exists yet.
Call(f, i, panics) ==
    /\ panics => CallMayPanic /\ f \notin Detached
    /\ stage' = [stage EXCEPT ![f] = IF panics THEN "releasing" ELSE "live"]
    /\ id' = [id EXCEPT ![f] = i]
    /\ aborted' = aborted \ {f}
    /\ ongoing' = [AfterPurge EXCEPT ![i] = f]
    /\ shadowed' = shadowed \cup {g \in Futures : stage[g] = "live" /\ id[g] = i}
    /\ caller' = "idle"
    /\ UNCHANGED <<waker, notified>>

\* Faulty: whatever the map holds for the id is aborted.
CancelUnlisted(i) ==
    /\ aborted' = aborted \cup {ongoing[i]}
    /\ ongoing' = [ongoing EXCEPT ![i] = NoFuture]
    /\ UNCHANGED <<stage, id, waker, notified, caller, shadowed>>

\* notify with `$/cancelRequest`: forget the entry, if there is one, and abort
\* its handle.
Cancel(i) ==
    /\ ongoing[i] # NoFuture
    /\ aborted' = aborted \cup {ongoing[i]}
    /\ ongoing' = [ongoing EXCEPT ![i] = NoFuture]
    /\ UNCHANGED <<stage, id, waker, notified, caller, shadowed>>

----------------------------------------------------------------------------
\* ResponseFuture::poll, the inner future completes.
Finish(f) ==
    /\ stage[f] = "live" /\ f \notin aborted
    /\ stage' = [stage EXCEPT ![f] = "resolved"]
    /\ shadowed' = shadowed \ {f}
    /\ UNCHANGED <<id, aborted, ongoing, waker, notified, caller>>

\* Faulty: the future looks for its own entry, which the cancellation removed.
FinishIfListed(f) ==
    /\ stage[f] = "live" /\ f \in aborted /\ ongoing[id[f]] = f
    /\ stage' = [stage EXCEPT ![f] = "resolved"]
    /\ shadowed' = shadowed \ {f}
    /\ UNCHANGED <<id, aborted, ongoing, waker, notified, caller>>

\* ResponseFuture::poll after the abort flag was set: REQUEST_CANCELLED,
\* whatever the inner future does.
FinishCancelled(f) ==
    /\ stage[f] = "live" /\ f \in aborted
    /\ stage' = [stage EXCEPT ![f] = "resolved"]
    /\ shadowed' = shadowed \ {f}
    /\ UNCHANGED <<id, aborted, ongoing, waker, notified, caller>>

\* Whoever owns the future drops it before it completes.
Abandon(f) ==
    /\ stage[f] = "live"
    /\ stage' = [stage EXCEPT ![f] = "resolved"]
    /\ shadowed' = shadowed \ {f}
    /\ UNCHANGED <<id, aborted, ongoing, waker, notified, caller>>

\* AbortOnDrop::drop.
AbortHandleOnDrop(f) ==
    /\ stage[f] = "resolved"
    /\ aborted' = aborted \cup {f}
    /\ stage' = [stage EXCEPT ![f] = "releasing"]
    /\ UNCHANGED <<id, ongoing, waker, notified, caller, shadowed>>

\* SemaphoreGuard::drop up to `sema.take()`.
TakeWaker(f) ==
    /\ stage[f] = "releasing"
    /\ stage' = [stage EXCEPT ![f] = IF waker THEN "waking" ELSE "returning"]
    /\ waker' = FALSE
    /\ UNCHANGED <<id, aborted, ongoing, notified, caller, shadowed>>

\* SemaphoreGuard::drop: `drop(sema)` drops the upgraded Arc, which is no
\* token, and `wake()` schedules the caller's task.
Wake(f) ==
    /\ stage[f] = "waking"
    /\ notified' = TRUE
    /\ stage' = [stage EXCEPT ![f] = "returning"]
    /\ UNCHANGED <<id, aborted, ongoing, waker, caller, shadowed>>

\* The guard's Weak is dropped after SemaphoreGuard::drop has returned: only
\* now weak_count decreases.
ReturnToken(f) ==
    /\ stage[f] = "returning"
    /\ stage' = [stage EXCEPT ![f] = "none"]
    /\ UNCHANGED <<id, aborted, ongoing, waker, notified, caller, shadowed>>

----------------------------------------------------------------------------
Init ==
    /\ stage = [f \in Futures |-> "none"]
    /\ \E i \in Ids : id = [f \in Futures |-> i]  \* never read before a call
    /\ aborted = {}
    /\ ongoing = [i \in Ids |-> NoFuture]
    /\ waker = FALSE
    /\ notified = FALSE
    /\ caller = "idle"
    /\ shadowed = {}

Drop(f) == AbortHandleOnDrop(f) \/ TakeWaker(f) \/ Wake(f) \/ ReturnToken(f)

Next ==
    \/ CallerFree /\ PollReady
    \/ RegisterWaker \/ Recheck
    \/ \E f \in Futures, i \in Ids, panics \in BOOLEAN : MayCall(f) /\ Call(f, i, panics)
    \/ \E i \in Ids : MayNotify /\ Cancel(i)
    \/ \E f \in Futures :
          DriverFree(f) /\ (Finish(f) \/ FinishCancelled(f) \/ Abandon(f) \/ Drop(f))

Spec == Init /\ [][Next]_vars

\* A poll that has begun returns, a scheduled task is polled and drop glue runs
\* to its end.  The caller's task is not free all the time, hence SF: futures
\* that were woken are polled in the order of their wakeups (FuturesUnordered
\* keeps them in a queue), so none of them waits for ever.
ExecutorFairness ==
    /\ SF_vars(CallerFree /\ PollReady /\ caller = "pending" /\ notified)
    /\ WF_vars(RegisterWaker) /\ WF_vars(Recheck)
    /\ \A f \in Futures :
        SF_vars(DriverFree(f) /\ FinishCancelled(f)) /\ SF_vars(DriverFree(f) /\ Drop(f))

\* Handlers may run forever: nothing makes Finish happen.
FairSpec == Spec /\ ExecutorFairness

----------------------------------------------------------------------------
\* At most max_concurrency requests hold a token, and an answer "ready" of
\* poll_ready is still true when `call` relies on it (the debug_assert in
\* call): only the caller takes tokens, while any thread may return one.
LimitRespected ==
    /\ Cardinality(Tokens) <= MaxConcurrency
    /\ caller = "ready" => Cardinality(Tokens) < MaxConcurrency

\* The ongoing map is purged often enough: it never holds more than twice
\* max_concurrency entries, whichever ids the peer uses and in whatever order
\* requests end ("without bloating indefinitely", AbortOnDrop).
OngoingBounded == Cardinality(Entries) <= 2 * MaxConcurrency

\* A request that runs and was not cancelled can be cancelled: neither the
\* purge nor a cancellation of another request nor the reuse of ids loses its
\* entry, unless a later request took over its id.
LiveIsCancellable ==
    \A f \in Futures :
        stage[f] = "live" /\ f \notin aborted /\ f \notin shadowed
            => ongoing[id[f]] = f

\* No lost wakeup: while the caller is parked in poll_ready, its task is
\* scheduled, or a guard is about to wake it, or its waker is registered and
\* some guard has yet to look for a waker.
NoLostWakeup ==
    caller = "pending" =>
        \/ notified
        \/ \E f \in Futures : stage[f] = "waking"
        \/ waker /\ \E f \in Futures : stage[f] \in {"live", "resolved", "releasing"}

\* A cancelled request ends although its handler never completes, and however
\* a request ends, by its answer, by being abandoned or by a panic of the call,
\* its token comes back.
CancelTakesEffect ==
    \A f \in Futures :
        Dropping(f) \/ (stage[f] = "live" /\ f \in aborted) ~> stage[f] = "none"
============================================================================
