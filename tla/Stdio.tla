-------------------------------- MODULE Stdio --------------------------------
(***************************************************************************)
(* Asynchronous standard I/O (src/src/stdio.rs).  PipeStdin and PipeStdout *)
(* hold the lock of std's stdin or stdout and set O_NONBLOCK, a flag of    *)
(* the open file description, which both ends may share (a terminal, a     *)
(* socket).  tokio's AsyncFd keeps the readiness of an end: the kernel     *)
(* reports that an end became usable once, at the moment it does (edge     *)
(* triggered), and the driver of the runtime may run on another thread     *)
(* than the task that polls.                                               *)
(***************************************************************************)
EXTENDS Naturals, Sequences, SequencesExt

CONSTANTS
    Handles,   \* calls of lock(), and what they return
    EndOf,     \* the end each of them locks
    ThreadOf,  \* the thread it lives on: std's lock guards stay on theirs
    Converted, \* those whose owner calls try_into_tokio
    Inherited, \* O_NONBLOCK of each description when the process starts
    Capacity   \* units (bytes or free space) each end holds

Ends == {"stdin", "stdout"}

ASSUME StdioAssumption ==
    /\ EndOf \in [Handles -> Ends]
    /\ DOMAIN ThreadOf = Handles
    /\ Converted \subseteq Handles
    /\ Inherited \in [Ends -> BOOLEAN]
    /\ Capacity \in [Ends -> Nat \ {0}]

VARIABLES
    shared,    \* whether both ends are one open file description
    nonblock,  \* O_NONBLOCK of each description
    phase,     \* the life of a handle
    prev,      \* NonBlocking::prev_flags
    order,     \* history: handles with a flag to restore, while they nest
    tangled,   \* history: they did not nest
    task,      \* the poll of an end's AsyncFd
    ready,     \* tokio: the readiness it remembers
    stale,     \* tokio: an event came after the guard in use was taken
    edge,      \* the kernel: an event nobody has fetched
    avail,     \* units to read, or room to write
    hung       \* whether the other end of the pipe is closed

flags == <<shared, nonblock, phase, prev, order, tangled>>
io == <<task, ready, stale, edge>>
vars == <<flags, io, avail, hung>>

Phases == {"new", "prepared", "open", "async", "restored", "gone"}
Tasks == {"idle", "trying", "clearing", "parked", "blocked", "done"}

TypeOK ==
    /\ shared \in BOOLEAN
    /\ {nonblock, tangled} \subseteq [Ends -> BOOLEAN]
    /\ phase \in [Handles -> Phases]
    /\ prev \in [Handles -> BOOLEAN]
    /\ order \in [Ends -> Seq(Handles)]
    /\ task \in [Ends -> Tasks]
    /\ {ready, stale, edge, hung} \subseteq [Ends -> BOOLEAN]
    /\ avail \in [Ends -> Nat] /\ \A e \in Ends : avail[e] \in 0 .. Capacity[e]

\* The description behind an end.
Description(e) == IF shared THEN "stdin" ELSE e
DescriptionOf(h) == Description(EndOf[h])

Registered(e) == \E h \in Handles : EndOf[h] = e /\ phase[h] = "async"

\* A handle is between two calls of its thread.
AtRest(h) ==
    /\ phase[h] \notin {"prepared", "restored"}
    /\ phase[h] = "async" => task[EndOf[h]] \notin {"trying", "clearing", "blocked"}

\* A thread does one thing at a time.
ThreadFree(h) == \A g \in Handles \ {h} : ThreadOf[g] = ThreadOf[h] => AtRest(g)

HoldsForNew(h) == phase[h] = "prepared"  \* faulty: the guard is not kept

Holds(h) == phase[h] \in {"prepared", "open", "async", "restored"}
Others(h) == {g \in Handles \ {h} : EndOf[g] = EndOf[h] /\ Holds(g)}

\* io::stdin().lock() waits for any other guard, io::stdout().lock() for
\* those of other threads: the lock of stdout is reentrant.
StdinFree(h) == EndOf[h] = "stdin" /\ Others(h) = {}
StdoutFree(h) ==
    EndOf[h] = "stdout" /\ \A g \in Others(h) : ThreadOf[g] = ThreadOf[h]

----------------------------------------------------------------------------
(***************************************************************************)
(* NonBlocking::new and drop.                                              *)
(***************************************************************************)
\* A handle leaves the stack of those with a flag to restore.
Release(h) ==
    LET d == DescriptionOf(h)
    IN  /\ tangled' = [tangled EXCEPT ![d] = @ \/ h # Last(order[d])]
        /\ order' = [order EXCEPT ![d] = IF tangled'[d] THEN <<>> ELSE Front(@)]

\* lock() up to fcntl_getfl.  A descriptor that is not pipe-like, or an error
\* of fstat or getfl, drops the guard with the flags as they were.
Lock(h) ==
    /\ phase[h] = "new" /\ ThreadFree(h)
    /\ StdinFree(h) \/ StdoutFree(h)
    /\ LET d == DescriptionOf(h)
       IN  \/ /\ phase' = [phase EXCEPT ![h] = "prepared"]
              /\ prev' = [prev EXCEPT ![h] = nonblock[d]]
              /\ tangled' = [tangled EXCEPT ![d] =
                     @ \/ \E g \in Range(order[d]) : phase[g] = "prepared"]
              /\ order' = [order EXCEPT ![d] = IF tangled'[d] THEN <<>> ELSE Append(@, h)]
           \/ /\ phase' = [phase EXCEPT ![h] = "gone"]
              /\ UNCHANGED <<prev, order, tangled>>
    /\ UNCHANGED <<shared, nonblock, io, avail, hung>>

SetNothing(h) ==  \* faulty: the flag is not set
    /\ phase[h] = "prepared"
    /\ phase' = [phase EXCEPT ![h] = "open"]
    /\ UNCHANGED <<shared, nonblock, prev, order, tangled, io, avail, hung>>

\* fcntl_setfl; when it fails no NonBlocking exists and nothing is restored.
SetNonBlock(h) ==
    /\ phase[h] = "prepared"
    /\ LET d == DescriptionOf(h)
       IN  \/ /\ nonblock' = [nonblock EXCEPT ![d] = TRUE]
              /\ phase' = [phase EXCEPT ![h] = "open"]
              /\ UNCHANGED <<order, tangled>>
           \/ /\ phase' = [phase EXCEPT ![h] = "gone"]
              /\ Release(h)
              /\ UNCHANGED nonblock
    /\ UNCHANGED <<shared, prev, io, avail, hung>>

RestoreClears(h) ==  \* faulty: the flag is cleared, whatever it was before
    /\ nonblock' = [nonblock EXCEPT ![DescriptionOf(h)] = FALSE]
    /\ phase' = [phase EXCEPT ![h] = "restored"]
    /\ prev' = [prev EXCEPT ![h] = FALSE]
    /\ Release(h)
    /\ UNCHANGED shared

\* NonBlocking::drop.  Its body runs before the guard in `inner` is dropped;
\* that fcntl_setfl may fail, which the code ignores, is left out.
Restore(h) ==
    /\ nonblock' = [nonblock EXCEPT ![DescriptionOf(h)] = prev[h]]
    /\ phase' = [phase EXCEPT ![h] = "restored"]
    /\ prev' = [prev EXCEPT ![h] = FALSE]
    /\ Release(h)
    /\ UNCHANGED shared

\* An end without an AsyncFd.
Deregister(e) ==
    /\ task' = [task EXCEPT ![e] = "idle"]
    /\ ready' = [ready EXCEPT ![e] = FALSE]
    /\ stale' = [stale EXCEPT ![e] = FALSE]
    /\ edge' = [edge EXCEPT ![e] = FALSE]

\* The std guard is dropped.
Unlock(h) ==
    /\ phase[h] = "restored"
    /\ phase' = [phase EXCEPT ![h] = "gone"]
    /\ UNCHANGED <<shared, nonblock, prev, order, tangled, io, avail, hung>>

\* The owner drops a PipeStdin, or the AsyncFd around it.
Drop(h) ==
    /\ phase[h] \in {"open", "async"} /\ AtRest(h) /\ ThreadFree(h)
    /\ Restore(h)
    /\ IF phase[h] = "async" THEN Deregister(EndOf[h]) ELSE UNCHANGED io
    /\ UNCHANGED <<avail, hung>>

\* try_into_tokio: a descriptor is registered once; an error drops self.  An
\* end that is usable already is reported like one that becomes so.
Register(h) ==
    LET e == EndOf[h]
    IN  /\ phase[h] = "open" /\ h \in Converted /\ ThreadFree(h)
        /\ \/ /\ ~Registered(e)
              /\ phase' = [phase EXCEPT ![h] = "async"]
              /\ edge' = [edge EXCEPT ![e] = avail[e] > 0 \/ hung[e]]
              /\ UNCHANGED <<shared, nonblock, prev, order, tangled>>
              /\ UNCHANGED <<task, ready, stale>>
           \/ Restore(h) /\ UNCHANGED io
        /\ UNCHANGED <<avail, hung>>

----------------------------------------------------------------------------
(***************************************************************************)
(* poll_read and poll_write: loop { poll_ready; try_io; continue }.        *)
(***************************************************************************)
SetTask(h, from, to) ==
    /\ phase[h] = "async" /\ task[EndOf[h]] = from
    /\ task' = [task EXCEPT ![EndOf[h]] = to]
    /\ UNCHANGED flags

\* poll_{read,write}_ready: a guard, or the task's waker is registered.
PollReady(h) ==
    LET e == EndOf[h]
    IN  /\ ThreadFree(h)
        /\ \/ ready[e] /\ SetTask(h, "idle", "trying")
           \/ ~ready[e] /\ SetTask(h, "idle", "parked")
        /\ UNCHANGED <<ready, stale, edge, avail, hung>>

ReadLength(h) ==  \* faulty: the length of the buffer is taken for what was read
    /\ EndOf[h] = "stdin" /\ avail["stdin"] > 0
    /\ avail' = [avail EXCEPT !["stdin"] = @ - Capacity["stdin"]]
    /\ SetTask(h, "trying", "idle")
    /\ UNCHANGED <<ready, stale, edge, hung>>

ReadAndClear(h) ==  \* faulty: readiness is forgotten after any read
    /\ EndOf[h] = "stdin" /\ avail["stdin"] > 0
    /\ \E n \in 1 .. avail["stdin"] : avail' = [avail EXCEPT !["stdin"] = @ - n]
    /\ SetTask(h, "trying", "idle")
    /\ ready' = [ready EXCEPT !["stdin"] = FALSE]
    /\ stale' = [stale EXCEPT !["stdin"] = FALSE]
    /\ UNCHANGED <<edge, hung>>

\* rustix::io::read: what there is, or the end of the input.
ReadOnce(h) ==
    LET e == EndOf[h]
    IN  /\ \/ /\ avail[e] > 0
              /\ \E n \in 1 .. avail[e] : avail' = [avail EXCEPT ![e] = @ - n]
              /\ SetTask(h, "trying", "idle")
           \/ avail[e] = 0 /\ hung[e] /\ SetTask(h, "trying", "done") /\ UNCHANGED avail
        /\ stale' = [stale EXCEPT ![e] = FALSE]
        /\ UNCHANGED <<ready, edge, hung>>

\* rustix::io::write: what fits, or an error when nobody reads any more.
WriteOnce(h) ==
    LET e == EndOf[h]
    IN  /\ \/ /\ avail[e] > 0 /\ ~hung[e]
              /\ \E n \in 1 .. avail[e] : avail' = [avail EXCEPT ![e] = @ - n]
              /\ SetTask(h, "trying", "idle")
           \/ hung[e] /\ SetTask(h, "trying", "done") /\ UNCHANGED avail
        /\ stale' = [stale EXCEPT ![e] = FALSE]
        /\ UNCHANGED <<ready, edge, hung>>

\* The system call finds nothing: EWOULDBLOCK, or the thread sleeps in it.
WouldBlock(h) ==
    LET e == EndOf[h]
    IN  /\ avail[e] = 0 /\ ~hung[e]
        /\ \/ nonblock[DescriptionOf(h)] /\ SetTask(h, "trying", "clearing")
           \/ ~nonblock[DescriptionOf(h)] /\ SetTask(h, "trying", "blocked")
        /\ UNCHANGED <<ready, stale, edge, avail, hung>>

\* The sleeping call goes on when the end becomes usable.
Unblock(h) ==
    /\ avail[EndOf[h]] > 0 \/ hung[EndOf[h]]
    /\ SetTask(h, "blocked", "trying")
    /\ UNCHANGED <<ready, stale, edge, avail, hung>>

ClearAndReturn(h) ==  \* faulty: Pending is returned without a waker
    LET e == EndOf[h]
    IN  /\ SetTask(h, "clearing", "parked")
        /\ ready' = [ready EXCEPT ![e] = @ /\ stale[e]]
        /\ stale' = [stale EXCEPT ![e] = FALSE]
        /\ UNCHANGED <<edge, avail, hung>>

\* try_io forgets the readiness, unless an event came since the guard was
\* taken; `continue` polls for readiness again.
Clear(h) ==
    LET e == EndOf[h]
    IN  /\ SetTask(h, "clearing", "idle")
        /\ ready' = [ready EXCEPT ![e] = @ /\ stale[e]]
        /\ stale' = [stale EXCEPT ![e] = FALSE]
        /\ UNCHANGED <<edge, avail, hung>>

\* poll_read and poll_write, vectored or not.
PollRead(h) ==
    /\ EndOf[h] = "stdin"
    /\ PollReady(h) \/ ReadOnce(h) \/ WouldBlock(h) \/ Unblock(h) \/ Clear(h)

PollWrite(h) ==
    /\ EndOf[h] = "stdout"
    /\ PollReady(h) \/ WriteOnce(h) \/ WouldBlock(h) \/ Unblock(h) \/ Clear(h)

PollIo(h) == PollRead(h) \/ PollWrite(h)

----------------------------------------------------------------------------
(***************************************************************************)
(* tokio's driver, the kernel and the process at the other end.            *)
(***************************************************************************)
\* The driver fetches the event, remembers the readiness and wakes the task.
Drive(e) ==
    /\ edge[e] /\ Registered(e)
    /\ edge' = [edge EXCEPT ![e] = FALSE]
    /\ ready' = [ready EXCEPT ![e] = TRUE]
    /\ stale' = [stale EXCEPT ![e] = task[e] \in {"trying", "clearing"}]
    /\ task' = [task EXCEPT ![e] = IF @ = "parked" THEN "idle" ELSE @]
    /\ UNCHANGED <<flags, avail, hung>>

\* The peer writes, or reads.  The kernel need not report an end that was
\* usable before.
Supply(e) ==
    /\ avail[e] < Capacity[e] /\ ~hung[e]
    /\ avail' = [avail EXCEPT ![e] = @ + 1]
    /\ edge' \in {[edge EXCEPT ![e] = TRUE],
                  [edge EXCEPT ![e] = IF avail[e] = 0 THEN TRUE ELSE @]}
    /\ UNCHANGED <<flags, task, ready, stale, hung>>

\* The peer closes its end, which is always reported.
HangUp(e) ==
    /\ ~hung[e]
    /\ hung' = [hung EXCEPT ![e] = TRUE]
    /\ edge' = [edge EXCEPT ![e] = TRUE]
    /\ UNCHANGED <<flags, task, ready, stale, avail>>

Use(h) ==
    Lock(h) \/ SetNonBlock(h) \/ Register(h) \/ Drop(h) \/ Unlock(h) \/ PollIo(h)

Init ==
    /\ shared \in BOOLEAN
    /\ nonblock = Inherited
    /\ phase = [h \in Handles |-> "new"]
    /\ prev = [h \in Handles |-> FALSE]
    /\ order = [e \in Ends |-> <<>>]
    /\ tangled = [e \in Ends |-> FALSE]
    /\ task = [e \in Ends |-> "idle"]
    /\ ready = [e \in Ends |-> FALSE] /\ stale = ready /\ edge = ready
    /\ avail = [e \in Ends |-> 0]
    /\ hung = [e \in Ends |-> FALSE]

Next ==
    \/ \E h \in Handles : Use(h)
    \/ \E e \in Ends : Drive(e) \/ Supply(e) \/ HangUp(e)

Spec == Init /\ [][Next]_vars

\* The tasks of a thread are polled in turn, a call that was begun goes on,
\* and the driver fetches events.  Nothing makes the peer supply.
FairSpec ==
    /\ Spec
    /\ \A e \in Ends : WF_vars(Drive(e))
    /\ \A h \in Handles : SF_vars(PollIo(h)) /\ WF_vars(SetNonBlock(h) \/ Unlock(h))

----------------------------------------------------------------------------
\* While the handles of a description nest, O_NONBLOCK is what they need and
\* nothing is left of it: set while any of them is in use, and as the process
\* found it before the first and after the last, failures included.
FlagsNest ==
    \A d \in Ends : ~tangled[d] =>
        nonblock[d] =
            (Inherited[d] \/ \E h \in Range(order[d]) : phase[h] # "prepared")

\* The std locks keep threads apart: two handles of one end that were locked
\* and are not gone, wherever they are in new() or drop(), are handles of
\* stdout on one thread.  And on descriptions of their own the ends do not
\* disturb each other: nothing tangles but such handles of stdout.
SameThread(e) ==
    \E g, h \in Handles : g # h /\ EndOf[g] = e /\ EndOf[h] = e /\ ThreadOf[g] = ThreadOf[h]
LocksSeparate ==
    /\ \A g, h \in Handles :
        g # h /\ EndOf[g] = EndOf[h] /\ {phase[g], phase[h]} \cap {"new", "gone"} = {} =>
            EndOf[g] = "stdout" /\ ThreadOf[g] = ThreadOf[h]
    /\ ~shared => \A e \in Ends : tangled[e] => e = "stdout" /\ SameThread(e)

\* No poll puts its thread to sleep in a system call, while they nest.
NeverBlocks ==
    \A e \in Ends : Registered(e) /\ task[e] = "blocked" => tangled[Description(e)]

\* No readiness is lost: of an end that is usable either an event is still to
\* be fetched, or tokio remembers it and will not forget it, and then the task
\* is not parked.
NoLostReadiness ==
    \A e \in Ends : Registered(e) /\ (avail[e] > 0 \/ hung[e]) =>
        \/ edge[e]
        \/ ready[e] /\ task[e] # "parked" /\ (task[e] = "clearing" => stale[e])

\* Whoever polls an end gets what comes, and learns of its end, unless it
\* drops the end first or nests handles wrongly.
Served ==
    \A e \in Ends :
        /\ avail[e] = Capacity[e] ~>
               avail[e] < Capacity[e] \/ hung[e] \/ ~Registered(e) \/ \E d \in Ends : tangled[d]
        /\ hung[e] ~> task[e] = "done" \/ ~Registered(e) \/ \E d \in Ends : tangled[d]
==============================================================================
