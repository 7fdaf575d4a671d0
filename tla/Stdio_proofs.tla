---------------------------- MODULE Stdio_proofs ----------------------------
(***************************************************************************)
(* Proofs about Stdio: for any handles, threads, flags the process starts  *)
(* with and capacities, locking keeps the flags right while handles nest,  *)
(* and no readiness is lost.                                               *)
(***************************************************************************)
EXTENDS Stdio, TLAPS

\* What std's locks, the flags and the stack of handles are typed by.
FlagTypes ==
    /\ shared \in BOOLEAN
    /\ nonblock \in [Ends -> BOOLEAN] /\ tangled \in [Ends -> BOOLEAN]
    /\ phase \in [Handles -> Phases] /\ prev \in [Handles -> BOOLEAN]
    /\ order \in [Ends -> Seq(Handles)]

IoTypes ==
    /\ task \in [Ends -> Tasks]
    /\ ready \in [Ends -> BOOLEAN] /\ stale \in [Ends -> BOOLEAN] /\ edge \in [Ends -> BOOLEAN]

PipeTypes ==
    /\ avail \in [Ends -> Nat] /\ \A e \in Ends : avail[e] \in 0 .. Capacity[e]
    /\ hung \in [Ends -> BOOLEAN]

InUse(h) == phase[h] \in {"prepared", "open", "async"}

\* The std locks: two holders of one end are on one thread, and that end is
\* stdout.
Apart ==
    \A g, h \in Handles :
        g # h /\ EndOf[g] = EndOf[h] /\ Holds(g) /\ Holds(h) =>
            EndOf[g] = "stdout" /\ ThreadOf[g] = ThreadOf[h]

\* A stack of handles whose flags nest: each found what the first one found
\* or, above it, what the first one set.
Stack(d) ==
    LET q == order[d]
    IN  /\ \A k \in 1 .. Len(q) :
            /\ DescriptionOf(q[k]) = d /\ InUse(q[k])
            /\ k < Len(q) => phase[q[k]] # "prepared"
            /\ prev[q[k]] = (Inherited[d] \/ k > 1)
        /\ \A j, k \in 1 .. Len(q) : q[j] = q[k] => j = k
        /\ \A h \in Handles : DescriptionOf(h) = d /\ InUse(h) => \E k \in 1 .. Len(q) : q[k] = h
        /\ nonblock[d] = (Inherited[d] \/ \E k \in 1 .. Len(q) : phase[q[k]] # "prepared")

Nested == \A d \in Ends : ~tangled[d] => Stack(d)

\* An end is registered by one handle, and nothing polls an end that is not.
OneEach ==
    /\ \A g, h \in Handles :
        EndOf[g] = EndOf[h] /\ phase[g] = "async" /\ phase[h] = "async" => g = h
    /\ \A e \in Ends : ~Registered(e) => task[e] = "idle"

IInv ==
    /\ TypeOK /\ Apart /\ Nested /\ OneEach
    /\ LocksSeparate /\ NeverBlocks /\ NoLostReadiness
----------------------------------------------------------------------------
\* The type invariant, cut into the groups of variables that steps change.
LEMMA Types == TypeOK <=> FlagTypes /\ IoTypes /\ PipeTypes
BY DEF TypeOK, FlagTypes, IoTypes, PipeTypes

\* Handles are on an end, and so on a description.
LEMMA DescriptionIsEnd ==
  ASSUME NEW h \in Handles
  PROVE  EndOf[h] \in Ends /\ DescriptionOf(h) \in Ends
BY StdioAssumption DEF DescriptionOf, Description, Ends

\* A sequence without its last element.
LEMMA FrontElements ==
  ASSUME NEW S, NEW q \in Seq(S), q # <<>>
  PROVE  /\ Len(q) \in Nat \ {0}
         /\ Front(q) \in Seq(S)
         /\ Len(Front(q)) = Len(q) - 1
         /\ \A k \in 1 .. Len(q) - 1 : Front(q)[k] = q[k]
         /\ Last(q) = q[Len(q)]
<1>1. Len(q) \in Nat \ {0} /\ Last(q) = q[Len(q)]
  BY DEF Last
<1>2. Front(q) = SubSeq(q, 1, Len(q) - 1)
  BY DEF Front
<1>3. \A k \in 1 .. Len(q) - 1 : q[k] \in S
  BY <1>1
<1>4. Front(q) = [k \in 1 .. Len(q) - 1 |-> q[k]]
  BY <1>1, <1>2
<1>5. Front(q) \in Seq(S) /\ Len(Front(q)) = Len(q) - 1
  BY <1>1, <1>3, <1>4
<1> QED
  BY <1>1, <1>4, <1>5

\* The front of a sequence is one, of the empty sequence too.
LEMMA FrontType ==
  ASSUME NEW S, NEW q \in Seq(S)
  PROVE  Front(q) \in Seq(S)
<1>1. CASE q = <<>>
  BY <1>1 DEF Front
<1>2. CASE q # <<>>
  BY <1>2, FrontElements
<1> QED
  BY <1>1, <1>2

\* Release keeps the types of the stacks.
LEMMA ReleaseTypes ==
  ASSUME FlagTypes, NEW h \in Handles, Release(h)
  PROVE  tangled' \in [Ends -> BOOLEAN] /\ order' \in [Ends -> Seq(Handles)]
<1>1. DescriptionOf(h) \in Ends
  BY DescriptionIsEnd
<1>2. tangled' \in [Ends -> BOOLEAN]
  BY <1>1 DEF Release, FlagTypes
<1>3. Front(order[DescriptionOf(h)]) \in Seq(Handles)
  BY <1>1, FrontType DEF FlagTypes
<1>4. order' \in [Ends -> Seq(Handles)]
  BY <1>1, <1>3 DEF Release, FlagTypes
<1> QED
  BY <1>2, <1>4

\* Restore keeps the types of everything about the flags.
LEMMA RestoreTypes ==
  ASSUME FlagTypes, NEW h \in Handles, Restore(h)
  PROVE  FlagTypes'
<1>1. DescriptionOf(h) \in Ends
  BY DescriptionIsEnd
<1>2. Release(h) /\ shared' = shared
  BY DEF Restore
<1>3. phase' \in [Handles -> Phases]
  BY DEF Restore, FlagTypes, Phases
<1>4. nonblock' \in [Ends -> BOOLEAN] /\ prev' \in [Handles -> BOOLEAN]
  BY <1>1 DEF Restore, FlagTypes
<1> QED
  BY <1>2, <1>3, <1>4, ReleaseTypes DEF FlagTypes

\* Every step of a handle is one of these, as far as the flags go.
LEMMA UseSteps ==
  ASSUME NEW h \in Handles, Use(h)
  PROVE  \/ Lock(h) \/ SetNonBlock(h) \/ Unlock(h)
         \/ Drop(h)
         \/ Register(h)
         \/ PollIo(h)
BY DEF Use

\* Every poll of an AsyncFd is one of these steps.
LEMMA PollSteps ==
  ASSUME NEW h \in Handles, PollIo(h)
  PROVE  PollReady(h) \/ ReadOnce(h) \/ WriteOnce(h) \/ WouldBlock(h) \/ Unblock(h) \/ Clear(h)
BY DEF PollIo, PollRead, PollWrite

\* The types hold at first.
LEMMA InitTypes == Init => TypeOK
<1> USE StdioAssumption
<1> SUFFICES ASSUME Init
             PROVE  TypeOK
  OBVIOUS
<1>1. FlagTypes
  BY DEF Init, FlagTypes, Phases
<1>2. IoTypes
  BY DEF Init, IoTypes, Tasks
<1>3. PipeTypes
  BY DEF Init, PipeTypes
<1> QED
  BY <1>1, <1>2, <1>3, Types

\* Every step keeps the types of the flags, the io and the pipes.
LEMMA TypeStep ==
  ASSUME FlagTypes, IoTypes, PipeTypes, [Next]_vars
  PROVE  FlagTypes' /\ IoTypes' /\ PipeTypes'
<1> USE StdioAssumption
<1>1. ASSUME NEW h \in Handles, Lock(h)
      PROVE  FlagTypes' /\ IoTypes' /\ PipeTypes'
  <2>0. DescriptionOf(h) \in Ends
    BY DescriptionIsEnd
  <2>1. tangled' \in [Ends -> BOOLEAN]
    BY <1>1, <2>0 DEF Lock, FlagTypes
  <2>2. order' \in [Ends -> Seq(Handles)]
    <3>1. Append(order[DescriptionOf(h)], h) \in Seq(Handles) /\ <<>> \in Seq(Handles)
      BY <2>0 DEF FlagTypes
    <3>2. \/ order' = order
          \/ \E q \in Seq(Handles) : order' = [order EXCEPT ![DescriptionOf(h)] = q]
      <4>1. \/ order' = order
            \/ order' = [order EXCEPT ![DescriptionOf(h)] =
                   IF tangled'[DescriptionOf(h)] THEN <<>> ELSE Append(order[DescriptionOf(h)], h)]
        BY <1>1 DEF Lock
      <4> QED
        BY <3>1, <4>1
    <3>3. \A e \in Ends, q \in Seq(Handles) : [order EXCEPT ![e] = q] \in [Ends -> Seq(Handles)]
      BY DEF FlagTypes
    <3>4. CASE order' = order
      BY <3>4 DEF FlagTypes
    <3>5. CASE order' # order
      <4>1. PICK q \in Seq(Handles) : order' = [order EXCEPT ![DescriptionOf(h)] = q]
        BY <3>2, <3>5
      <4>2. [order EXCEPT ![DescriptionOf(h)] = q] \in [Ends -> Seq(Handles)]
        BY <2>0, <3>3
      <4> QED
        BY <4>1, <4>2, Zenon
    <3> QED
      BY <3>4, <3>5
  <2>3. phase' \in [Handles -> Phases] /\ prev' \in [Handles -> BOOLEAN]
    BY <1>1, <2>0 DEF Lock, FlagTypes, Phases
  <2> QED
    BY <1>1, <2>1, <2>2, <2>3 DEF Lock, FlagTypes, IoTypes, PipeTypes, io
<1>2. ASSUME NEW h \in Handles, SetNonBlock(h)
      PROVE  FlagTypes' /\ IoTypes' /\ PipeTypes'
  <2>0. DescriptionOf(h) \in Ends
    BY DescriptionIsEnd
  <2>1. tangled' \in [Ends -> BOOLEAN] /\ order' \in [Ends -> Seq(Handles)]
    BY <1>2, ReleaseTypes DEF SetNonBlock, FlagTypes
  <2>2. phase' \in [Handles -> Phases] /\ nonblock' \in [Ends -> BOOLEAN]
    BY <1>2, <2>0 DEF SetNonBlock, FlagTypes, Phases
  <2> QED
    BY <1>2, <2>1, <2>2 DEF SetNonBlock, FlagTypes, IoTypes, PipeTypes, io
<1>3. ASSUME NEW h \in Handles, Unlock(h)
      PROVE  FlagTypes' /\ IoTypes' /\ PipeTypes'
  BY <1>3 DEF Unlock, FlagTypes, IoTypes, PipeTypes, io, Phases
<1>4. ASSUME NEW h \in Handles, Drop(h)
      PROVE  FlagTypes' /\ IoTypes' /\ PipeTypes'
  <2>1. FlagTypes'
    BY <1>4, RestoreTypes DEF Drop
  <2>2. IoTypes'
    BY <1>4 DEF Drop, Deregister, IoTypes, io, Tasks
  <2> QED
    BY <1>4, <2>1, <2>2 DEF Drop, PipeTypes
<1>5. ASSUME NEW h \in Handles, Register(h)
      PROVE  FlagTypes' /\ IoTypes' /\ PipeTypes'
  <2>1. CASE Restore(h)
    BY <1>5, <2>1, RestoreTypes DEF Register, IoTypes, PipeTypes, io
  <2>2. CASE ~Registered(EndOf[h]) /\ ~Restore(h)
    <3>1. FlagTypes'
      BY <1>5, <2>2 DEF Register, FlagTypes, Phases
    <3>2. IoTypes'
      BY <1>5, <2>2, DescriptionIsEnd DEF Register, IoTypes, PipeTypes
    <3> QED
      BY <1>5, <3>1, <3>2 DEF Register, PipeTypes
  <2> QED
    BY <1>5, <2>1, <2>2 DEF Register
<1>6. ASSUME NEW h \in Handles, PollIo(h)
      PROVE  FlagTypes' /\ IoTypes' /\ PipeTypes'
  <2>1. UNCHANGED flags /\ task' \in [Ends -> Tasks]
    BY <1>6, PollSteps DEF PollReady, ReadOnce, WriteOnce, WouldBlock, Unblock, Clear, SetTask,
       IoTypes, Tasks
  <2>2. /\ ready' \in [Ends -> BOOLEAN] /\ stale' \in [Ends -> BOOLEAN]
        /\ edge' \in [Ends -> BOOLEAN]
    BY <1>6, PollSteps, DescriptionIsEnd DEF PollReady, ReadOnce, WriteOnce, WouldBlock, Unblock, Clear, IoTypes
  <2>3. PipeTypes'
    BY <1>6, PollSteps, DescriptionIsEnd
    DEF PollReady, ReadOnce, WriteOnce, WouldBlock, Unblock, Clear, PipeTypes
  <2> QED
    BY <2>1, <2>2, <2>3 DEF flags, FlagTypes, IoTypes
<1>7. ASSUME NEW e \in Ends, Drive(e) \/ Supply(e) \/ HangUp(e)
      PROVE  FlagTypes' /\ IoTypes' /\ PipeTypes'
  <2>1. UNCHANGED flags
    BY <1>7 DEF Drive, Supply, HangUp
  <2>2. IoTypes'
    <3>1. CASE Drive(e)
      BY <3>1 DEF Drive, IoTypes, Tasks
    <3>2. CASE Supply(e)
      BY <3>2 DEF Supply, IoTypes
    <3>3. CASE HangUp(e)
      BY <3>3 DEF HangUp, IoTypes
    <3> QED
      BY <1>7, <3>1, <3>2, <3>3
  <2>3. PipeTypes'
    <3>1. CASE Drive(e)
      BY <3>1 DEF Drive, PipeTypes
    <3>2. CASE Supply(e)
      <4>1. avail[e] \in Nat /\ Capacity[e] \in Nat /\ avail[e] + 1 \in 0 .. Capacity[e]
        BY <3>2 DEF Supply, PipeTypes
      <4> QED
        BY <3>2, <4>1 DEF Supply, PipeTypes
    <3>3. CASE HangUp(e)
      BY <3>3 DEF HangUp, PipeTypes
    <3> QED
      BY <1>7, <3>1, <3>2, <3>3
  <2> QED
    BY <2>1, <2>2, <2>3 DEF flags, FlagTypes
<1>8. CASE UNCHANGED vars
  BY <1>8 DEF vars, flags, io, FlagTypes, IoTypes, PipeTypes
<1> QED
  BY <1>1, <1>2, <1>3, <1>4, <1>5, <1>6, <1>7, <1>8, UseSteps DEF Next

\* The variables of Stdio keep their types.
THEOREM TypeCorrect == Spec => []TypeOK
<1>1. TypeOK /\ [Next]_vars => TypeOK'
  BY Types, TypeStep DEF TypeOK, FlagTypes, IoTypes, PipeTypes
<1> QED
  BY <1>1, InitTypes, PTL DEF Spec

----------------------------------------------------------------------------
\* An open handle becomes one that is registered.
Enters(h) ==
    /\ phase[h] = "open" /\ ~Registered(EndOf[h])
    /\ phase' = [phase EXCEPT ![h] = "async"]
    /\ UNCHANGED <<shared, nonblock, prev, order, tangled>>

Restores(h) == phase[h] \in {"open", "async"} /\ Restore(h)

\* The steps as far as locks and flags go.
LEMMA FlagSteps ==
  ASSUME [Next]_vars
  PROVE  \/ UNCHANGED flags
         \/ \E h \in Handles :
                Lock(h) \/ SetNonBlock(h) \/ Unlock(h) \/ Restores(h) \/ Enters(h)
<1>1. ASSUME NEW h \in Handles, Use(h)
      PROVE  UNCHANGED flags \/ Lock(h) \/ SetNonBlock(h) \/ Unlock(h) \/ Restores(h) \/ Enters(h)
  <2>1. CASE Drop(h)
    BY <2>1 DEF Drop, Restores
  <2>2. CASE Register(h)
    BY <2>2 DEF Register, Restores, Enters
  <2>3. CASE PollIo(h)
    BY <2>3, PollSteps DEF PollReady, ReadOnce, WriteOnce, WouldBlock, Unblock, Clear, SetTask
  <2> QED
    BY <1>1, <2>1, <2>2, <2>3 DEF Use
<1>2. ASSUME NEW e \in Ends, Drive(e) \/ Supply(e) \/ HangUp(e)
      PROVE  UNCHANGED flags
  BY <1>2 DEF Drive, Supply, HangUp
<1>3. CASE UNCHANGED vars
  BY <1>3 DEF vars
<1> QED
  BY <1>1, <1>2, <1>3 DEF Next

\* What a step does to the phase of the handle it is about.
LEMMA PhaseSteps ==
  ASSUME FlagTypes, NEW h \in Handles,
         Lock(h) \/ SetNonBlock(h) \/ Unlock(h) \/ Restores(h) \/ Enters(h)
  PROVE  /\ shared' = shared
         /\ \A g \in Handles \ {h} : phase'[g] = phase[g] /\ prev'[g] = prev[g]
         /\ ~Lock(h) => Holds(h)
<1>1. CASE Lock(h)
  BY <1>1 DEF Lock, FlagTypes
<1>2. CASE SetNonBlock(h)
  BY <1>2 DEF SetNonBlock, FlagTypes, Holds
<1>3. CASE Unlock(h)
  BY <1>3 DEF Unlock, FlagTypes, Holds
<1>4. CASE Restores(h)
  BY <1>4 DEF Restores, Restore, FlagTypes, Holds
<1>5. CASE Enters(h)
  BY <1>5 DEF Enters, FlagTypes, Holds
<1> QED
  BY <1>1, <1>2, <1>3, <1>4, <1>5

\* A guard of std is only had by Lock, which waits for the others.
LEMMA ApartStep ==
  ASSUME FlagTypes, Apart, [Next]_vars
  PROVE  Apart'
<1>1. CASE UNCHANGED flags
  BY <1>1 DEF flags, Apart, Holds
<1>2. ASSUME NEW h \in Handles, SetNonBlock(h) \/ Unlock(h) \/ Restores(h) \/ Enters(h), ~Lock(h)
      PROVE  Apart'
  <2>1. \A g \in Handles : Holds(g)' => Holds(g)
    BY <1>2, PhaseSteps DEF Holds
  <2> QED
    BY <2>1 DEF Apart
<1>3. ASSUME NEW h \in Handles, Lock(h)
      PROVE  Apart'
  <2>1. \A g \in Handles \ {h} : Holds(g)' => Holds(g)
    BY <1>3, PhaseSteps DEF Holds
  <2>2. \A g \in Handles \ {h} :
            EndOf[g] = EndOf[h] /\ Holds(g) => EndOf[h] = "stdout" /\ ThreadOf[g] = ThreadOf[h]
    BY <1>3 DEF Lock, StdinFree, StdoutFree, Others
  <2> QED
    BY <2>1, <2>2 DEF Apart
<1> QED
  BY <1>1, <1>2, <1>3, FlagSteps

\* A step about a handle that is not in the stack, before or after, leaves the
\* stack as it is.
LEMMA StackKept ==
  ASSUME FlagTypes, NEW d \in Ends, Stack(d), NEW h \in Handles,
         DescriptionOf(h) = d => ~InUse(h) /\ ~InUse(h)',
         shared' = shared, order'[d] = order[d], nonblock'[d] = nonblock[d],
         \A g \in Handles \ {h} : phase'[g] = phase[g] /\ prev'[g] = prev[g]
  PROVE  Stack(d)'
<1>0. PICK q \in Seq(Handles) : q = order[d]
  BY DEF FlagTypes
<1>1. \A g \in Handles : DescriptionOf(g)' = DescriptionOf(g)
  BY DEF DescriptionOf, Description
<1>2. \A k \in 1 .. Len(q) : q[k] \in Handles
  OBVIOUS
<1>3. \A k \in 1 .. Len(q) : q[k] \in Handles \ {h}
  BY <1>0, <1>2 DEF Stack
<1>4. \A k \in 1 .. Len(q) : phase'[q[k]] = phase[q[k]] /\ prev'[q[k]] = prev[q[k]]
  BY <1>3
<1>5. \A g \in Handles : DescriptionOf(g)' = d /\ InUse(g)' => \E k \in 1 .. Len(q) : q[k] = g
  BY <1>0, <1>1 DEF Stack, InUse
<1>6. order'[d] = q
  BY <1>0
<1>7. \A k \in 1 .. Len(q) :
          /\ DescriptionOf(q[k])' = d /\ InUse(q[k])'
          /\ k < Len(q) => phase'[q[k]] # "prepared"
          /\ prev'[q[k]] = (Inherited[d] \/ k > 1)
  BY <1>0, <1>1, <1>3, <1>4 DEF Stack, InUse
<1>8. \A j, k \in 1 .. Len(q) : q[j] = q[k] => j = k
  BY <1>0 DEF Stack
<1>9. nonblock'[d] = (Inherited[d] \/ \E k \in 1 .. Len(q) : phase'[q[k]] # "prepared")
  BY <1>0, <1>4 DEF Stack
<1> QED
  BY <1>5, <1>6, <1>7, <1>8, <1>9 DEF Stack

\* Lock pushes a handle, when none above the first is being prepared.
LEMMA StackPushed ==
  ASSUME FlagTypes, NEW d \in Ends, Stack(d), NEW h \in Handles,
         DescriptionOf(h) = d, ~InUse(h), phase'[h] = "prepared", prev'[h] = nonblock[d],
         \A k \in 1 .. Len(order[d]) : phase[order[d][k]] # "prepared",
         shared' = shared, order'[d] = Append(order[d], h), nonblock'[d] = nonblock[d],
         \A g \in Handles \ {h} : phase'[g] = phase[g] /\ prev'[g] = prev[g]
  PROVE  Stack(d)'
<1>0. PICK q \in Seq(Handles) : q = order[d]
  BY DEF FlagTypes
<1>p. PICK p : p = Append(q, h)
  OBVIOUS
<1> DEFINE n == Len(q)
<1>1. \A g \in Handles : DescriptionOf(g)' = DescriptionOf(g)
  BY DEF DescriptionOf, Description
<1>2. n \in Nat /\ \A k \in 1 .. n : q[k] \in Handles
  OBVIOUS
<1>3. \A k \in 1 .. n : q[k] \in Handles \ {h}
  BY <1>0, <1>2 DEF Stack
<1>4. Len(p) = n + 1 /\ p[n + 1] = h /\ \A k \in 1 .. n : p[k] = q[k]
  BY <1>2, <1>p
<1>5. \A k \in 1 .. n :
          /\ DescriptionOf(q[k]) = d /\ InUse(q[k]) /\ prev[q[k]] = (Inherited[d] \/ k > 1)
          /\ phase[q[k]] # "prepared"
  BY <1>0 DEF Stack
<1>6. \A j, k \in 1 .. n : q[j] = q[k] => j = k
  BY <1>0 DEF Stack
<1>7. \A g \in Handles : DescriptionOf(g) = d /\ InUse(g) => \E k \in 1 .. n : q[k] = g
  BY <1>0 DEF Stack
<1>8. nonblock[d] = (Inherited[d] \/ \E k \in 1 .. n : phase[q[k]] # "prepared")
  BY <1>0 DEF Stack
<1> HIDE DEF n
<1>9. \A k \in 1 .. n : phase'[q[k]] = phase[q[k]] /\ prev'[q[k]] = prev[q[k]]
  BY <1>3
<1>10. nonblock[d] = (Inherited[d] \/ n + 1 > 1)
  BY <1>2, <1>5, <1>8
<1>11. \A k \in 1 .. Len(p) :
          /\ DescriptionOf(p[k])' = d /\ InUse(p[k])'
          /\ k < Len(p) => phase'[p[k]] # "prepared"
          /\ prev'[p[k]] = (Inherited[d] \/ k > 1)
  <2> SUFFICES ASSUME NEW k \in 1 .. n + 1
               PROVE  /\ DescriptionOf(p[k])' = d /\ InUse(p[k])'
                      /\ k < n + 1 => phase'[p[k]] # "prepared"
                      /\ prev'[p[k]] = (Inherited[d] \/ k > 1)
    BY <1>4
  <2>1. CASE k \in 1 .. n
    BY <2>1, <1>1, <1>2, <1>3, <1>4, <1>5, <1>9 DEF InUse
  <2>2. CASE k = n + 1
    BY <2>2, <1>1, <1>2, <1>4, <1>10 DEF InUse
  <2> QED
    BY <2>1, <2>2, <1>2
<1>12. \A j, k \in 1 .. Len(p) : p[j] = p[k] => j = k
  BY <1>2, <1>3, <1>4, <1>6
<1>13. \A g \in Handles : DescriptionOf(g)' = d /\ InUse(g)' => \E k \in 1 .. Len(p) : p[k] = g
  <2> SUFFICES ASSUME NEW g \in Handles, DescriptionOf(g)' = d, InUse(g)'
               PROVE  \E k \in 1 .. n + 1 : p[k] = g
    BY <1>4
  <2>1. CASE g = h
    BY <2>1, <1>2, <1>4
  <2>2. CASE g # h
    <3>1. PICK k \in 1 .. n : q[k] = g
      BY <2>2, <1>1, <1>7 DEF InUse
    <3> QED
      BY <3>1, <1>2, <1>4
  <2> QED
    BY <2>1, <2>2
<1>14. nonblock'[d] = (Inherited[d] \/ \E k \in 1 .. Len(p) : phase'[p[k]] # "prepared")
  <2>1. (\E k \in 1 .. Len(p) : phase'[p[k]] # "prepared") <=> (\E k \in 1 .. n : phase[q[k]] # "prepared")
    BY <1>2, <1>4, <1>9
  <2> QED
    BY <2>1, <1>8
<1>15. order'[d] = p
  BY <1>0, <1>p
<1> QED
  BY <1>11, <1>12, <1>13, <1>14, <1>15 DEF Stack

\* A handle of the stack that sets the flag, or keeps it set, stays in it.
LEMMA StackSet ==
  ASSUME FlagTypes, NEW d \in Ends, Stack(d), NEW h \in Handles,
         DescriptionOf(h) = d, InUse(h), phase'[h] \in {"open", "async"}, nonblock'[d] = TRUE,
         shared' = shared, order'[d] = order[d], prev'[h] = prev[h],
         \A g \in Handles \ {h} : phase'[g] = phase[g] /\ prev'[g] = prev[g]
  PROVE  Stack(d)'
<1>0. PICK q \in Seq(Handles) : q = order[d]
  BY DEF FlagTypes
<1>1. \A g \in Handles : DescriptionOf(g)' = DescriptionOf(g) /\ prev'[g] = prev[g]
  BY DEF DescriptionOf, Description
<1>2. \A k \in 1 .. Len(q) : q[k] \in Handles
  OBVIOUS
<1>3. \A g \in Handles : InUse(g)' = InUse(g) /\ (phase[g] # "prepared" => phase'[g] # "prepared")
  BY DEF InUse
<1>4. PICK i \in 1 .. Len(q) : q[i] = h
  BY <1>0 DEF Stack
<1>5. \A k \in 1 .. Len(q) :
          /\ DescriptionOf(q[k])' = d /\ InUse(q[k])'
          /\ k < Len(q) => phase'[q[k]] # "prepared"
          /\ prev'[q[k]] = (Inherited[d] \/ k > 1)
  BY <1>0, <1>1, <1>2, <1>3 DEF Stack
<1>6. \A j, k \in 1 .. Len(q) : q[j] = q[k] => j = k
  BY <1>0 DEF Stack
<1>7. \A g \in Handles : DescriptionOf(g)' = d /\ InUse(g)' => \E k \in 1 .. Len(q) : q[k] = g
  BY <1>0, <1>1, <1>3 DEF Stack
<1>8. nonblock'[d] = (Inherited[d] \/ \E k \in 1 .. Len(q) : phase'[q[k]] # "prepared")
  BY <1>4
<1>9. order'[d] = q
  BY <1>0
<1> QED
  BY <1>5, <1>6, <1>7, <1>8, <1>9 DEF Stack

\* The last handle leaves the stack, and the flag is as it found it.
LEMMA StackPopped ==
  ASSUME FlagTypes, NEW d \in Ends, Stack(d), NEW h \in Handles,
         DescriptionOf(h) = d, InUse(h), ~InUse(h)', h = Last(order[d]),
         shared' = shared, order'[d] = Front(order[d]),
         nonblock'[d] = (Inherited[d] \/ Len(order[d]) > 1),
         \A g \in Handles \ {h} : phase'[g] = phase[g] /\ prev'[g] = prev[g]
  PROVE  Stack(d)'
<1>0. PICK q \in Seq(Handles) : q = order[d]
  BY DEF FlagTypes
<1>1. \A g \in Handles : DescriptionOf(g)' = DescriptionOf(g)
  BY DEF DescriptionOf, Description
<1>2. q # <<>>
  BY <1>0 DEF Stack
<1>p. PICK p \in Seq(Handles) : p = Front(q)
  BY FrontType
<1>n. PICK n \in Nat : n + 1 = Len(q)
  <2>1. Len(q) - 1 \in Nat /\ (Len(q) - 1) + 1 = Len(q)
    BY <1>2
  <2> QED
    BY <2>1
<1>3. Len(p) = n /\ q[n + 1] = h /\ \A k \in 1 .. n : p[k] = q[k]
  BY <1>0, <1>2, <1>p, <1>n, FrontElements
<1>4. \A j, k \in 1 .. n + 1 : q[j] = q[k] => j = k
  BY <1>0, <1>n DEF Stack
<1>5. \A k \in 1 .. n : q[k] \in Handles \ {h}
  BY <1>3, <1>4, <1>n
<1>6. \A k \in 1 .. n : phase'[p[k]] = phase[q[k]] /\ prev'[p[k]] = prev[q[k]]
  BY <1>3, <1>5
<1>7. \A k \in 1 .. n :
          /\ DescriptionOf(q[k]) = d /\ InUse(q[k]) /\ phase[q[k]] # "prepared"
          /\ prev[q[k]] = (Inherited[d] \/ k > 1)
  BY <1>0, <1>n DEF Stack
<1>8. \A k \in 1 .. Len(p) :
          /\ DescriptionOf(p[k])' = d /\ InUse(p[k])'
          /\ k < Len(p) => phase'[p[k]] # "prepared"
          /\ prev'[p[k]] = (Inherited[d] \/ k > 1)
  BY <1>1, <1>3, <1>5, <1>6, <1>7 DEF InUse
<1>9. \A j, k \in 1 .. Len(p) : p[j] = p[k] => j = k
  BY <1>3, <1>4
<1>10. \A g \in Handles : DescriptionOf(g)' = d /\ InUse(g)' => \E k \in 1 .. Len(p) : p[k] = g
  <2> SUFFICES ASSUME NEW g \in Handles, DescriptionOf(g)' = d, InUse(g)'
               PROVE  \E k \in 1 .. n : p[k] = g
    BY <1>3
  <2>1. g # h /\ InUse(g) /\ DescriptionOf(g) = d
    <3>1. g # h
      OBVIOUS
    <3> QED
      BY <3>1, <1>1 DEF InUse
  <2>2. PICK k \in 1 .. n + 1 : q[k] = g
    BY <2>1, <1>0, <1>n DEF Stack
  <2>3. k \in 1 .. n
    BY <2>1, <2>2, <1>3, <1>n
  <2> QED
    BY <2>2, <2>3, <1>3
<1>11. nonblock'[d] = (Inherited[d] \/ \E k \in 1 .. Len(p) : phase'[p[k]] # "prepared")
  <2>1. CASE n = 0
    <3>0. Len(q) = 1
      BY <2>1, <1>n
    <3>1. Len(order[d]) = 1
      BY <3>0, <1>0, Zenon
    <3>2. 1 .. Len(p) = {}
      BY <2>1, <1>3
    <3> QED
      BY <3>1, <3>2
  <2>2. CASE n > 0
    <3>1. 1 \in 1 .. Len(p) /\ phase'[p[1]] # "prepared"
      BY <2>2, <1>3, <1>6, <1>7
    <3>2. Len(order[d]) > 1
      BY <2>2, <1>0, <1>n
    <3> QED
      BY <3>1, <3>2
  <2> QED
    BY <2>1, <2>2
<1>12. order'[d] = p
  BY <1>0, <1>p
<1> QED
  BY <1>8, <1>9, <1>10, <1>11, <1>12 DEF Stack

\* What Release does: once tangled, the stack is given up; otherwise the last
\* handle leaves it.
LEMMA Released ==
  ASSUME FlagTypes, NEW h \in Handles, NEW d \in Ends, Release(h),
         ~tangled'[d]
  PROVE  /\ ~tangled[d]
         /\ d # DescriptionOf(h) => order'[d] = order[d]
         /\ d = DescriptionOf(h) => h = Last(order[d]) /\ order'[d] = Front(order[d])
BY DescriptionIsEnd DEF Release, FlagTypes

\* While they nest, every step keeps the stack of a description.
LEMMA NestedStep ==
  ASSUME FlagTypes, Nested, [Next]_vars
  PROVE  Nested'
<1> SUFFICES ASSUME NEW d \in Ends, ~tangled'[d]
             PROVE  Stack(d)'
  BY DEF Nested
<1>1. CASE UNCHANGED flags
  <2>1. UNCHANGED <<shared, nonblock, phase, prev, order, tangled>>
    BY <1>1 DEF flags
  <2>2. Stack(d)' <=> Stack(d)
    BY <2>1 DEF Stack, InUse, DescriptionOf, Description
  <2> QED
    BY <2>1, <2>2 DEF Nested
<1>2. ASSUME NEW h \in Handles, Lock(h)
      PROVE  Stack(d)'
  <2>p. shared' = shared /\ \A g \in Handles \ {h} : phase'[g] = phase[g] /\ prev'[g] = prev[g]
    BY <1>2, PhaseSteps
  <2>0. DescriptionOf(h) \in Ends /\ phase[h] = "new" /\ nonblock' = nonblock
    BY <1>2, DescriptionIsEnd DEF Lock
  <2>1. ~InUse(h)
    BY <2>0 DEF InUse
  <2>2. CASE phase' = [phase EXCEPT ![h] = "gone"] /\ UNCHANGED <<prev, order, tangled>>
    <3>1. ~InUse(h)'
      BY <2>2 DEF InUse, FlagTypes
    <3> QED
      BY <2>p, <2>0, <2>1, <2>2, <3>1, StackKept DEF Nested
  <2>3. CASE ~UNCHANGED order \/ ~UNCHANGED tangled \/ phase' # [phase EXCEPT ![h] = "gone"] \/ ~UNCHANGED prev
    <3>1. /\ phase' = [phase EXCEPT ![h] = "prepared"]
          /\ prev' = [prev EXCEPT ![h] = nonblock[DescriptionOf(h)]]
          /\ tangled' = [tangled EXCEPT ![DescriptionOf(h)] =
                 @ \/ \E g \in Range(order[DescriptionOf(h)]) : phase[g] = "prepared"]
          /\ order' = [order EXCEPT ![DescriptionOf(h)] =
                 IF tangled'[DescriptionOf(h)] THEN <<>> ELSE Append(@, h)]
      BY <1>2, <2>3 DEF Lock
    <3>2. ~tangled[d]
      BY <3>1, <2>0 DEF FlagTypes
    <3>3. CASE DescriptionOf(h) # d
      <4>1. order'[d] = order[d] /\ nonblock'[d] = nonblock[d]
        BY <2>0, <3>1, <3>3 DEF FlagTypes
      <4>2. Stack(d)
        BY <3>2 DEF Nested
      <4> QED
        BY <2>p, <3>3, <4>1, <4>2, StackKept
    <3>4. CASE DescriptionOf(h) = d
      <4>1. \A k \in 1 .. Len(order[d]) : phase[order[d][k]] # "prepared"
        <5>1. PICK q \in Seq(Handles) : q = order[d]
          BY DEF FlagTypes
        <5>2. ~\E g \in Range(q) : phase[g] = "prepared"
          BY <3>1, <3>4, <5>1 DEF FlagTypes
        <5>3. \A k \in 1 .. Len(q) : q[k] \in Range(q)
          BY DEF Range
        <5> QED
          BY <5>1, <5>2, <5>3
      <4>2. order'[d] = Append(order[d], h) /\ phase'[h] = "prepared" /\ prev'[h] = nonblock[d]
        BY <2>0, <3>1, <3>4 DEF FlagTypes
      <4> QED
        BY <2>p, <2>0, <2>1, <3>2, <3>4, <4>1, <4>2, StackPushed DEF Nested
    <3> QED
      BY <3>3, <3>4
  <2> QED
    BY <2>2, <2>3
<1>3. ASSUME NEW h \in Handles, SetNonBlock(h)
      PROVE  Stack(d)'
  <2>p. shared' = shared /\ \A g \in Handles \ {h} : phase'[g] = phase[g] /\ prev'[g] = prev[g]
    BY <1>3, PhaseSteps
  <2>0. DescriptionOf(h) \in Ends /\ phase[h] = "prepared" /\ InUse(h) /\ prev' = prev
    BY <1>3, DescriptionIsEnd DEF SetNonBlock, InUse
  <2>1. CASE /\ nonblock' = [nonblock EXCEPT ![DescriptionOf(h)] = TRUE]
             /\ phase' = [phase EXCEPT ![h] = "open"]
             /\ UNCHANGED <<order, tangled>>
    <3>1. phase'[h] = "open" /\ Stack(d)
      BY <2>1 DEF FlagTypes, Nested
    <3>2. CASE DescriptionOf(h) = d
      <4>1. nonblock'[d] = TRUE
        BY <2>1, <3>2 DEF FlagTypes
      <4> QED
        BY <2>p, <2>0, <2>1, <3>1, <3>2, <4>1, StackSet
    <3>3. CASE DescriptionOf(h) # d
      <4>1. nonblock'[d] = nonblock[d] /\ order'[d] = order[d]
        BY <2>0, <2>1, <3>3 DEF FlagTypes
      <4> QED
        BY <2>p, <3>1, <3>3, <4>1, StackKept
    <3> QED
      BY <3>2, <3>3
  <2>2. CASE phase' = [phase EXCEPT ![h] = "gone"] /\ Release(h) /\ UNCHANGED nonblock
    <3>1. ~InUse(h)' /\ Stack(d)
      BY <2>2, Released DEF FlagTypes, Nested, InUse
    <3>2. CASE DescriptionOf(h) = d
      <4>1. h = Last(order[d]) /\ order'[d] = Front(order[d])
        BY <2>2, <3>2, Released
      <4>2. nonblock[d] = (Inherited[d] \/ Len(order[d]) > 1)
        <5>1. PICK q \in Seq(Handles) : q = order[d]
          BY DEF FlagTypes
        <5>2. q # <<>> /\ q[Len(q)] = h
          BY <2>0, <3>1, <3>2, <4>1, <5>1, FrontElements DEF Stack
        <5>3. \A k \in 1 .. Len(q) : phase[q[k]] # "prepared" <=> k < Len(q)
          BY <2>0, <3>1, <5>1, <5>2 DEF Stack
        <5>4. (\E k \in 1 .. Len(q) : phase[q[k]] # "prepared") <=> Len(q) > 1
          <6>1. Len(q) > 1 => 1 \in 1 .. Len(q) /\ 1 < Len(q)
            BY <5>2
          <6> QED
            BY <5>2, <5>3, <6>1
        <5> QED
          BY <3>1, <5>1, <5>4 DEF Stack
      <4> QED
        BY <2>p, <2>0, <2>2, <3>1, <3>2, <4>1, <4>2, StackPopped
    <3>3. CASE DescriptionOf(h) # d
      BY <2>p, <2>2, <3>1, <3>3, Released, StackKept
    <3> QED
      BY <3>2, <3>3
  <2> QED
    BY <1>3, <2>1, <2>2 DEF SetNonBlock
<1>4. ASSUME NEW h \in Handles, Unlock(h)
      PROVE  Stack(d)'
  <2>1. ~InUse(h) /\ ~InUse(h)'
    BY <1>4 DEF Unlock, InUse, FlagTypes
  <2> QED
    BY <1>4, <2>1, PhaseSteps, StackKept DEF Unlock, Nested
<1>5. ASSUME NEW h \in Handles, Restores(h)
      PROVE  Stack(d)'
  <2>p. shared' = shared /\ \A g \in Handles \ {h} : phase'[g] = phase[g] /\ prev'[g] = prev[g]
    BY <1>5, PhaseSteps
  <2>0. DescriptionOf(h) \in Ends /\ InUse(h) /\ Release(h)
    BY <1>5, DescriptionIsEnd DEF Restores, Restore, InUse
  <2>1. ~InUse(h)' /\ Stack(d)
    BY <1>5, <2>0, Released DEF Restores, Restore, FlagTypes, Nested, InUse
  <2>2. CASE DescriptionOf(h) = d
    <3>1. h = Last(order[d]) /\ order'[d] = Front(order[d])
      BY <2>0, <2>2, Released
    <3>2. nonblock'[d] = prev[h]
      BY <1>5, <2>2 DEF Restores, Restore, FlagTypes
    <3>3. prev[h] = (Inherited[d] \/ Len(order[d]) > 1)
      <4>1. PICK q \in Seq(Handles) : q = order[d]
        BY DEF FlagTypes
      <4>2. q # <<>>
        BY <2>0, <2>1, <2>2, <4>1 DEF Stack
      <4>3. Len(q) \in 1 .. Len(q) /\ q[Len(q)] = h
        BY <3>1, <4>1, <4>2, FrontElements
      <4> QED
        BY <2>1, <4>1, <4>3 DEF Stack
    <3> QED
      BY <2>p, <2>0, <2>1, <2>2, <3>1, <3>2, <3>3, StackPopped
  <2>3. CASE DescriptionOf(h) # d
    <3>1. nonblock'[d] = nonblock[d]
      BY <1>5, <2>0, <2>3 DEF Restores, Restore, FlagTypes
    <3> QED
      BY <2>p, <2>0, <2>1, <2>3, <3>1, Released, StackKept
  <2> QED
    BY <2>2, <2>3
<1>6. ASSUME NEW h \in Handles, Enters(h)
      PROVE  Stack(d)'
  <2>p. shared' = shared /\ \A g \in Handles \ {h} : phase'[g] = phase[g] /\ prev'[g] = prev[g]
    BY <1>6, PhaseSteps
  <2>1. /\ Stack(d) /\ phase[h] = "open" /\ InUse(h) /\ phase'[h] = "async"
        /\ UNCHANGED <<shared, nonblock, prev, order>>
    BY <1>6 DEF Enters, FlagTypes, Nested, InUse
  <2>2. CASE DescriptionOf(h) = d
    <3>1. \E k \in 1 .. Len(order[d]) : phase[order[d][k]] # "prepared"
      BY <2>1, <2>2 DEF Stack
    <3>2. nonblock'[d] = TRUE /\ order'[d] = order[d] /\ prev'[h] = prev[h]
      BY <2>1, <3>1 DEF Stack
    <3> QED
      BY <2>p, <2>1, <2>2, <3>2, StackSet
  <2>3. CASE DescriptionOf(h) # d
    <3>1. order'[d] = order[d] /\ nonblock'[d] = nonblock[d]
      BY <2>1
    <3> QED
      BY <2>p, <2>1, <2>3, <3>1, StackKept
  <2> QED
    BY <2>2, <2>3
<1> QED
  BY <1>1, <1>2, <1>3, <1>4, <1>5, <1>6, FlagSteps

----------------------------------------------------------------------------
\* Nothing can tangle the handles of an end that has a description of its own
\* but one thread that locks stdout twice.
LEMMA TangledStep ==
  ASSUME FlagTypes, Apart, Nested, LocksSeparate, [Next]_vars
  PROVE  ~shared' => \A e \in Ends : tangled'[e] => e = "stdout" /\ SameThread(e)
<1> SUFFICES ASSUME ~shared', NEW e \in Ends, tangled'[e]
             PROVE  e = "stdout" /\ SameThread(e)
  OBVIOUS
<1>0. shared' = shared
  BY FlagSteps, PhaseSteps DEF flags
<1>1. \A h \in Handles : DescriptionOf(h) = EndOf[h]
  BY <1>0 DEF DescriptionOf, Description
<1>2. CASE tangled[e]
  BY <1>0, <1>2 DEF LocksSeparate
<1>3. CASE ~tangled[e]
  <2>0. PICK q \in Seq(Handles) : q = order[e]
    BY DEF FlagTypes
  <2>1. \A k \in 1 .. Len(q) : q[k] \in Handles /\ EndOf[q[k]] = e /\ Holds(q[k])
    BY <1>1, <1>3, <2>0 DEF Nested, Stack, InUse, Holds
  <2>2. ASSUME NEW h \in Handles, Lock(h)
        PROVE  e = "stdout" /\ SameThread(e)
    <3>1. e = EndOf[h] /\ phase[h] = "new" /\ \E g \in Range(q) : phase[g] = "prepared"
      BY <1>1, <1>3, <2>0, <2>2 DEF Lock, FlagTypes
    <3>2. PICK k \in 1 .. Len(q) : phase[q[k]] = "prepared"
      BY <3>1 DEF Range
    <3>3. q[k] \in Others(h)
      BY <2>1, <3>1, <3>2 DEF Others
    <3>4. e = "stdout" /\ ThreadOf[q[k]] = ThreadOf[h]
      BY <2>2, <3>1, <3>3 DEF Lock, StdinFree, StdoutFree
    <3> QED
      BY <2>1, <3>1, <3>3, <3>4 DEF SameThread, Others
  <2>3. ASSUME NEW h \in Handles, SetNonBlock(h) \/ Restores(h)
        PROVE  e = "stdout" /\ SameThread(e)
    <3>1. InUse(h) /\ Release(h)
      BY <1>3, <2>3 DEF SetNonBlock, Restores, Restore, InUse
    <3>2. e = EndOf[h] /\ h # Last(q)
      BY <1>1, <1>3, <2>0, <3>1 DEF Release, FlagTypes
    <3>3. \E k \in 1 .. Len(q) : q[k] = h
      BY <1>1, <1>3, <2>0, <3>1, <3>2 DEF Nested, Stack
    <3>4. q # <<>>
      BY <3>3
    <3>5. Len(q) \in 1 .. Len(q) /\ q[Len(q)] # h
      <4>1. Len(q) \in Nat \ {0} /\ Last(q) = q[Len(q)]
        BY <3>4, FrontElements
      <4> QED
        BY <3>2, <4>1
    <3>6. q[Len(q)] \in Handles /\ EndOf[q[Len(q)]] = e /\ Holds(q[Len(q)]) /\ Holds(h)
      BY <2>1, <3>1, <3>5 DEF Holds, InUse
    <3> QED
      BY <3>2, <3>5, <3>6 DEF Apart, SameThread
  <2>4. ASSUME NEW h \in Handles, Unlock(h) \/ Enters(h)
        PROVE  FALSE
    BY <1>3, <2>4 DEF Unlock, Enters
  <2> QED
    BY <1>3, <2>2, <2>3, <2>4, FlagSteps DEF flags
<1> QED
  BY <1>2, <1>3

\* Both halves of LocksSeparate.
LEMMA LocksSeparateStep ==
  ASSUME FlagTypes, FlagTypes', Apart, Nested, LocksSeparate, [Next]_vars
  PROVE  LocksSeparate'
<1>1. Apart'
  BY ApartStep
<1>2. \A h \in Handles : phase'[h] \notin {"new", "gone"} => Holds(h)'
  BY DEF FlagTypes, Phases, Holds
<1>3. ~shared' => \A e \in Ends : tangled'[e] => e = "stdout" /\ SameThread(e)
  BY TangledStep
<1> QED
  BY <1>1, <1>2, <1>3 DEF LocksSeparate, Apart, SameThread

\* What the steps do to the AsyncFd of an end: nothing, unless they drop it,
\* register it, poll it, or come from the driver or the other process.
LEMMA IoSteps ==
  ASSUME FlagTypes, [Next]_vars
  PROVE  \/ /\ UNCHANGED <<io, avail, hung>>
            /\ \A g \in Handles : phase'[g] = "async" <=> phase[g] = "async"
         \/ \E h \in Handles : Drop(h) \/ (Enters(h) /\ Register(h)) \/ PollIo(h)
         \/ \E e \in Ends : Drive(e) \/ Supply(e) \/ HangUp(e)
<1>1. ASSUME NEW h \in Handles, Lock(h) \/ SetNonBlock(h) \/ Unlock(h)
      PROVE  /\ UNCHANGED <<io, avail, hung>>
             /\ \A g \in Handles : phase'[g] = "async" <=> phase[g] = "async"
  BY <1>1 DEF Lock, SetNonBlock, Unlock, FlagTypes
<1>2. ASSUME NEW h \in Handles, Register(h)
      PROVE  \/ /\ UNCHANGED <<io, avail, hung>>
                /\ \A g \in Handles : phase'[g] = "async" <=> phase[g] = "async"
             \/ Enters(h)
  BY <1>2 DEF Register, Restore, Enters, FlagTypes
<1>3. CASE UNCHANGED vars
  BY <1>3 DEF vars, flags
<1>4. CASE \E h \in Handles : Use(h)
  BY <1>1, <1>2, <1>4 DEF Use
<1>5. CASE \E e \in Ends : Drive(e) \/ Supply(e) \/ HangUp(e)
  BY <1>5
<1> QED
  BY <1>3, <1>4, <1>5 DEF Next

\* An end keeps at most one registration, and an end without one is idle.
LEMMA OneEachStep ==
  ASSUME FlagTypes, IoTypes, OneEach, [Next]_vars
  PROVE  OneEach'
<1>1. CASE /\ UNCHANGED <<io, avail, hung>>
           /\ \A g \in Handles : phase'[g] = "async" <=> phase[g] = "async"
  BY <1>1 DEF OneEach, Registered, io
<1>2. ASSUME NEW h \in Handles, Drop(h)
      PROVE  OneEach'
  <2>1. phase'[h] = "restored" /\ \A g \in Handles \ {h} : phase'[g] = phase[g]
    BY <1>2 DEF Drop, Restore, FlagTypes
  <2>0. \/ task' = task /\ phase[h] # "async"
        \/ task' = [task EXCEPT ![EndOf[h]] = "idle"]
    BY <1>2 DEF Drop, Deregister, io
  <2>2. \A e \in Ends : task'[e] = task[e] \/ (e = EndOf[h] /\ task'[e] = "idle")
    BY <2>0 DEF IoTypes
  <2>3. phase[h] = "async" => task'[EndOf[h]] = "idle"
    BY <2>0, DescriptionIsEnd DEF IoTypes
  <2>4. \A e \in Ends : ~Registered(e)' => ~Registered(e) \/ (e = EndOf[h] /\ phase[h] = "async")
    BY <2>1 DEF Registered
  <2> QED
    BY <2>1, <2>2, <2>3, <2>4 DEF OneEach
<1>3. ASSUME NEW h \in Handles, Enters(h), Register(h)
      PROVE  OneEach'
  <2>1. phase'[h] = "async" /\ \A g \in Handles \ {h} : phase'[g] = phase[g]
    BY <1>3 DEF Enters, FlagTypes
  <2>2. \A g \in Handles : EndOf[g] = EndOf[h] => phase[g] # "async"
    BY <1>3 DEF Enters, Registered
  <2>3. task' = task
    BY <1>3, <2>1 DEF Register, Restore, FlagTypes
  <2>4. \A e \in Ends : ~Registered(e)' => ~Registered(e)
    BY <2>1 DEF Registered
  <2> QED
    BY <2>1, <2>2, <2>3, <2>4 DEF OneEach
<1>4. ASSUME NEW h \in Handles, PollIo(h)
      PROVE  OneEach'
  <2>1. UNCHANGED phase /\ phase[h] = "async"
    BY <1>4, PollSteps DEF PollReady, ReadOnce, WriteOnce, WouldBlock, Unblock, Clear, SetTask, flags
  <2>2. \A e \in Ends : e # EndOf[h] => task'[e] = task[e]
    BY <1>4, PollSteps
    DEF PollReady, ReadOnce, WriteOnce, WouldBlock, Unblock, Clear, SetTask, IoTypes
  <2> QED
    BY <2>1, <2>2 DEF OneEach, Registered
<1>5. ASSUME NEW e \in Ends, Drive(e) \/ Supply(e) \/ HangUp(e)
      PROVE  OneEach'
  <2>1. UNCHANGED phase
    BY <1>5 DEF Drive, Supply, HangUp, flags
  <2>2. \A d \in Ends : task[d] = "idle" => task'[d] = "idle"
    BY <1>5 DEF Drive, Supply, HangUp, IoTypes
  <2> QED
    BY <2>1, <2>2 DEF OneEach, Registered
<1> QED
  BY <1>1, <1>2, <1>3, <1>4, <1>5, IoSteps

\* A system call only sleeps where the flag is not set, and while they nest it
\* is set as long as an AsyncFd is there.
LEMMA NeverBlocksStep ==
  ASSUME FlagTypes, IoTypes, Nested, OneEach, NeverBlocks, [Next]_vars
  PROVE  NeverBlocks'
<1> SUFFICES ASSUME NEW e \in Ends, Registered(e)', task'[e] = "blocked"
             PROVE  tangled'[Description(e)']
  BY DEF NeverBlocks, Registered, Description
<1>0. Description(e)' = Description(e) /\ Description(e) \in Ends
  BY FlagSteps, PhaseSteps DEF flags, Description, Ends
<1>1. \A d \in Ends : tangled[d] => tangled'[d]
  <2>1. ASSUME NEW h \in Handles, Lock(h)
        PROVE  \A d \in Ends : tangled[d] => tangled'[d]
    BY <2>1 DEF Lock, FlagTypes
  <2>2. ASSUME NEW h \in Handles, Release(h)
        PROVE  \A d \in Ends : tangled[d] => tangled'[d]
    BY <2>2 DEF Release, FlagTypes
  <2> QED
    BY <2>1, <2>2, FlagSteps DEF SetNonBlock, Unlock, Restores, Restore, Enters, flags
<1>2. Registered(e) /\ task[e] = "blocked" => tangled'[Description(e)']
  BY <1>0, <1>1 DEF NeverBlocks
<1>3. CASE /\ UNCHANGED <<io, avail, hung>>
           /\ \A g \in Handles : phase'[g] = "async" <=> phase[g] = "async"
  BY <1>2, <1>3 DEF io, Registered
<1>4. ASSUME NEW h \in Handles, Drop(h)
      PROVE  tangled'[Description(e)']
  <2>1. \A g \in Handles : phase'[g] = "async" => phase[g] = "async"
    BY <1>4 DEF Drop, Restore, FlagTypes
  <2>2. task' = task \/ task' = [task EXCEPT ![EndOf[h]] = "idle"]
    BY <1>4 DEF Drop, Deregister, io
  <2>3. task[e] = "blocked"
    BY <2>2 DEF IoTypes
  <2> QED
    BY <1>2, <2>1, <2>3 DEF Registered
<1>5. ASSUME NEW h \in Handles, Enters(h), Register(h)
      PROVE  tangled'[Description(e)']
  <2>1. phase'[h] = "async" /\ \A g \in Handles \ {h} : phase'[g] = phase[g]
    BY <1>5 DEF Enters, FlagTypes
  <2>2. task' = task
    BY <1>5, <2>1 DEF Register, Restore, FlagTypes
  <2>3. Registered(e)
    BY <2>2 DEF OneEach
  <2> QED
    BY <1>2, <2>2, <2>3
<1>6. ASSUME NEW h \in Handles, PollIo(h)
      PROVE  tangled'[Description(e)']
  <2>1. UNCHANGED flags /\ phase[h] = "async"
    BY <1>6, PollSteps DEF PollReady, ReadOnce, WriteOnce, WouldBlock, Unblock, Clear, SetTask
  <2>2. Registered(e)
    BY <2>1 DEF Registered, flags
  <2>3. CASE task[e] = "blocked"
    BY <1>2, <2>2, <2>3
  <2>4. CASE task[e] # "blocked"
    <3>1. EndOf[h] = e /\ ~nonblock[DescriptionOf(h)]
      BY <1>6, <2>4, PollSteps
      DEF PollReady, ReadOnce, WriteOnce, WouldBlock, Unblock, Clear, SetTask, IoTypes
    <3>2. DescriptionOf(h) = Description(e) /\ InUse(h)
      BY <2>1, <3>1 DEF DescriptionOf, InUse
    <3>3. Stack(Description(e)) => \E k \in 1 .. Len(order[Description(e)]) : order[Description(e)][k] = h
      BY <3>2 DEF Stack
    <3>4. Stack(Description(e)) => nonblock[Description(e)]
      BY <2>1, <3>3 DEF Stack
    <3>5. tangled[Description(e)]
      BY <1>0, <3>1, <3>2, <3>4 DEF Nested
    <3> QED
      BY <1>0, <1>1, <3>5
  <2> QED
    BY <2>3, <2>4
<1>7. ASSUME NEW d \in Ends, Drive(d) \/ Supply(d) \/ HangUp(d)
      PROVE  tangled'[Description(e)']
  <2>1. UNCHANGED phase
    BY <1>7 DEF Drive, Supply, HangUp, flags
  <2>2. task[e] = "blocked"
    BY <1>7 DEF Drive, Supply, HangUp, IoTypes
  <2> QED
    BY <1>2, <2>1, <2>2 DEF Registered
<1> QED
  BY <1>3, <1>4, <1>5, <1>6, <1>7, IoSteps

\* What NoLostReadiness says of one end.
Noticed(e) ==
    Registered(e) /\ (avail[e] > 0 \/ hung[e]) =>
        \/ edge[e]
        \/ ready[e] /\ task[e] # "parked" /\ (task[e] = "clearing" => stale[e])

\* The kernel, the driver and the poll hand the readiness of an end from one
\* to the next.
LEMMA NoticedStep ==
  ASSUME FlagTypes, IoTypes, PipeTypes, OneEach, NoLostReadiness, [Next]_vars
  PROVE  NoLostReadiness'
<1> USE StdioAssumption
<1> SUFFICES ASSUME NEW e \in Ends
             PROVE  Noticed(e)'
  BY DEF NoLostReadiness, Noticed
<1>0. Noticed(e)
  BY DEF NoLostReadiness, Noticed
<1>1. CASE /\ UNCHANGED <<io, avail, hung>>
           /\ \A g \in Handles : phase'[g] = "async" <=> phase[g] = "async"
  BY <1>0, <1>1 DEF io, Registered, Noticed
<1>2. ASSUME NEW h \in Handles, Drop(h)
      PROVE  Noticed(e)'
  <2>1. phase'[h] = "restored" /\ \A g \in Handles \ {h} : phase'[g] = phase[g]
    BY <1>2 DEF Drop, Restore, FlagTypes
  <2>2. CASE phase[h] = "async" /\ EndOf[h] = e
    BY <2>1, <2>2 DEF OneEach, Registered, Noticed
  <2>3. CASE ~(phase[h] = "async" /\ EndOf[h] = e)
    <3>1. Registered(e)' => Registered(e)
      BY <2>1 DEF Registered
    <3>2. /\ task'[e] = task[e] /\ ready'[e] = ready[e] /\ stale'[e] = stale[e] /\ edge'[e] = edge[e]
          /\ avail' = avail /\ hung' = hung
      BY <1>2, <2>3, DescriptionIsEnd DEF Drop, Deregister, io, IoTypes
    <3> QED
      BY <1>0, <3>1, <3>2 DEF Noticed
  <2> QED
    BY <2>2, <2>3
<1>3. ASSUME NEW h \in Handles, Enters(h), Register(h)
      PROVE  Noticed(e)'
  <2>1. phase'[h] = "async" /\ \A g \in Handles \ {h} : phase'[g] = phase[g]
    BY <1>3 DEF Enters, FlagTypes
  <2>2. /\ edge' = [edge EXCEPT ![EndOf[h]] = avail[EndOf[h]] > 0 \/ hung[EndOf[h]]]
        /\ UNCHANGED <<task, ready, stale, avail, hung>>
    BY <1>3, <2>1 DEF Register, Restore, FlagTypes
  <2>3. CASE e = EndOf[h]
    BY <2>2, <2>3 DEF IoTypes, Noticed
  <2>4. CASE e # EndOf[h]
    <3>1. Registered(e)' => Registered(e)
      BY <2>1, <2>4 DEF Registered
    <3>2. edge'[e] = edge[e]
      BY <2>2, <2>4 DEF IoTypes
    <3> QED
      BY <1>0, <2>2, <3>1, <3>2 DEF Noticed
  <2> QED
    BY <2>3, <2>4
<1>4. ASSUME NEW h \in Handles, PollIo(h)
      PROVE  Noticed(e)'
  <2>1. UNCHANGED phase
    BY <1>4, PollSteps DEF PollReady, ReadOnce, WriteOnce, WouldBlock, Unblock, Clear, SetTask, flags
  <2>2. Registered(e)' = Registered(e)
    BY <2>1 DEF Registered
  <2>3. EndOf[h] \in Ends
    BY DescriptionIsEnd
  <2>4. CASE PollReady(h)
    BY <1>0, <2>2, <2>3, <2>4 DEF PollReady, SetTask, IoTypes, Noticed
  <2>5. CASE ReadOnce(h) \/ WriteOnce(h)
    BY <1>0, <2>2, <2>3, <2>5 DEF ReadOnce, WriteOnce, SetTask, IoTypes, PipeTypes, Noticed
  <2>6. CASE WouldBlock(h) \/ Unblock(h)
    BY <1>0, <2>2, <2>3, <2>6 DEF WouldBlock, Unblock, SetTask, IoTypes, PipeTypes, Noticed
  <2>7. CASE Clear(h)
    BY <1>0, <2>2, <2>3, <2>7 DEF Clear, SetTask, IoTypes, Noticed
  <2> QED
    BY <1>4, <2>4, <2>5, <2>6, <2>7, PollSteps
<1>5. ASSUME NEW d \in Ends, Drive(d) \/ Supply(d) \/ HangUp(d)
      PROVE  Noticed(e)'
  <2>1. Registered(e)' = Registered(e)
    BY <1>5 DEF Drive, Supply, HangUp, flags, Registered
  <2>2. CASE Drive(d)
    BY <1>0, <2>1, <2>2 DEF Drive, IoTypes, Noticed
  <2>3. CASE Supply(d)
    <3>1. /\ UNCHANGED <<task, ready, stale, hung>> /\ ~hung[d]
          /\ d # e => avail'[e] = avail[e] /\ edge'[e] = edge[e]
          /\ edge[e] => edge'[e]
      BY <2>3 DEF Supply, IoTypes, PipeTypes
    <3>2. d = e /\ avail[e] = 0 => edge'[e]
      BY <2>3 DEF Supply, IoTypes
    <3>3. avail[e] \in Nat
      BY DEF PipeTypes
    <3> QED
      BY <1>0, <2>1, <3>1, <3>2, <3>3 DEF Noticed
  <2>4. CASE HangUp(d)
    BY <1>0, <2>1, <2>4 DEF HangUp, IoTypes, PipeTypes, Noticed
  <2> QED
    BY <1>5, <2>2, <2>3, <2>4
<1> QED
  BY <1>1, <1>2, <1>3, <1>4, <1>5, IoSteps

----------------------------------------------------------------------------
\* The invariant holds at first, and every step keeps it.
THEOREM Invariant == Spec => []IInv
<1> USE StdioAssumption
<1>1. Init => IInv
  <2> SUFFICES ASSUME Init
               PROVE  Apart /\ Nested /\ OneEach /\ LocksSeparate /\ NeverBlocks /\ NoLostReadiness
    BY InitTypes DEF IInv
  <2>1. \A h \in Handles : phase[h] = "new"
    BY DEF Init
  <2>2. \A e \in Ends :
            order[e] = <<>> /\ nonblock[e] = Inherited[e] /\ ~tangled[e] /\ task[e] = "idle"
    BY DEF Init
  <2>3. Apart /\ OneEach
    BY <2>1, <2>2 DEF Apart, OneEach, Holds
  <2>4. Nested
    BY <2>1, <2>2 DEF Nested, Stack, InUse
  <2>5. LocksSeparate /\ NeverBlocks /\ NoLostReadiness
    BY <2>1, <2>2 DEF LocksSeparate, NeverBlocks, NoLostReadiness, Registered
  <2> QED
    BY <2>3, <2>4, <2>5
<1>2. IInv /\ [Next]_vars => IInv'
  <2> SUFFICES ASSUME TypeOK, IInv, [Next]_vars
               PROVE  IInv'
    BY DEF IInv
  <2>1. FlagTypes /\ IoTypes /\ PipeTypes
    BY Types
  <2>2. TypeOK'
    BY <2>1, TypeStep DEF TypeOK, FlagTypes, IoTypes, PipeTypes
  <2>3. Apart' /\ Nested' /\ OneEach'
    BY <2>1, ApartStep, NestedStep, OneEachStep DEF IInv
  <2>4. NeverBlocks' /\ NoLostReadiness'
    BY <2>1, NeverBlocksStep, NoticedStep DEF IInv
  <2>5. FlagTypes'
    BY <2>2 DEF TypeOK, FlagTypes
  <2>6. LocksSeparate'
    BY <2>1, <2>5, LocksSeparateStep DEF IInv
  <2> QED
    BY <2>2, <2>3, <2>4, <2>6 DEF IInv
<1> QED
  BY <1>1, <1>2, PTL DEF Spec

\* While the handles of a description nest, O_NONBLOCK is what they need, and
\* as the process found it before and after them (NonBlocking).
THEOREM FlagsStayNested == Spec => []FlagsNest
<1>1. IInv => FlagsNest
  <2> SUFFICES ASSUME FlagTypes, Nested, NEW d \in Ends, ~tangled[d]
               PROVE  nonblock[d] = (Inherited[d] \/ \E h \in Range(order[d]) : phase[h] # "prepared")
    BY Types DEF IInv, FlagsNest
  <2>1. Stack(d)
    BY DEF Nested
  <2>2. (\E h \in Range(order[d]) : phase[h] # "prepared")
            <=> \E k \in 1 .. Len(order[d]) : phase[order[d][k]] # "prepared"
    BY DEF Range, FlagTypes
  <2> QED
    BY <2>1, <2>2 DEF Stack
<1> QED
  BY <1>1, Invariant, PTL

\* Two handles of one end are never locked by two threads, and on descriptions
\* of their own nothing but one thread that nests locks of stdout can tangle
\* the flags (StdinLock, StdoutLock).
THEOREM LocksStaySeparate == Spec => []LocksSeparate
<1>1. IInv => LocksSeparate
  BY DEF IInv
<1> QED
  BY <1>1, Invariant, PTL

\* While handles nest, no poll_read or poll_write sleeps in its system call.
THEOREM PollsNeverBlock == Spec => []NeverBlocks
<1>1. IInv => NeverBlocks
  BY DEF IInv
<1> QED
  BY <1>1, Invariant, PTL

\* Whatever the driver and the peer do between the steps of a poll, the
\* readiness of a registered end is not lost (poll_read and poll_write).
THEOREM NoReadinessIsLost == Spec => []NoLostReadiness
<1>1. IInv => NoLostReadiness
  BY DEF IInv
<1> QED
  BY <1>1, Invariant, PTL
=============================================================================
