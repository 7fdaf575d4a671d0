------------------------- MODULE Concurrency_proofs -------------------------
(***************************************************************************)
(* Proofs of the safety of the Concurrency middleware for every set of     *)
(* futures and ids, every limit and every choice of detached futures.      *)
(***************************************************************************)
EXTENDS Concurrency, FiniteSetTheorems, TLAPS

\* The typing of every variable is preserved by each operation of the
\* middleware (src/src/concurrency.rs) and each step of the drop glue.
THEOREM TypeCorrect == Spec => []TypeOK
<1>1. Init => TypeOK
  BY DEF Init, TypeOK, Stages, CallerStates
<1>2. TypeOK /\ [Next]_vars => TypeOK'
  <2> SUFFICES ASSUME TypeOK, [Next]_vars
               PROVE  TypeOK'
    OBVIOUS
  <2> USE DEF TypeOK, Stages, CallerStates
  <2>1. CASE PollReady \/ RegisterWaker \/ Recheck
    BY <2>1 DEF PollReady, RegisterWaker, Recheck
  <2>2. ASSUME NEW f \in Futures, NEW i \in Ids, NEW panics \in BOOLEAN,
               MayCall(f), Call(f, i, panics)
        PROVE  TypeOK'
    <3>1. AfterPurge \in [Ids -> Futures \cup {NoFuture}]
      BY DEF AfterPurge, Purged
    <3>2. ongoing' \in [Ids -> Futures \cup {NoFuture}]
      BY <2>2, <3>1 DEF Call, MayCall, Unused
    <3> QED
      BY <2>2, <3>2 DEF Call, MayCall, Unused
  <2>3. ASSUME NEW i \in Ids, Cancel(i)
        PROVE  TypeOK'
    BY <2>3 DEF Cancel
  <2>4. ASSUME NEW f \in Futures, Finish(f) \/ FinishCancelled(f) \/ Abandon(f)
        PROVE  TypeOK'
    BY <2>4 DEF Finish, FinishCancelled, Abandon
  <2>5. ASSUME NEW f \in Futures, Drop(f)
        PROVE  TypeOK'
    BY <2>5 DEF Drop, AbortHandleOnDrop, TakeWaker, Wake, ReturnToken
  <2>6. CASE UNCHANGED vars
    BY <2>6 DEF vars
  <2> QED
    BY <2>1, <2>2, <2>3, <2>4, <2>5, <2>6 DEF Next
<1> QED
  BY <1>1, <1>2, PTL DEF Spec

----------------------------------------------------------------------------
\* The tokens are counted by a natural number.
LEMMA TokensFinite ==
  IsFiniteSet(Tokens) /\ Cardinality(Tokens) \in Nat
<1>1. Tokens \in SUBSET Futures
  BY DEF Tokens
<1> QED
  BY <1>1, ConcurrencyAssumption, FS_Subset, FS_CardinalityType

\* The limit on concurrent requests holds with futures dropped by any thread
\* and with handlers that panic: `call` takes a token only after poll_ready
\* found one free, and nobody but the caller takes any.
THEOREM LimitIsRespected == Spec => []LimitRespected
<1>1. Init => LimitRespected
  <2> SUFFICES ASSUME Init
               PROVE  LimitRespected
    OBVIOUS
  <2>1. Tokens = {}
    BY DEF Init, Tokens
  <2> QED
    BY <2>1, FS_EmptySet, ConcurrencyAssumption DEF Init, LimitRespected
<1>2. TypeOK /\ LimitRespected /\ [Next]_vars => LimitRespected'
  <2> SUFFICES ASSUME TypeOK, LimitRespected, [Next]_vars
               PROVE  LimitRespected'
    OBVIOUS
  <2> USE ConcurrencyAssumption, TokensFinite
  <2>1. CASE PollReady \/ RegisterWaker \/ Recheck
    <3>1. Tokens' = Tokens
      BY <2>1 DEF PollReady, RegisterWaker, Recheck, Tokens
    <3> QED
      BY <2>1, <3>1 DEF PollReady, RegisterWaker, Recheck, LimitRespected, Full
  <2>2. ASSUME NEW f \in Futures, NEW i \in Ids, NEW panics \in BOOLEAN,
               MayCall(f), Call(f, i, panics)
        PROVE  LimitRespected'
    <3>1. Tokens' = Tokens \cup {f}
      BY <2>2 DEF Call, MayCall, Unused, Tokens, TypeOK
    <3>2. f \notin Tokens
      BY <2>2 DEF Call, MayCall, Unused, Tokens
    <3>3. Cardinality(Tokens') = Cardinality(Tokens) + 1
      BY <3>1, <3>2, FS_AddElement
    <3> QED
      BY <2>2, <3>3 DEF Call, MayCall, Unused, LimitRespected
  <2>3. ASSUME NEW i \in Ids, Cancel(i)
        PROVE  LimitRespected'
    BY <2>3 DEF Cancel, LimitRespected, Tokens
  <2>4. ASSUME NEW f \in Futures, Finish(f) \/ FinishCancelled(f) \/ Abandon(f)
        PROVE  LimitRespected'
    <3>1. Tokens' = Tokens
      BY <2>4 DEF Finish, FinishCancelled, Abandon, Tokens, TypeOK
    <3> QED
      BY <2>4, <3>1 DEF Finish, FinishCancelled, Abandon, LimitRespected
  <2>5. ASSUME NEW f \in Futures, AbortHandleOnDrop(f) \/ TakeWaker(f) \/ Wake(f)
        PROVE  LimitRespected'
    <3>1. Tokens' = Tokens
      BY <2>5 DEF AbortHandleOnDrop, TakeWaker, Wake, Tokens, TypeOK
    <3> QED
      BY <2>5, <3>1 DEF AbortHandleOnDrop, TakeWaker, Wake, LimitRespected
  <2>6. ASSUME NEW f \in Futures, ReturnToken(f)
        PROVE  LimitRespected'
    <3>1. Tokens' = Tokens \ {f}
      BY <2>6 DEF ReturnToken, Tokens, TypeOK
    <3>2. f \in Tokens
      BY <2>6 DEF ReturnToken, Tokens
    <3>3. Cardinality(Tokens') = Cardinality(Tokens) - 1
      BY <3>1, <3>2, FS_RemoveElement
    <3>4. Cardinality(Tokens') \in Int
      BY <3>3
    <3> QED
      BY <2>6, <3>3, <3>4 DEF ReturnToken, LimitRespected
  <2>7. CASE UNCHANGED vars
    BY <2>7 DEF vars, LimitRespected, Tokens
  <2> QED
    BY <2>1, <2>2, <2>3, <2>4, <2>5, <2>6, <2>7 DEF Next, Drop
<1> QED
  BY <1>1, <1>2, TypeCorrect, PTL DEF Spec

----------------------------------------------------------------------------
\* Every entry is filed under the id its future was called with.
OwnIds == \A i \in Ids : ongoing[i] # NoFuture => id[ongoing[i]] = i

\* It stays so: an entry goes with its future's id or before it.
LEMMA EntriesKeepIds == Spec => []OwnIds
<1>1. Init => OwnIds
  BY DEF Init, OwnIds
<1>2. TypeOK /\ OwnIds /\ [Next]_vars => OwnIds'
  <2> SUFFICES ASSUME TypeOK, OwnIds, [Next]_vars
               PROVE  OwnIds'
    OBVIOUS
  <2> USE ConcurrencyAssumption DEF TypeOK, OwnIds
  <2>1. CASE PollReady \/ RegisterWaker \/ Recheck
    BY <2>1 DEF PollReady, RegisterWaker, Recheck
  <2>2. ASSUME NEW f \in Futures, NEW i \in Ids, NEW panics \in BOOLEAN,
               MayCall(f), Call(f, i, panics)
        PROVE  OwnIds'
    <3>1. /\ AfterPurge \in [Ids -> Futures \cup {NoFuture}]
          /\ \A j \in Ids : AfterPurge[j] \in {ongoing[j], NoFuture}
      BY DEF AfterPurge, Purged
    <3>2. \A j \in Ids : ongoing'[j] = IF j = i THEN f ELSE AfterPurge[j]
      BY <2>2, <3>1 DEF Call, MayCall, Unused
    <3>3. \A g \in Futures : id'[g] = IF g = f THEN i ELSE id[g]
      BY <2>2 DEF Call, MayCall, Unused
    <3>4. \A j \in Ids : ongoing[j] # f
      BY <2>2 DEF Call, MayCall, Unused
    <3>5. ASSUME NEW j \in Ids, ongoing'[j] # NoFuture
          PROVE  id'[ongoing'[j]] = j
      <4>1. CASE j = i
        BY <4>1, <3>2, <3>3
      <4>2. CASE j # i
        <5>1. ongoing'[j] = ongoing[j] /\ ongoing[j] \in Futures
          BY <4>2, <3>1, <3>2, <3>5
        <5> QED
          BY <5>1, <3>3, <3>4, <3>5
      <4> QED
        BY <4>1, <4>2
    <3> QED
      BY <3>5
  <2>3. ASSUME NEW i \in Ids, Cancel(i)
        PROVE  OwnIds'
    BY <2>3 DEF Cancel
  <2>4. ASSUME NEW f \in Futures, Finish(f) \/ FinishCancelled(f) \/ Abandon(f)
        PROVE  OwnIds'
    BY <2>4 DEF Finish, FinishCancelled, Abandon
  <2>5. ASSUME NEW f \in Futures, Drop(f)
        PROVE  OwnIds'
    BY <2>5 DEF Drop, AbortHandleOnDrop, TakeWaker, Wake, ReturnToken
  <2>6. CASE UNCHANGED vars
    BY <2>6 DEF vars
  <2> QED
    BY <2>1, <2>2, <2>3, <2>4, <2>5, <2>6 DEF Next
<1> QED
  BY <1>1, <1>2, TypeCorrect, PTL DEF Spec

\* A map that files futures under their own ids has no more entries in use
\* than the set they are drawn from has members.
LEMMA EntriesInject ==
  ASSUME TypeOK, OwnIds, NEW D \in SUBSET Ids, NEW S \in SUBSET Futures,
         \A i \in D : ongoing[i] \in S
  PROVE  IsFiniteSet(D) /\ Cardinality(D) <= Cardinality(S)
<1> DEFINE owner == [i \in D |-> ongoing[i]]
<1>1. owner \in Injection(D, S)
  <2>1. owner \in [D -> S]
    OBVIOUS
  <2>2. ASSUME NEW i \in D, NEW j \in D, owner[i] = owner[j]
        PROVE  i = j
    <3>1. ongoing[i] = ongoing[j] /\ ongoing[i] # NoFuture /\ ongoing[j] # NoFuture
      BY <2>2, ConcurrencyAssumption
    <3> QED
      BY <3>1 DEF OwnIds
  <2> QED
    BY <2>1, <2>2 DEF Injection, IsInjective
<1>2. IsFiniteSet(S)
  BY ConcurrencyAssumption, FS_Subset
<1> QED
  BY <1>1, <1>2, FS_Injection

----------------------------------------------------------------------------
\* Without panics an entry whose handle is not aborted belongs to a future
\* that still holds a token: this is why the purge frees enough room.
EntriesHoldTokens ==
    \A i \in Ids :
        ongoing[i] # NoFuture /\ ongoing[i] \notin aborted
            => stage[ongoing[i]] \in {"live", "resolved"}

\* It stays so: resolving sets the flag before the token is given back.
LEMMA NoDeadEntries == ~CallMayPanic => (Spec => []EntriesHoldTokens)
<1> SUFFICES ASSUME ~CallMayPanic
             PROVE  Spec => []EntriesHoldTokens
  OBVIOUS
<1>1. Init => EntriesHoldTokens
  BY DEF Init, EntriesHoldTokens
<1>2. TypeOK /\ EntriesHoldTokens /\ [Next]_vars => EntriesHoldTokens'
  <2> SUFFICES ASSUME TypeOK, EntriesHoldTokens, [Next]_vars
               PROVE  EntriesHoldTokens'
    OBVIOUS
  <2> USE ConcurrencyAssumption DEF TypeOK, EntriesHoldTokens
  <2>1. CASE PollReady \/ RegisterWaker \/ Recheck
    BY <2>1 DEF PollReady, RegisterWaker, Recheck
  <2>2. ASSUME NEW f \in Futures, NEW i \in Ids, NEW panics \in BOOLEAN,
               MayCall(f), Call(f, i, panics)
        PROVE  EntriesHoldTokens'
    <3>1. /\ AfterPurge \in [Ids -> Futures \cup {NoFuture}]
          /\ \A j \in Ids : AfterPurge[j] \in {ongoing[j], NoFuture}
      BY DEF AfterPurge, Purged
    <3>2. \A j \in Ids : ongoing'[j] = IF j = i THEN f ELSE AfterPurge[j]
      BY <2>2, <3>1 DEF Call, MayCall, Unused
    <3>3. \A g \in Futures : stage'[g] = IF g = f THEN "live" ELSE stage[g]
      BY <2>2 DEF Call, MayCall, Unused
    <3>4. aborted' = aborted \ {f}
      BY <2>2 DEF Call, MayCall, Unused
    <3>5. ASSUME NEW j \in Ids, ongoing'[j] # NoFuture, ongoing'[j] \notin aborted'
          PROVE  stage'[ongoing'[j]] \in {"live", "resolved"}
      <4>1. CASE ongoing'[j] = f
        BY <4>1, <3>3
      <4>2. CASE ongoing'[j] # f
        <5>1. ongoing'[j] = ongoing[j] /\ ongoing[j] \in Futures
          BY <4>2, <3>1, <3>2, <3>5
        <5>2. ongoing[j] \notin aborted
          BY <5>1, <4>2, <3>4, <3>5
        <5> QED
          BY <5>1, <5>2, <4>2, <3>3
      <4> QED
        BY <4>1, <4>2
    <3> QED
      BY <3>5
  <2>3. ASSUME NEW i \in Ids, Cancel(i)
        PROVE  EntriesHoldTokens'
    BY <2>3 DEF Cancel
  <2>4. ASSUME NEW f \in Futures, Finish(f) \/ FinishCancelled(f) \/ Abandon(f)
        PROVE  EntriesHoldTokens'
    BY <2>4 DEF Finish, FinishCancelled, Abandon
  <2>5. ASSUME NEW f \in Futures, Drop(f)
        PROVE  EntriesHoldTokens'
    BY <2>5 DEF Drop, AbortHandleOnDrop, TakeWaker, Wake, ReturnToken
  <2>6. CASE UNCHANGED vars
    BY <2>6 DEF vars
  <2> QED
    BY <2>1, <2>2, <2>3, <2>4, <2>5, <2>6 DEF Next
<1> QED
  BY <1>1, <1>2, TypeCorrect, PTL DEF Spec

\* As long as no handler panics inside `call`, the ongoing map never holds
\* more than twice max_concurrency entries: at the threshold the purge leaves
\* at most the entries of futures that hold a token, of which there are fewer
\* than the limit when `call` runs.
THEOREM OngoingStaysBounded == ~CallMayPanic => (Spec => []OngoingBounded)
<1> SUFFICES ASSUME ~CallMayPanic
             PROVE  Spec => []OngoingBounded
  OBVIOUS
<1> USE ConcurrencyAssumption
<1>1. Init => OngoingBounded
  <2> SUFFICES ASSUME Init
               PROVE  OngoingBounded
    OBVIOUS
  <2>1. Entries = {}
    BY DEF Init, Entries
  <2> QED
    BY <2>1, FS_EmptySet DEF OngoingBounded
<1>2. /\ TypeOK /\ LimitRespected /\ OwnIds /\ EntriesHoldTokens /\ OngoingBounded
      /\ [Next]_vars
      => OngoingBounded'
  <2> SUFFICES ASSUME TypeOK, LimitRespected, OwnIds, EntriesHoldTokens,
                      OngoingBounded, [Next]_vars
               PROVE  OngoingBounded'
    OBVIOUS
  <2>1. IsFiniteSet(Entries) /\ Cardinality(Entries) \in Nat
    <3>1. \A i \in Entries : ongoing[i] \in Futures
      BY DEF Entries, TypeOK
    <3>2. Entries \in SUBSET Ids
      BY DEF Entries
    <3> QED
      BY <3>1, <3>2, EntriesInject, FS_CardinalityType
  <2>2. ASSUME NEW f \in Futures, NEW i \in Ids, NEW panics \in BOOLEAN,
               MayCall(f), Call(f, i, panics)
        PROVE  OngoingBounded'
    <3> DEFINE Kept == {j \in Ids : AfterPurge[j] # NoFuture}
    <3>1. /\ AfterPurge \in [Ids -> Futures \cup {NoFuture}]
          /\ \A j \in Ids : AfterPurge[j] \in {ongoing[j], NoFuture}
      BY DEF AfterPurge, Purged, TypeOK
    <3>2. \A j \in Ids : ongoing'[j] = IF j = i THEN f ELSE AfterPurge[j]
      BY <2>2, <3>1 DEF Call, MayCall, Unused
    <3>3. Entries' = Kept \cup {i}
      BY <3>2 DEF Entries
    <3>4. Kept \in SUBSET Entries
      BY <3>1 DEF Entries
    <3>5. IsFiniteSet(Kept) /\ Cardinality(Kept) \in Nat
      BY <2>1, <3>4, FS_Subset, FS_CardinalityType
    <3>6. Cardinality(Entries') <= Cardinality(Kept) + 1
      <4> HIDE DEF Kept
      <4>1. Cardinality(Kept \cup {i}) =
              IF i \in Kept THEN Cardinality(Kept) ELSE Cardinality(Kept) + 1
        BY <3>5, FS_AddElement
      <4> QED
        BY <4>1, <3>3, <3>5
    <3>7. Cardinality(Kept) < 2 * MaxConcurrency
      <4>1. CASE Cardinality(Entries) >= 2 * MaxConcurrency
        <5>1. AfterPurge = Purged
          BY <4>1 DEF AfterPurge
        <5>2. ASSUME NEW j \in Kept
              PROVE  ongoing[j] \in Tokens
          <6>1. ongoing[j] # NoFuture /\ ongoing[j] \notin aborted
            BY <5>1, <5>2 DEF Purged
          <6> QED
            BY <6>1 DEF EntriesHoldTokens, Tokens, TypeOK
        <5>3. Tokens \in SUBSET Futures /\ Kept \in SUBSET Ids
          BY DEF Tokens
        <5>4. Cardinality(Kept) <= Cardinality(Tokens)
          BY <5>2, <5>3, EntriesInject
        <5>5. Cardinality(Tokens) < MaxConcurrency
          BY <2>2 DEF Call, MayCall, Unused, LimitRespected
        <5> QED
          BY <5>4, <5>5, <3>5, TokensFinite
      <4>2. CASE ~(Cardinality(Entries) >= 2 * MaxConcurrency)
        <5>1. Cardinality(Kept) <= Cardinality(Entries)
          BY <2>1, <3>4, FS_Subset
        <5> QED
          BY <4>2, <5>1, <3>5, <2>1
      <4> QED
        BY <4>1, <4>2
    <3>8. Cardinality(Entries') \in Nat
      BY <3>3, <3>5, FS_AddElement, FS_CardinalityType
    <3> QED
      BY <3>5, <3>6, <3>7, <3>8 DEF OngoingBounded
  <2>3. ASSUME NEW i \in Ids, Cancel(i)
        PROVE  OngoingBounded'
    <3>1. Entries' \in SUBSET Entries
      BY <2>3 DEF Cancel, Entries, TypeOK
    <3>2. Cardinality(Entries') <= Cardinality(Entries) /\ Cardinality(Entries') \in Nat
      BY <3>1, <2>1, FS_Subset, FS_CardinalityType
    <3> QED
      BY <3>2, <2>1 DEF OngoingBounded
  <2>4. ASSUME UNCHANGED ongoing
        PROVE  OngoingBounded'
    BY <2>4 DEF OngoingBounded, Entries
  <2> QED
    BY <2>2, <2>3, <2>4
    DEF Next, vars, PollReady, RegisterWaker, Recheck, Finish, FinishCancelled,
        Abandon, Drop, AbortHandleOnDrop, TakeWaker, Wake, ReturnToken
<1> QED
  BY <1>1, <1>2, TypeCorrect, LimitIsRespected, EntriesKeepIds, NoDeadEntries, PTL
  DEF Spec

----------------------------------------------------------------------------
\* A running request that nobody cancelled and whose id nobody reused keeps its
\* entry through every purge, insertion and cancellation of other requests, so
\* a `$/cancelRequest` with its id reaches it.
THEOREM LiveStaysCancellable == Spec => []LiveIsCancellable
<1>1. Init => LiveIsCancellable
  BY DEF Init, LiveIsCancellable
<1>2. TypeOK /\ OwnIds /\ LiveIsCancellable /\ [Next]_vars => LiveIsCancellable'
  <2> SUFFICES ASSUME TypeOK, OwnIds, LiveIsCancellable, [Next]_vars
               PROVE  LiveIsCancellable'
    OBVIOUS
  <2> USE ConcurrencyAssumption DEF TypeOK, LiveIsCancellable
  <2>1. CASE PollReady \/ RegisterWaker \/ Recheck
    BY <2>1 DEF PollReady, RegisterWaker, Recheck
  <2>2. ASSUME NEW f \in Futures, NEW i \in Ids, NEW panics \in BOOLEAN,
               MayCall(f), Call(f, i, panics)
        PROVE  LiveIsCancellable'
    <3>1. /\ AfterPurge \in [Ids -> Futures \cup {NoFuture}]
          /\ \A j \in Ids : ongoing[j] \notin aborted => AfterPurge[j] = ongoing[j]
      BY DEF AfterPurge, Purged
    <3>2. \A j \in Ids : ongoing'[j] = IF j = i THEN f ELSE AfterPurge[j]
      BY <2>2, <3>1 DEF Call, MayCall, Unused
    <3>3. /\ \A g \in Futures : id'[g] = IF g = f THEN i ELSE id[g]
          /\ \A g \in Futures : g # f => stage'[g] = stage[g]
          /\ aborted' = aborted \ {f}
          /\ shadowed' = shadowed \cup {g \in Futures : stage[g] = "live" /\ id[g] = i}
      BY <2>2 DEF Call, MayCall, Unused
    <3>4. ASSUME NEW g \in Futures, stage'[g] = "live", g \notin aborted',
                 g \notin shadowed'
          PROVE  ongoing'[id'[g]] = g
      <4>1. CASE g = f
        BY <4>1, <3>2, <3>3
      <4>2. CASE g # f
        <5>1. stage[g] = "live" /\ g \notin aborted /\ g \notin shadowed
          BY <4>2, <3>3, <3>4
        <5>2. id'[g] = id[g] /\ id[g] # i /\ ongoing[id[g]] = g
          BY <4>2, <5>1, <3>3, <3>4
        <5> QED
          BY <5>1, <5>2, <3>1, <3>2
      <4> QED
        BY <4>1, <4>2
    <3> QED
      BY <3>4
  <2>3. ASSUME NEW i \in Ids, Cancel(i)
        PROVE  LiveIsCancellable'
    <3>1. /\ \A j \in Ids : ongoing'[j] = IF j = i THEN NoFuture ELSE ongoing[j]
          /\ aborted' = aborted \cup {ongoing[i]}
          /\ UNCHANGED <<stage, id, shadowed>>
      BY <2>3 DEF Cancel
    <3> QED
      BY <3>1
  <2>4. ASSUME NEW f \in Futures, Finish(f) \/ FinishCancelled(f) \/ Abandon(f)
        PROVE  LiveIsCancellable'
    <3>1. /\ stage' = [stage EXCEPT ![f] = "resolved"]
          /\ shadowed' = shadowed \ {f}
          /\ UNCHANGED <<id, aborted, ongoing>>
      BY <2>4 DEF Finish, FinishCancelled, Abandon
    <3> QED
      BY <3>1
  <2>5. ASSUME NEW f \in Futures, Drop(f)
        PROVE  LiveIsCancellable'
    BY <2>5 DEF Drop, AbortHandleOnDrop, TakeWaker, Wake, ReturnToken
  <2>6. CASE UNCHANGED vars
    BY <2>6 DEF vars
  <2> QED
    BY <2>1, <2>2, <2>3, <2>4, <2>5, <2>6 DEF Next
<1> QED
  BY <1>1, <1>2, TypeCorrect, EntriesKeepIds, PTL DEF Spec

----------------------------------------------------------------------------
\* While poll_ready runs in the task that also owns every future, no drop glue
\* runs, and a waker once registered is still there at the second check.
PollReadyAlone ==
    /\ InPollReady => \A f \in Futures : ~Dropping(f)
    /\ caller = "registered" => waker

\* It stays so when every future lives in the task that polls.
LEMMA NothingDropsInPollReady == Detached = {} => (Spec => []PollReadyAlone)
<1> SUFFICES ASSUME Detached = {}
             PROVE  Spec => []PollReadyAlone
  OBVIOUS
<1>1. Init => PollReadyAlone
  BY DEF Init, PollReadyAlone, InPollReady
<1>2. TypeOK /\ PollReadyAlone /\ [Next]_vars => PollReadyAlone'
  <2> SUFFICES ASSUME TypeOK, PollReadyAlone, [Next]_vars
               PROVE  PollReadyAlone'
    OBVIOUS
  <2> USE DEF TypeOK, PollReadyAlone, InPollReady, Dropping
  <2>1. CASE (CallerFree /\ PollReady) \/ RegisterWaker \/ Recheck
    BY <2>1 DEF PollReady, RegisterWaker, Recheck, CallerFree, InDropGlue
  <2>2. ASSUME NEW f \in Futures, NEW i \in Ids, NEW panics \in BOOLEAN,
               MayCall(f), Call(f, i, panics)
        PROVE  PollReadyAlone'
    BY <2>2 DEF Call, MayCall, Unused
  <2>3. ASSUME NEW i \in Ids, Cancel(i)
        PROVE  PollReadyAlone'
    BY <2>3 DEF Cancel
  <2>4. ASSUME NEW f \in Futures, DriverFree(f),
               Finish(f) \/ FinishCancelled(f) \/ Abandon(f) \/ Drop(f)
        PROVE  PollReadyAlone'
    BY <2>4 DEF Finish, FinishCancelled, Abandon, Drop, AbortHandleOnDrop,
                TakeWaker, Wake, ReturnToken, DriverFree
  <2>5. CASE UNCHANGED vars
    BY <2>5 DEF vars
  <2> QED
    BY <2>1, <2>2, <2>3, <2>4, <2>5 DEF Next
<1> QED
  BY <1>1, <1>2, TypeCorrect, PTL DEF Spec

\* When every future lives in the caller's own task, as the main loop keeps
\* them, a parked poll_ready always has somebody left who will wake it, although
\* SemaphoreGuard::drop wakes before its token is returned.
THEOREM NoWakeupIsLost == Detached = {} => (Spec => []NoLostWakeup)
<1> SUFFICES ASSUME Detached = {}
             PROVE  Spec => []NoLostWakeup
  OBVIOUS
<1>1. Init => NoLostWakeup
  BY DEF Init, NoLostWakeup
<1>2. TypeOK /\ PollReadyAlone /\ NoLostWakeup /\ [Next]_vars => NoLostWakeup'
  <2> SUFFICES ASSUME TypeOK, PollReadyAlone, NoLostWakeup, [Next]_vars
               PROVE  NoLostWakeup'
    OBVIOUS
  <2> USE DEF TypeOK, NoLostWakeup
  <2>1. CASE PollReady
    BY <2>1 DEF PollReady
  <2>2. CASE RegisterWaker
    BY <2>2 DEF RegisterWaker
  <2>3. CASE Recheck
    <3>1. CASE Full
      <4>1. Tokens # {}
        BY <3>1, ConcurrencyAssumption, FS_EmptySet DEF Full
      <4>2. PICK f \in Futures : stage[f] # "none"
        BY <4>1 DEF Tokens
      <4>3. stage[f] = "live" /\ waker
        BY <2>3, <4>2 DEF Recheck, PollReadyAlone, InPollReady, Dropping, Stages
      <4> QED
        BY <2>3, <4>3 DEF Recheck
    <3>2. CASE ~Full
      BY <2>3, <3>2 DEF Recheck
    <3> QED
      BY <3>1, <3>2
  <2>4. ASSUME NEW f \in Futures, NEW i \in Ids, NEW panics \in BOOLEAN,
               MayCall(f), Call(f, i, panics)
        PROVE  NoLostWakeup'
    BY <2>4 DEF Call, MayCall, Unused
  <2>5. ASSUME NEW i \in Ids, Cancel(i)
        PROVE  NoLostWakeup'
    BY <2>5 DEF Cancel
  <2>6. ASSUME NEW f \in Futures,
               Finish(f) \/ FinishCancelled(f) \/ Abandon(f) \/ AbortHandleOnDrop(f)
        PROVE  NoLostWakeup'
    BY <2>6 DEF Finish, FinishCancelled, Abandon, AbortHandleOnDrop
  <2>7. ASSUME NEW f \in Futures, TakeWaker(f)
        PROVE  NoLostWakeup'
    BY <2>7 DEF TakeWaker
  <2>8. ASSUME NEW f \in Futures, Wake(f) \/ ReturnToken(f)
        PROVE  NoLostWakeup'
    BY <2>8 DEF Wake, ReturnToken
  <2>9. CASE UNCHANGED vars
    BY <2>9 DEF vars
  <2> QED
    BY <2>1, <2>2, <2>3, <2>4, <2>5, <2>6, <2>7, <2>8, <2>9 DEF Next, Drop
<1> QED
  BY <1>1, <1>2, TypeCorrect, NothingDropsInPollReady, PTL DEF Spec
============================================================================
