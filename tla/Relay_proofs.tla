---------------------------- MODULE Relay_proofs ----------------------------
(***************************************************************************)
(* Proofs about Relay, for any numbers of requests and notifications, any  *)
(* capacity of the pipes and either peer closing its streams at any time.  *)
(***************************************************************************)
EXTENDS Relay, SequenceTheorems, TLAPS

Requests == [kind : {"request"}, id : Nat, at : Nat]
Notices == [kind : {"notification"}, at : Nat]
Responses == [kind : {"response"}, id : Nat, for : Nat \cup {None}, at : Nat]
Calls == Requests \cup Notices
Messages == Calls \cup Responses

IsCall(m) == m.kind # "response"
IsRequest(m) == m.kind = "request"
IsResponse(m) == m.kind = "response"

Of(q) == {q[k] : k \in 1 .. Len(q)}
CallsIn(S) == {m.at : m \in {x \in S : IsCall(x)}}
ResponseIds(S) == {m.id : m \in {x \in S : IsResponse(x)}}

----------------------------------------------------------------------------
(***************************************************************************)
(* What travels to the peer of loop s: from the other peer all of it goes  *)
(* through Coming, then the calls through rx of s, the responses through   *)
(* the answers of s, and all of it through Past.                           *)
(***************************************************************************)
Past(s) == got[s] \o (out[s] \o (sink[s] \o held[s]))
Coming(s) == inp[Other(s)] \o sending[Other(s)]

TypeOK ==
    /\ pc \in [Sides -> {"select", "feed", "close", "returned", "panicked"}]
    /\ rx \in [Sides -> Seq(Calls)]
    /\ tasks \in [Sides -> SUBSET Nat]
    /\ answers \in [Sides -> SUBSET Responses]
    /\ outgoing \in [Sides -> [Ids -> Nat \cup {None}]]
    /\ outgoing_id \in [Sides -> Nat]
    /\ held \in [Sides -> Seq(Messages)] /\ sink \in [Sides -> Seq(Messages)]
    /\ inp \in [Sides -> Seq(Messages)] /\ out \in [Sides -> Seq(Messages)]
    /\ sending \in [Sides -> Seq(Messages)] /\ got \in [Sides -> Seq(Messages)]
    /\ sent \in [Sides -> Seq(Calls)]
    /\ asked \in [Sides -> Nat] /\ answered \in [Sides -> SUBSET Nat]
    /\ heard \in [Sides -> Seq(Nat)]

\* Only a loop in `feed` has a message in hand, its sink holds one at most, and
\* a loop that is gone has left nothing behind.
AtMostOne(q) == q = <<>> \/ q = <<Head(q)>>
Slots(s) ==
    /\ pc[s] # "feed" => held[s] = <<>>
    /\ AtMostOne(held[s]) /\ AtMostOne(sink[s])
Dropped(s) ==
    Gone(s) =>
        /\ rx[s] = <<>> /\ sink[s] = <<>> /\ held[s] = <<>>
        /\ tasks[s] = {} /\ answers[s] = {}
        /\ outgoing[s] = [n \in Ids |-> None]

\* A peer makes as many calls as it may, and they are ranked as it makes them.
Log(s) ==
    /\ asked[s] <= Asks[s] /\ Len(sent[s]) <= asked[s] + Notifies[s]
    /\ asked[s] <= Len(sent[s])
    /\ \A k \in 1 .. Len(sent[s]) : sent[s][k].at = k

----------------------------------------------------------------------------
(***************************************************************************)
(* Order.  P, R, C and A stand for Past, rx, Coming and the answers of a   *)
(* loop.                                                                   *)
(***************************************************************************)
\* n may come after m: what comes after a call was sent after it.
Behind(m, n) == IsCall(m) /\ (IsResponse(n) => n.for # None) => m.at < n.at
Fits(m, n) == Behind(m, n) /\ (IsRequest(m) /\ IsRequest(n) => m.id < n.id)
Sorted(q) == \A j, k \in 1 .. Len(q) : j < k => Fits(q[j], q[k])

Ordered(P, R, C, A) ==
    /\ Sorted(P) /\ Sorted(R) /\ Sorted(C)
    /\ \A m \in Of(P) : \A n \in Of(R) \cup Of(C) \cup A : Behind(m, n)
    /\ \A m \in Of(R) : \A n \in Of(C) : Fits(m, n)

\* Of the n calls made none is missing, unless the loop is gone, and then what
\* passed the loop is still without a gap.
Complete(P, R, C, n, gone) ==
    /\ ~gone => 1 .. n \subseteq CallsIn(Of(P) \cup Of(R) \cup Of(C))
    /\ \A a \in CallsIn(Of(P)) : 1 .. a \subseteq CallsIn(Of(P))

Heard(s) ==
    /\ \A k \in 1 .. Len(heard[s]) : heard[s][k] = k
    /\ CallsIn(Of(got[s])) = 1 .. Len(heard[s])

\* A call on its way was made, S being the calls made, and keeps its id until
\* the loop gives it another.
Genuine(P, R, C, S) ==
    /\ \A m \in Of(P) : IsCall(m) => m.at \in 1 .. Len(S) /\ S[m.at].kind = m.kind
    /\ \A m \in Of(R) \cup Of(C) : IsCall(m) => m.at \in 1 .. Len(S) /\ S[m.at] = m

----------------------------------------------------------------------------
(***************************************************************************)
(* Ids.  A peer numbers its requests, and so does the loop that passes     *)
(* them on.                                                                *)
(***************************************************************************)
Numbered(P, R, C, n, next) ==
    /\ next <= n
    /\ \A m \in Of(P) : IsRequest(m) => m.id < next
    /\ \A m \in Of(R) \cup Of(C) : IsRequest(m) => next < m.id /\ m.id <= n

\* What a peer is still to ask has none of the ids in T.
Fresh(T, C, n) ==
    \A i \in T : i <= n /\ \A m \in Of(C) : IsRequest(m) => i < m.id
Taken(s) == tasks[s] \cup ResponseIds(Of(Past(s)))

\* The oneshot filed under an id belongs to the request passed on with that id.
Filed(O, P, S) ==
    \A n \in Ids : O[n] # None =>
        \E m \in Of(P) : IsRequest(m) /\ m.id = n /\ S[m.at].id = O[n]

\* A peer answers what it read.
Replies(C, G) ==
    \A r \in Of(C) : IsResponse(r) =>
        r.for # None /\ \E m \in Of(G) : IsRequest(m) /\ m.id = r.id /\ m.at = r.for

\* A response goes to the request with its id, or the other loop is gone.
Right(r, S, gone) ==
    IF r.for = None THEN gone
    ELSE r.for \in 1 .. Len(S) /\ IsRequest(S[r.for]) /\ S[r.for].id = r.id

\* One answer at most comes for a request, T being those without a response.
Distinct(q) ==
    \A j, k \in 1 .. Len(q) : j < k /\ IsResponse(q[j]) /\ IsResponse(q[k]) => q[j].id # q[k].id
Once(A, T, P) ==
    /\ \A a \in A : a.id \in T
    /\ \A a, b \in A : a.id = b.id => a = b
    /\ \A m \in Of(P) : IsResponse(m) => m.id \notin T
    /\ Distinct(P)

\* The oneshots in a loop, of which U are not resolved, are for requests apart.
Apart(O, R, U) ==
    /\ \A n \in Ids : O[n] # None => O[n] \in U
    /\ \A n, p \in Ids : O[n] # None /\ O[n] = O[p] => n = p
    /\ \A m \in Of(R) : IsRequest(m) => m.id \in U /\ \A n \in Ids : O[n] # m.id

----------------------------------------------------------------------------
Order(s) == Ordered(Past(s), rx[s], Coming(s), answers[s])
Whole(s) == Complete(Past(s), rx[s], Coming(s), Len(sent[Other(s)]), Gone(s))
Sources(s) == Genuine(Past(s), rx[s], Coming(s), sent[Other(s)])
Numbers(s) == Numbered(Past(s), rx[s], Coming(s), asked[Other(s)], outgoing_id[s])
News(s) == Fresh(Taken(s), Coming(Other(s)), asked[s])
Files(s) == Filed(outgoing[s], Past(s), sent[Other(s)])
Replied(s) == Replies(Coming(s), got[Other(s)])
Rights(s) ==
    /\ \A a \in answers[s] : Right(a, sent[s], Gone(Other(s)))
    /\ \A m \in Of(Past(s)) : IsResponse(m) => Right(m, sent[s], Gone(Other(s)))
Single(s) == Once(answers[s], tasks[s], Past(s))
Oneshots(s) == ~Gone(Other(s)) => Apart(outgoing[s], rx[s], Unanswered(Other(s)))

Side(s) ==
    /\ Slots(s) /\ Dropped(s) /\ Log(s) /\ Order(s) /\ Whole(s) /\ Heard(s) /\ Sources(s)
    /\ Numbers(s) /\ News(s) /\ Files(s) /\ Replied(s) /\ Rights(s) /\ Single(s) /\ Oneshots(s)

IInv == TypeOK /\ \A s \in Sides : Side(s)

----------------------------------------------------------------------------
(***************************************************************************)
(* Sequences and what is in them.                                          *)
(***************************************************************************)
\* The fields of the messages.
LEMMA MessageFields ==
  ASSUME NEW m \in Messages
  PROVE  /\ m.at \in Nat
         /\ IsRequest(m) => IsCall(m) /\ m \in Requests /\ m.id \in Nat
         /\ IsCall(m) => m \in Calls
         /\ IsResponse(m) => m \in Responses /\ m.id \in Nat /\ m.for \in Nat \cup {None}
         /\ IsCall(m) <=> ~IsResponse(m)
         /\ m.kind = "notification" => m \in Notices /\ IsCall(m) /\ ~IsRequest(m)
  BY DEF Messages, Calls, Requests, Notices, Responses, IsCall, IsRequest, IsResponse

\* A message that is followed by nothing.
LEMMA OfOne ==
  ASSUME NEW m
  PROVE  Of(<<m>>) = {m} /\ Of(<<>>) = {}
  BY DEF Of

\* Appending adds an element.
LEMMA OfAppend ==
  ASSUME NEW S, NEW q \in Seq(S), NEW m \in S
  PROVE  Of(Append(q, m)) = Of(q) \cup {m}
  <1>1. /\ Len(Append(q, m)) = Len(q) + 1 /\ Len(q) \in Nat
        /\ \A k \in 1 .. Len(q) : Append(q, m)[k] = q[k]
        /\ Append(q, m)[Len(q) + 1] = m
    OBVIOUS
  <1>2. ASSUME NEW x \in Of(Append(q, m)) PROVE x \in Of(q) \cup {m}
    <2>1. PICK k \in 1 .. Len(q) + 1 : x = Append(q, m)[k]
      BY <1>1, <1>2 DEF Of
    <2>2. CASE k = Len(q) + 1
      BY <1>1, <2>1, <2>2
    <2>3. CASE k \in 1 .. Len(q)
      BY <1>1, <2>1, <2>3 DEF Of
    <2> QED BY <1>1, <2>2, <2>3
  <1>3. m \in Of(Append(q, m))
    <2>1. Len(q) + 1 \in 1 .. Len(Append(q, m))
      BY <1>1
    <2> QED BY <1>1, <2>1 DEF Of
  <1>4. ASSUME NEW x \in Of(q) PROVE x \in Of(Append(q, m))
    <2>1. PICK k \in 1 .. Len(q) : x = q[k]
      BY <1>4 DEF Of
    <2>2. k \in 1 .. Len(Append(q, m)) /\ x = Append(q, m)[k]
      BY <1>1, <2>1
    <2> QED BY <2>2 DEF Of
  <1> QED BY <1>2, <1>3, <1>4

\* The elements are the first one and those of the rest.
LEMMA OfTail ==
  ASSUME NEW S, NEW q \in Seq(S), q # <<>>
  PROVE  /\ Tail(q) \in Seq(S) /\ Head(q) \in S
         /\ Of(q) = {Head(q)} \cup Of(Tail(q))
  <1>1. /\ Len(q) \in Nat \ {0} /\ Head(q) = q[1] /\ Head(q) \in S
        /\ Tail(q) \in Seq(S) /\ Len(Tail(q)) = Len(q) - 1
        /\ \A k \in 1 .. Len(q) - 1 : Tail(q)[k] = q[k + 1]
    OBVIOUS
  <1>2. ASSUME NEW x \in Of(q) PROVE x \in {Head(q)} \cup Of(Tail(q))
    <2>1. PICK k \in 1 .. Len(q) : x = q[k]
      BY <1>2 DEF Of
    <2>2. CASE k = 1
      BY <1>1, <2>1, <2>2
    <2>3. CASE k # 1
      <3>1. k - 1 \in 1 .. Len(Tail(q)) /\ (k - 1) + 1 = k
        BY <1>1, <2>3
      <3>2. Tail(q)[k - 1] = x
        BY <1>1, <2>1, <3>1
      <3> QED BY <3>1, <3>2 DEF Of
    <2> QED BY <2>2, <2>3
  <1>3. Head(q) \in Of(q)
    BY <1>1 DEF Of
  <1>4. ASSUME NEW x \in Of(Tail(q)) PROVE x \in Of(q)
    <2>1. PICK k \in 1 .. Len(Tail(q)) : x = Tail(q)[k]
      BY <1>4 DEF Of
    <2>2. k + 1 \in 1 .. Len(q) /\ x = q[k + 1]
      BY <1>1, <2>1
    <2> QED BY <2>2 DEF Of
  <1> QED BY <1>1, <1>2, <1>3, <1>4

\* The elements of two sequences one after the other.
LEMMA OfConcat ==
  ASSUME NEW S, NEW q \in Seq(S), NEW r \in Seq(S)
  PROVE  Of(q \o r) = Of(q) \cup Of(r) /\ q \o r \in Seq(S)
  <1>1. /\ q \o r \in Seq(S) /\ Len(q \o r) = Len(q) + Len(r)
        /\ Len(q) \in Nat /\ Len(r) \in Nat
        /\ \A k \in 1 .. Len(q) : (q \o r)[k] = q[k]
        /\ \A k \in 1 .. Len(r) : (q \o r)[Len(q) + k] = r[k]
    OBVIOUS
  <1>2. ASSUME NEW x \in Of(q \o r) PROVE x \in Of(q) \cup Of(r)
    <2>1. PICK k \in 1 .. Len(q) + Len(r) : x = (q \o r)[k]
      BY <1>1, <1>2 DEF Of
    <2>2. CASE k \in 1 .. Len(q)
      BY <1>1, <2>1, <2>2 DEF Of
    <2>3. CASE k \notin 1 .. Len(q)
      <3>1. k - Len(q) \in 1 .. Len(r) /\ Len(q) + (k - Len(q)) = k
        BY <1>1, <2>3
      <3>2. r[k - Len(q)] = x
        BY <1>1, <2>1, <3>1
      <3> QED BY <3>1, <3>2 DEF Of
    <2> QED BY <2>2, <2>3
  <1>3. ASSUME NEW x \in Of(q) PROVE x \in Of(q \o r)
    <2>1. PICK k \in 1 .. Len(q) : x = q[k]
      BY <1>3 DEF Of
    <2>2. k \in 1 .. Len(q \o r) /\ x = (q \o r)[k]
      BY <1>1, <2>1
    <2> QED BY <2>2 DEF Of
  <1>4. ASSUME NEW x \in Of(r) PROVE x \in Of(q \o r)
    <2>1. PICK k \in 1 .. Len(r) : x = r[k]
      BY <1>4 DEF Of
    <2>2. Len(q) + k \in 1 .. Len(q \o r) /\ x = (q \o r)[Len(q) + k]
      BY <1>1, <2>1
    <2> QED BY <2>2 DEF Of
  <1> QED BY <1>1, <1>2, <1>3, <1>4

\* What is in a sequence of messages is a message.
LEMMA OfMessages ==
  ASSUME NEW S, NEW q \in Seq(S)
  PROVE  \A m \in Of(q) : m \in S
  BY DEF Of

\* A sequence stays sorted when what is appended fits all of it.
LEMMA SortedAppend ==
  ASSUME NEW S, NEW q \in Seq(S), NEW m \in S,
         Sorted(q), \A x \in Of(q) : Fits(x, m)
  PROVE  Sorted(Append(q, m))
  <1>1. /\ Len(Append(q, m)) = Len(q) + 1 /\ Len(q) \in Nat
        /\ \A k \in 1 .. Len(q) : Append(q, m)[k] = q[k]
        /\ Append(q, m)[Len(q) + 1] = m
    OBVIOUS
  <1>2. ASSUME NEW j \in 1 .. Len(q) + 1, NEW k \in 1 .. Len(q) + 1, j < k
        PROVE  Fits(Append(q, m)[j], Append(q, m)[k])
    <2>1. j \in 1 .. Len(q)
      BY <1>1, <1>2
    <2>2. CASE k \in 1 .. Len(q)
      BY <1>1, <1>2, <2>1, <2>2 DEF Sorted
    <2>3. CASE k = Len(q) + 1
      <3>1. q[j] \in Of(q)
        BY <2>1 DEF Of
      <3> QED BY <1>1, <2>1, <2>3, <3>1
    <2> QED BY <1>1, <2>2, <2>3
  <1> QED BY <1>1, <1>2 DEF Sorted

\* The rest of a sorted sequence is sorted and fits the first element.
LEMMA SortedTail ==
  ASSUME NEW S, NEW q \in Seq(S), q # <<>>, Sorted(q)
  PROVE  Sorted(Tail(q)) /\ \A x \in Of(Tail(q)) : Fits(Head(q), x)
  <1>1. /\ Len(q) \in Nat \ {0} /\ Head(q) = q[1]
        /\ Len(Tail(q)) = Len(q) - 1
        /\ \A k \in 1 .. Len(q) - 1 : Tail(q)[k] = q[k + 1]
    OBVIOUS
  <1>2. Sorted(Tail(q))
    <2> SUFFICES ASSUME NEW j \in 1 .. Len(q) - 1, NEW k \in 1 .. Len(q) - 1, j < k
                 PROVE  Fits(Tail(q)[j], Tail(q)[k])
      BY <1>1 DEF Sorted
    <2>1. j + 1 \in 1 .. Len(q) /\ k + 1 \in 1 .. Len(q) /\ j + 1 < k + 1
      BY <1>1
    <2>2. Fits(q[j + 1], q[k + 1])
      BY <2>1 DEF Sorted
    <2> QED BY <1>1, <2>2
  <1>3. ASSUME NEW x \in Of(Tail(q)) PROVE Fits(Head(q), x)
    <2>1. PICK k \in 1 .. Len(q) - 1 : x = Tail(q)[k]
      BY <1>1, <1>3 DEF Of
    <2>2. 1 \in 1 .. Len(q) /\ k + 1 \in 1 .. Len(q) /\ 1 < k + 1
      BY <1>1
    <2>3. Fits(q[1], q[k + 1])
      BY <2>2 DEF Sorted
    <2> QED BY <1>1, <2>1, <2>3
  <1> QED BY <1>2, <1>3

\* Of two sequences that are sorted together, the first is sorted and the
\* second fits it.
LEMMA SortedConcat ==
  ASSUME NEW S, NEW q \in Seq(S), NEW r \in Seq(S), Sorted(q \o r)
  PROVE  Sorted(q) /\ \A x \in Of(q) : \A y \in Of(r) : Fits(x, y)
  <1>1. /\ Len(q \o r) = Len(q) + Len(r)
        /\ Len(q) \in Nat /\ Len(r) \in Nat
        /\ \A k \in 1 .. Len(q) : (q \o r)[k] = q[k]
        /\ \A k \in 1 .. Len(r) : (q \o r)[Len(q) + k] = r[k]
    OBVIOUS
  <1>2. Sorted(q)
    <2> SUFFICES ASSUME NEW j \in 1 .. Len(q), NEW k \in 1 .. Len(q), j < k
                 PROVE  Fits(q[j], q[k])
      BY DEF Sorted
    <2>1. j \in 1 .. Len(q \o r) /\ k \in 1 .. Len(q \o r)
      BY <1>1
    <2>2. Fits((q \o r)[j], (q \o r)[k])
      BY <2>1 DEF Sorted
    <2> QED BY <1>1, <2>2
  <1>3. ASSUME NEW x \in Of(q), NEW y \in Of(r) PROVE Fits(x, y)
    <2>1. PICK j \in 1 .. Len(q) : x = q[j]
      BY <1>3 DEF Of
    <2>2. PICK k \in 1 .. Len(r) : y = r[k]
      BY <1>3 DEF Of
    <2>3. j \in 1 .. Len(q \o r) /\ Len(q) + k \in 1 .. Len(q \o r) /\ j < Len(q) + k
      BY <1>1
    <2>4. Fits((q \o r)[j], (q \o r)[Len(q) + k])
      BY <2>3 DEF Sorted
    <2> QED BY <1>1, <2>1, <2>2, <2>4
  <1> QED BY <1>2, <1>3

\* Responses keep distinct ids when the one appended has another.
LEMMA DistinctAppend ==
  ASSUME NEW S, NEW q \in Seq(S), NEW m \in S, Distinct(q),
         IsResponse(m) => \A x \in Of(q) : IsResponse(x) => x.id # m.id
  PROVE  Distinct(Append(q, m))
  <1>1. /\ Len(Append(q, m)) = Len(q) + 1 /\ Len(q) \in Nat
        /\ \A k \in 1 .. Len(q) : Append(q, m)[k] = q[k]
        /\ Append(q, m)[Len(q) + 1] = m
    OBVIOUS
  <1> DEFINE r == Append(q, m)
  <1>2. ASSUME NEW j \in 1 .. Len(q) + 1, NEW k \in 1 .. Len(q) + 1, j < k,
               IsResponse(r[j]), IsResponse(r[k])
        PROVE  r[j].id # r[k].id
    <2>1. j \in 1 .. Len(q)
      BY <1>1, <1>2
    <2>2. CASE k \in 1 .. Len(q)
      BY <1>1, <1>2, <2>1, <2>2 DEF Distinct
    <2>3. CASE k = Len(q) + 1
      <3>1. q[j] \in Of(q)
        BY <2>1 DEF Of
      <3> QED BY <1>1, <1>2, <2>1, <2>3, <3>1
    <2> QED BY <1>1, <2>2, <2>3
  <1> QED BY <1>1, <1>2 DEF Distinct

\* So they do when only the first of two sequences is kept.
LEMMA DistinctConcat ==
  ASSUME NEW S, NEW q \in Seq(S), NEW r \in Seq(S), Distinct(q \o r)
  PROVE  Distinct(q)
  <1>1. /\ Len(q \o r) = Len(q) + Len(r)
        /\ Len(q) \in Nat /\ Len(r) \in Nat
        /\ \A k \in 1 .. Len(q) : (q \o r)[k] = q[k]
    OBVIOUS
  <1> SUFFICES ASSUME NEW j \in 1 .. Len(q), NEW k \in 1 .. Len(q), j < k,
                      IsResponse(q[j]), IsResponse(q[k])
               PROVE  q[j].id # q[k].id
    BY DEF Distinct
  <1>2. j \in 1 .. Len(q \o r) /\ k \in 1 .. Len(q \o r)
    BY <1>1
  <1> QED BY <1>1, <1>2 DEF Distinct

----------------------------------------------------------------------------
(***************************************************************************)
(* Each conjunct and what the steps do to it: a loop writes an answer or   *)
(* passes on a call, reads a message, ends; a peer sends one.              *)
(***************************************************************************)
\* Nothing in a sequence that is empty, or of one.
LEMMA SortedOne ==
    Sorted(<<>>) /\ \A m : Sorted(<<m>>)
  BY DEF Sorted

\* An answer may be written after all that was.
LEMMA OrderedAnswer ==
  ASSUME NEW P \in Seq(Messages), NEW R \in Seq(Calls), NEW C \in Seq(Messages),
         NEW A \in SUBSET Responses, Ordered(P, R, C, A),
         NEW a \in A, NEW B \in SUBSET A
  PROVE  Ordered(Append(P, a), R, C, B)
  <1>1. a \in Messages /\ IsResponse(a)
    BY DEF Messages, Responses, IsResponse
  <1>2. ~IsCall(a) /\ ~IsRequest(a)
    BY <1>1, MessageFields
  <1>3. \A x \in Of(P) : Fits(x, a)
    BY <1>2 DEF Ordered, Fits
  <1>4. Sorted(Append(P, a))
    BY <1>1, <1>3, SortedAppend DEF Ordered
  <1>5. \A n : Behind(a, n)
    BY <1>2 DEF Behind
  <1>6. Of(Append(P, a)) = Of(P) \cup {a}
    BY <1>1, OfAppend
  <1> QED BY <1>4, <1>5, <1>6 DEF Ordered

\* A call may be written, under its new id, when no answer is waiting.
LEMMA OrderedCall ==
  ASSUME NEW P \in Seq(Messages), NEW R \in Seq(Calls), NEW C \in Seq(Messages),
         Ordered(P, R, C, {}), R # <<>>,
         NEW m \in Calls, m.at = Head(R).at,
         IsRequest(m) => \A x \in Of(P) : IsRequest(x) => x.id < m.id
  PROVE  Ordered(Append(P, m), Tail(R), C, {})
  <1> DEFINE h == Head(R)
  <1>1. h \in Calls /\ Tail(R) \in Seq(Calls) /\ Of(R) = {h} \cup Of(Tail(R))
    BY OfTail
  <1>2. m \in Messages /\ IsCall(m) /\ IsCall(h)
    BY <1>1 DEF Messages, Calls, Requests, Notices, IsCall
  <1>3. Sorted(Tail(R)) /\ \A n \in Of(Tail(R)) : Fits(h, n)
    BY SortedTail DEF Ordered
  <1>4. \A x \in Of(P) : Fits(x, m)
    <2> SUFFICES ASSUME NEW x \in Of(P) PROVE Fits(x, m)
      OBVIOUS
    <2>1. Behind(x, h)
      BY <1>1 DEF Ordered
    <2>2. ~IsResponse(h) /\ ~IsResponse(m)
      BY <1>2 DEF IsCall, IsResponse
    <2>3. Behind(x, m)
      BY <2>1, <2>2 DEF Behind
    <2> QED BY <2>3 DEF Fits
  <1>5. Sorted(Append(P, m))
    BY <1>2, <1>4, SortedAppend DEF Ordered
  <1>6. \A n \in Of(Tail(R)) \cup Of(C) : Behind(m, n)
    <2>1. \A n \in Of(C) : Fits(h, n)
      BY <1>1 DEF Ordered
    <2>2. \A n \in Of(Tail(R)) \cup Of(C) : Behind(h, n)
      BY <1>3, <2>1 DEF Fits
    <2> QED BY <1>2, <2>2 DEF Behind
  <1>7. Of(Append(P, m)) = Of(P) \cup {m}
    BY <1>2, OfAppend
  <1> HIDE DEF h
  <1>8. \A x \in Of(Append(P, m)) : \A n \in Of(Tail(R)) \cup Of(C) : Behind(x, n)
    BY <1>1, <1>6, <1>7 DEF Ordered
  <1>9. \A x \in Of(Tail(R)) : \A n \in Of(C) : Fits(x, n)
    BY <1>1 DEF Ordered
  <1> QED BY <1>3, <1>5, <1>8, <1>9 DEF Ordered

\* A message that is read: a call goes to rx, a response to the answers.
LEMMA OrderedReceive ==
  ASSUME NEW P \in Seq(Messages), NEW R \in Seq(Calls), NEW C \in Seq(Messages),
         NEW A \in SUBSET Responses, Ordered(P, R, C, A), C # <<>>
  PROVE  /\ Ordered(P, R, Tail(C), A)
         /\ IsCall(Head(C)) => Ordered(P, Append(R, Head(C)), Tail(C), A)
         /\ \A r \in Responses : IsResponse(Head(C)) /\ Head(C).for # None /\ r.at = Head(C).at
              => Ordered(P, R, Tail(C), A \cup {r})
  <1> DEFINE h == Head(C)
             D == Tail(C)
  <1>1. h \in Messages /\ D \in Seq(Messages) /\ Of(C) = {h} \cup Of(D)
    BY OfTail
  <1>2. Sorted(D) /\ \A n \in Of(D) : Fits(h, n)
    BY SortedTail DEF Ordered
  <1> HIDE DEF h, D
  <1>3. Ordered(P, R, D, A)
    BY <1>1, <1>2 DEF Ordered
  <1>4. ASSUME IsCall(h) PROVE Ordered(P, Append(R, h), D, A)
    <2>1. h \in Calls
      BY <1>1, <1>4, MessageFields
    <2>2. Of(Append(R, h)) = Of(R) \cup {h}
      BY <2>1, OfAppend
    <2>3. Sorted(Append(R, h))
      <3>1. \A x \in Of(R) : Fits(x, h)
        BY <1>1 DEF Ordered
      <3> QED BY <2>1, <3>1, SortedAppend DEF Ordered
    <2> QED BY <1>1, <1>2, <2>2, <2>3 DEF Ordered
  <1>5. ASSUME NEW r \in Responses, IsResponse(h), h.for # None, r.at = h.at
        PROVE  Ordered(P, R, D, A \cup {r})
    <2>1. \A x \in Of(P) : Behind(x, h)
      BY <1>1 DEF Ordered
    <2>2. \A x \in Of(P) : Behind(x, r)
      BY <1>5, <2>1 DEF Behind
    <2> QED BY <1>3, <2>2 DEF Ordered
  <1> QED BY <1>3, <1>4, <1>5 DEF h, D

\* The errors of futures whose oneshot is closed stand in no order.
LEMMA OrderedStopped ==
  ASSUME NEW P \in Seq(Messages), NEW R \in Seq(Calls), NEW C \in Seq(Messages),
         NEW A \in SUBSET Responses, Ordered(P, R, C, A),
         NEW B, \A b \in B : IsResponse(b) /\ b.for = None
  PROVE  Ordered(P, R, C, A \cup B)
  <1>1. \A x : \A b \in B : Behind(x, b)
    BY DEF Behind
  <1> QED BY <1>1 DEF Ordered

\* What a peer sends was made after the calls on their way.
LEMMA OrderedSend ==
  ASSUME NEW P \in Seq(Messages), NEW R \in Seq(Calls), NEW C \in Seq(Messages),
         NEW A \in SUBSET Responses, Ordered(P, R, C, A),
         NEW m \in Messages,
         \A x \in Of(P) \cup Of(R) \cup Of(C) : IsCall(x) => x.at < m.at,
         IsRequest(m) => \A x \in Of(R) \cup Of(C) : IsRequest(x) => x.id < m.id
  PROVE  Ordered(P, R, Append(C, m), A)
  <1>1. \A x \in Of(P) \cup Of(R) \cup Of(C) : Behind(x, m)
    BY DEF Behind
  <1>2. \A x \in Of(R) \cup Of(C) : Fits(x, m)
    BY <1>1 DEF Fits
  <1>3. Sorted(Append(C, m))
    BY <1>2, SortedAppend DEF Ordered
  <1>4. Of(Append(C, m)) = Of(C) \cup {m}
    BY OfAppend
  <1> QED BY <1>1, <1>2, <1>3, <1>4 DEF Ordered

\* The end of a loop takes what is in its sink, its rx and its answers.
LEMMA OrderedEnd ==
  ASSUME NEW P \in Seq(Messages), NEW Q \in Seq(Messages), NEW R \in Seq(Calls),
         NEW C \in Seq(Messages), NEW A, Ordered(P \o Q, R, C, A)
  PROVE  Ordered(P, <<>>, C, {})
  <1>1. Sorted(P)
    BY SortedConcat DEF Ordered
  <1>2. Of(P \o Q) = Of(P) \cup Of(Q)
    BY OfConcat
  <1>3. Of(<<>>) = {}
    BY OfOne
  <1> QED BY <1>1, <1>2, <1>3, SortedOne DEF Ordered

\* A part of a sequence without gaps that was cut off has none.
LEMMA CompleteEnd ==
  ASSUME NEW P \in Seq(Messages), NEW Q \in Seq(Messages), NEW R, NEW C, NEW A, NEW S,
         Ordered(P \o Q, R, C, A), NEW n, NEW gone, Complete(P \o Q, R, C, n, gone)
  PROVE  Complete(P, S, C, n, TRUE)
  <1>1. Of(P \o Q) = Of(P) \cup Of(Q)
    BY OfConcat
  <1>2. \A x \in Of(P) : \A y \in Of(Q) : Fits(x, y)
    BY SortedConcat DEF Ordered
  <1> SUFFICES ASSUME NEW a \in CallsIn(Of(P)), NEW b \in 1 .. a
               PROVE  b \in CallsIn(Of(P))
    BY DEF Complete
  <1>3. PICK x \in Of(P) : IsCall(x) /\ x.at = a
    BY DEF CallsIn
  <1>4. a \in CallsIn(Of(P \o Q)) /\ a \in Nat
    BY <1>1, <1>3, OfMessages, MessageFields DEF CallsIn
  <1>5. b \in CallsIn(Of(P \o Q))
    BY <1>4 DEF Complete
  <1>6. PICK y \in Of(P \o Q) : IsCall(y) /\ y.at = b
    BY <1>5 DEF CallsIn
  <1>7. CASE y \in Of(Q)
    <2>1. x.at < y.at
      <3>1. ~IsResponse(y)
        BY <1>6 DEF IsCall, IsResponse
      <3> QED BY <1>2, <1>3, <1>7, <3>1 DEF Fits, Behind
    <2> QED BY <1>3, <1>4, <1>6, <2>1
  <1>8. CASE y \in Of(P)
    BY <1>6, <1>8 DEF CallsIn
  <1> QED BY <1>1, <1>7, <1>8

\* A call that is passed on is the next one.
LEMMA CompleteCall ==
  ASSUME NEW P \in Seq(Messages), NEW R \in Seq(Calls), NEW C \in Seq(Messages),
         NEW A, Ordered(P, R, C, A), NEW n \in Nat, Complete(P, R, C, n, FALSE),
         R # <<>>, Head(R).at <= n, NEW m \in Calls, m.at = Head(R).at
  PROVE  Complete(Append(P, m), Tail(R), C, n, FALSE)
  <1> DEFINE h == Head(R)
  <1>1. h \in Calls /\ Tail(R) \in Seq(Calls) /\ Of(R) = {h} \cup Of(Tail(R))
    BY OfTail
  <1>2. m \in Messages /\ IsCall(m) /\ IsCall(h) /\ h \in Messages
    BY <1>1 DEF Messages, Calls, Requests, Notices, IsCall
  <1>3. \A x \in Of(Tail(R)) \cup Of(C) : Fits(h, x)
    BY <1>1, SortedTail DEF Ordered
  <1>4. Of(Append(P, m)) = Of(P) \cup {m} /\ h.at \in Nat
    BY <1>2, OfAppend, MessageFields
  <1> HIDE DEF h
  <1>5. CallsIn(Of(Append(P, m))) = CallsIn(Of(P)) \cup {h.at}
    BY <1>2, <1>4 DEF CallsIn, h
  <1>6. CallsIn(Of(P) \cup Of(R) \cup Of(C))
          \subseteq CallsIn(Of(Append(P, m)) \cup Of(Tail(R)) \cup Of(C))
    BY <1>1, <1>2, <1>4 DEF CallsIn, h
  <1>7. ASSUME NEW b \in 1 .. h.at, b # h.at PROVE b \in CallsIn(Of(P))
    <2>1. b \in 1 .. n /\ b < h.at
      BY <1>4, <1>7 DEF h
    <2>2. b \in CallsIn(Of(P) \cup Of(R) \cup Of(C))
      BY <2>1 DEF Complete
    <2>3. PICK x \in Of(P) \cup Of(R) \cup Of(C) : IsCall(x) /\ x.at = b
      BY <2>2 DEF CallsIn
    <2>4. ASSUME x \in Of(Tail(R)) \cup Of(C) PROVE FALSE
      <3>1. ~IsResponse(x)
        BY <2>3 DEF IsCall, IsResponse
      <3>2. h.at < x.at
        BY <1>2, <1>3, <2>4, <3>1 DEF Fits, Behind
      <3> QED BY <1>4, <2>1, <2>3, <3>2
    <2>5. x # h
      BY <1>4, <2>1, <2>3
    <2>6. x \in Of(P)
      BY <1>1, <2>4, <2>5
    <2> QED BY <2>3, <2>6 DEF CallsIn
  <1>8. ASSUME NEW a \in CallsIn(Of(Append(P, m))), NEW b \in 1 .. a
        PROVE  b \in CallsIn(Of(Append(P, m)))
    <2>1. CASE a \in CallsIn(Of(P))
      BY <1>5, <2>1 DEF Complete
    <2>2. CASE a = h.at
      BY <1>5, <1>7, <2>2
    <2> QED BY <1>5, <1>8, <2>1, <2>2
  <1> QED BY <1>6, <1>8 DEF Complete

\* The ranks of the calls in a union.
LEMMA CallsInUnion ==
  ASSUME NEW S, NEW T
  PROVE  CallsIn(S \cup T) = CallsIn(S) \cup CallsIn(T)
  BY DEF CallsIn

\* What may happen to the rest while no call is passed on.
LEMMA CompleteKept ==
  ASSUME NEW P, NEW R, NEW C, NEW n, NEW gone, Complete(P, R, C, n, gone),
         NEW Q, NEW S, NEW D, CallsIn(Of(Q)) = CallsIn(Of(P)),
         ~gone => CallsIn(Of(P) \cup Of(R) \cup Of(C)) \subseteq CallsIn(Of(Q) \cup Of(S) \cup Of(D))
  PROVE  Complete(Q, S, D, n, gone)
  BY DEF Complete

\* A response is not among the calls.
LEMMA CompleteAnswer ==
  ASSUME NEW P \in Seq(Messages), NEW R, NEW C, NEW n, NEW gone,
         Complete(P, R, C, n, gone), NEW a \in Messages, IsResponse(a)
  PROVE  Complete(Append(P, a), R, C, n, gone)
  <1>1. Of(Append(P, a)) = Of(P) \cup {a}
    BY OfAppend
  <1>2. CallsIn({a}) = {}
    BY DEF CallsIn, IsCall, IsResponse
  <1>3. CallsIn(Of(Append(P, a))) = CallsIn(Of(P))
    <2>1. CallsIn(Of(P) \cup {a}) = CallsIn(Of(P)) \cup CallsIn({a})
      BY CallsInUnion
    <2> QED BY <1>1, <1>2, <2>1
  <1>4. CallsIn(Of(P) \cup Of(R) \cup Of(C)) \subseteq CallsIn(Of(Append(P, a)) \cup Of(R) \cup Of(C))
    BY <1>1 DEF CallsIn
  <1> QED BY <1>3, <1>4, CompleteKept

\* A message that is read: a call goes to rx, unless the loop is gone.
LEMMA CompleteReceive ==
  ASSUME NEW P, NEW R \in Seq(Calls), NEW C \in Seq(Messages), NEW n, NEW gone,
         Complete(P, R, C, n, gone), C # <<>>
  PROVE  /\ gone \/ IsResponse(Head(C)) => Complete(P, R, Tail(C), n, gone)
         /\ IsCall(Head(C)) => Complete(P, Append(R, Head(C)), Tail(C), n, gone)
  <1> DEFINE h == Head(C)
             D == Tail(C)
  <1>1. h \in Messages /\ Of(C) = {h} \cup Of(D)
    BY OfTail
  <1> HIDE DEF h, D
  <1>2. ASSUME gone \/ IsResponse(h) PROVE Complete(P, R, D, n, gone)
    <2>1. IsResponse(h) => ~IsCall(h)
      BY DEF IsResponse, IsCall
    <2>2. ~gone => CallsIn(Of(P) \cup Of(R) \cup Of(C)) \subseteq CallsIn(Of(P) \cup Of(R) \cup Of(D))
      BY <1>1, <1>2, <2>1 DEF CallsIn
    <2> QED BY <2>2, CompleteKept
  <1>3. ASSUME IsCall(h) PROVE Complete(P, Append(R, h), D, n, gone)
    <2>1. h \in Calls
      BY <1>1, <1>3, MessageFields
    <2>2. Of(Append(R, h)) = Of(R) \cup {h}
      BY <2>1, OfAppend
    <2>3. CallsIn(Of(P) \cup Of(R) \cup Of(C)) \subseteq CallsIn(Of(P) \cup Of(Append(R, h)) \cup Of(D))
      BY <1>1, <2>2 DEF CallsIn
    <2> QED BY <2>3, CompleteKept
  <1> QED BY <1>2, <1>3 DEF h, D

\* A message that is sent, one more call or a response.
LEMMA CompleteSend ==
  ASSUME NEW P, NEW R, NEW C \in Seq(Messages), NEW n \in Nat, NEW gone,
         Complete(P, R, C, n, gone), NEW m \in Messages
  PROVE  /\ Complete(P, R, Append(C, m), n, gone)
         /\ IsCall(m) /\ m.at = n + 1 => Complete(P, R, Append(C, m), n + 1, gone)
  <1>1. Of(Append(C, m)) = Of(C) \cup {m}
    BY OfAppend
  <1>2. CallsIn(Of(P) \cup Of(R) \cup Of(C)) \subseteq CallsIn(Of(P) \cup Of(R) \cup Of(Append(C, m)))
    BY <1>1 DEF CallsIn
  <1>3. Complete(P, R, Append(C, m), n, gone)
    BY <1>2, CompleteKept
  <1>4. ASSUME IsCall(m), m.at = n + 1 PROVE Complete(P, R, Append(C, m), n + 1, gone)
    <2>1. n + 1 \in CallsIn(Of(P) \cup Of(R) \cup Of(Append(C, m)))
      BY <1>1, <1>4 DEF CallsIn
    <2>2. 1 .. n + 1 = (1 .. n) \cup {n + 1}
      OBVIOUS
    <2> QED BY <1>3, <2>1, <2>2 DEF Complete
  <1> QED BY <1>3, <1>4

\* The calls of a peer, before and after one more.
LEMMA CallAppended ==
  ASSUME NEW S \in Seq(Calls), NEW m \in Calls
  PROVE  /\ Append(S, m) \in Seq(Calls) /\ Len(S) \in Nat /\ Len(Append(S, m)) = Len(S) + 1
         /\ \A k \in 1 .. Len(S) : k \in 1 .. Len(Append(S, m)) /\ Append(S, m)[k] = S[k]
         /\ Append(S, m)[Len(S) + 1] = m
  OBVIOUS

\* What is on its way was made also when more is.
LEMMA GenuineMore ==
  ASSUME NEW P, NEW R, NEW C, NEW S \in Seq(Calls), NEW m \in Calls, Genuine(P, R, C, S)
  PROVE  Genuine(P, R, C, Append(S, m))
  <1> DEFINE T == Append(S, m)
  <1>1. \A k \in 1 .. Len(S) : k \in 1 .. Len(T) /\ T[k] = S[k]
    BY CallAppended
  <1> HIDE DEF T
  <1>2. Genuine(P, R, C, T)
    BY <1>1 DEF Genuine
  <1> QED BY <1>2 DEF T

\* The same of a call that is sent.
LEMMA GenuineSend ==
  ASSUME NEW P, NEW R, NEW C \in Seq(Messages), NEW S, NEW m \in Messages, Genuine(P, R, C, S),
         IsCall(m) => m.at \in 1 .. Len(S) /\ S[m.at] = m
  PROVE  Genuine(P, R, Append(C, m), S)
  <1>1. Of(Append(C, m)) = Of(C) \cup {m}
    BY OfAppend
  <1> QED BY <1>1 DEF Genuine

\* The same when a call is passed on under a new id, or an answer is written.
LEMMA GenuineWrite ==
  ASSUME NEW P \in Seq(Messages), NEW R \in Seq(Calls), NEW C, NEW S, Genuine(P, R, C, S),
         NEW m \in Messages
  PROVE  /\ IsResponse(m) => Genuine(Append(P, m), R, C, S)
         /\ R # <<>> /\ m.at = Head(R).at /\ m.kind = Head(R).kind
              => Genuine(Append(P, m), Tail(R), C, S)
  <1>1. Of(Append(P, m)) = Of(P) \cup {m}
    BY OfAppend
  <1>2. ASSUME IsResponse(m) PROVE Genuine(Append(P, m), R, C, S)
    BY <1>1, <1>2, MessageFields DEF Genuine
  <1>3. ASSUME R # <<>>, m.at = Head(R).at, m.kind = Head(R).kind
        PROVE  Genuine(Append(P, m), Tail(R), C, S)
    <2>1. Of(R) = {Head(R)} \cup Of(Tail(R))
      BY <1>3, OfTail
    <2>2. IsCall(m) => m.at \in 1 .. Len(S) /\ S[m.at].kind = m.kind
      <3>1. Head(R) \in Of(R)
        BY <2>1
      <3>2. IsCall(Head(R)) => Head(R).at \in 1 .. Len(S) /\ S[Head(R).at] = Head(R)
        BY <3>1 DEF Genuine
      <3> QED BY <1>3, <3>2 DEF IsCall
    <2> QED BY <1>1, <2>1, <2>2 DEF Genuine
  <1> QED BY <1>2, <1>3

\* The same when a message is read.
LEMMA GenuineReceive ==
  ASSUME NEW P, NEW R \in Seq(Calls), NEW C \in Seq(Messages), NEW S, Genuine(P, R, C, S), C # <<>>
  PROVE  /\ Genuine(P, R, Tail(C), S)
         /\ IsCall(Head(C)) => Genuine(P, Append(R, Head(C)), Tail(C), S)
  <1> DEFINE h == Head(C)
             D == Tail(C)
  <1>1. h \in Messages /\ Of(C) = {h} \cup Of(D)
    BY OfTail
  <1> HIDE DEF h, D
  <1>2. Genuine(P, R, D, S)
    BY <1>1 DEF Genuine
  <1>3. ASSUME IsCall(h) PROVE Genuine(P, Append(R, h), D, S)
    <2>1. h \in Calls
      BY <1>1, <1>3, MessageFields
    <2>2. Of(Append(R, h)) = Of(R) \cup {h}
      BY <2>1, OfAppend
    <2> QED BY <1>1, <2>2 DEF Genuine
  <1> QED BY <1>2, <1>3 DEF h, D

\* The same at the end of a loop.
LEMMA GenuineEnd ==
  ASSUME NEW P \in Seq(Messages), NEW Q \in Seq(Messages), NEW R, NEW C, NEW S,
         Genuine(P \o Q, R, C, S)
  PROVE  Genuine(P, <<>>, C, S)
  <1>1. Of(P \o Q) = Of(P) \cup Of(Q)
    BY OfConcat
  <1>2. Of(<<>>) = {}
    BY OfOne
  <1> QED BY <1>1, <1>2 DEF Genuine

\* Ids when a call is passed on, under the next id if it is a request.
LEMMA NumberedCall ==
  ASSUME NEW P \in Seq(Messages), NEW R \in Seq(Calls), NEW C \in Seq(Messages), NEW A,
         Ordered(P, R, C, A), NEW n \in Nat, NEW next \in Nat, Numbered(P, R, C, n, next),
         R # <<>>, NEW m \in Calls, m.kind = Head(R).kind
  PROVE  /\ IsRequest(m) /\ m.id = next => Numbered(Append(P, m), Tail(R), C, n, next + 1)
         /\ ~IsRequest(m) => Numbered(Append(P, m), Tail(R), C, n, next)
  <1> DEFINE h == Head(R)
             T == Tail(R)
             Q == Append(P, m)
  <1>1. h \in Calls /\ T \in Seq(Calls) /\ Of(R) = {h} \cup Of(T) /\ m \in Messages /\ h \in Messages
    BY OfTail DEF Messages
  <1>2. Of(Q) = Of(P) \cup {m}
    BY <1>1, OfAppend
  <1>3. \A x \in Of(T) \cup Of(C) : Fits(h, x)
    BY <1>1, SortedTail DEF Ordered
  <1>4. IsRequest(m) <=> IsRequest(h)
    BY DEF IsRequest
  <1>5. \A x \in Of(P) \cup Of(T) \cup Of(C) : IsRequest(x) => x.id \in Nat
    <2>1. \A x \in Of(P) \cup Of(C) : x \in Messages
      BY OfMessages
    <2>2. \A x \in Of(T) : x \in Messages
      BY <1>1, OfMessages DEF Messages
    <2> QED BY <2>1, <2>2, MessageFields
  <1>6. IsRequest(h) => h.id \in Nat
    BY <1>1, MessageFields
  <1> HIDE DEF h, T, Q
  <1>7. ASSUME IsRequest(m), m.id = next PROVE Numbered(Q, T, C, n, next + 1)
    <2>1. next < h.id /\ h.id <= n
      BY <1>1, <1>4, <1>7 DEF Numbered
    <2>2. next + 1 <= n
      BY <1>4, <1>6, <1>7, <2>1
    <2>3. \A x \in Of(Q) : IsRequest(x) => x.id < next + 1
      BY <1>2, <1>5, <1>7 DEF Numbered
    <2>4. ASSUME NEW x \in Of(T) \cup Of(C), IsRequest(x) PROVE next + 1 < x.id /\ x.id <= n
      <3>1. h.id < x.id
        BY <1>3, <1>4, <1>7, <2>4 DEF Fits
      <3>2. x.id <= n
        BY <1>1, <2>4 DEF Numbered
      <3> QED BY <1>4, <1>5, <1>6, <1>7, <2>1, <2>4, <3>1, <3>2
    <2> QED BY <2>2, <2>3, <2>4 DEF Numbered
  <1>8. ASSUME ~IsRequest(m) PROVE Numbered(Q, T, C, n, next)
    BY <1>1, <1>2, <1>8 DEF Numbered
  <1> QED BY <1>7, <1>8 DEF T, Q

\* Ids when an answer is written.
LEMMA NumberedAnswer ==
  ASSUME NEW P \in Seq(Messages), NEW R, NEW C, NEW n, NEW next, Numbered(P, R, C, n, next),
         NEW m \in Messages, IsResponse(m)
  PROVE  Numbered(Append(P, m), R, C, n, next)
  <1>1. Of(Append(P, m)) = Of(P) \cup {m}
    BY OfAppend
  <1>2. ~IsRequest(m)
    BY DEF IsRequest, IsResponse
  <1> QED BY <1>1, <1>2 DEF Numbered

\* Ids when a message is read.
LEMMA NumberedReceive ==
  ASSUME NEW P, NEW R \in Seq(Calls), NEW C \in Seq(Messages), NEW n, NEW next,
         Numbered(P, R, C, n, next), C # <<>>
  PROVE  /\ Numbered(P, R, Tail(C), n, next)
         /\ IsCall(Head(C)) => Numbered(P, Append(R, Head(C)), Tail(C), n, next)
  <1> DEFINE h == Head(C)
             D == Tail(C)
  <1>1. h \in Messages /\ Of(C) = {h} \cup Of(D)
    BY OfTail
  <1> HIDE DEF h, D
  <1>2. Numbered(P, R, D, n, next)
    BY <1>1 DEF Numbered
  <1>3. ASSUME IsCall(h) PROVE Numbered(P, Append(R, h), D, n, next)
    <2>1. h \in Calls
      BY <1>1, <1>3, MessageFields
    <2>2. Of(Append(R, h)) = Of(R) \cup {h}
      BY <2>1, OfAppend
    <2> QED BY <1>1, <2>2 DEF Numbered
  <1> QED BY <1>2, <1>3 DEF h, D

\* Ids when a peer sends a message.
LEMMA NumberedSend ==
  ASSUME NEW P, NEW R \in Seq(Calls), NEW C \in Seq(Messages), NEW n \in Nat, NEW next \in Nat,
         Numbered(P, R, C, n, next), NEW m \in Messages
  PROVE  /\ ~IsRequest(m) => Numbered(P, R, Append(C, m), n, next)
         /\ IsRequest(m) /\ m.id = n + 1 => Numbered(P, R, Append(C, m), n + 1, next)
  <1>1. Of(Append(C, m)) = Of(C) \cup {m}
    BY OfAppend
  <1>2. ~IsRequest(m) => Numbered(P, R, Append(C, m), n, next)
    BY <1>1 DEF Numbered
  <1>3. ASSUME IsRequest(m), m.id = n + 1 PROVE Numbered(P, R, Append(C, m), n + 1, next)
    <2>1. \A x \in Of(R) \cup Of(C) : IsRequest(x) => x.id \in Nat
      <3>1. \A x \in Of(C) : x \in Messages
        BY OfMessages
      <3>2. \A x \in Of(R) : x \in Messages
        BY OfMessages DEF Messages
      <3> QED BY <3>1, <3>2, MessageFields
    <2>2. next <= n + 1 /\ next < n + 1
      BY DEF Numbered
    <2>3. ASSUME NEW x \in Of(R) \cup Of(C), IsRequest(x) PROVE next < x.id /\ x.id <= n + 1
      <3>1. next < x.id /\ x.id <= n /\ x.id \in Nat
        BY <2>1, <2>3 DEF Numbered
      <3> QED BY <3>1
    <2> QED BY <1>1, <1>3, <2>2, <2>3 DEF Numbered
  <1> QED BY <1>2, <1>3

\* Ids at the end of a loop.
LEMMA NumberedEnd ==
  ASSUME NEW P \in Seq(Messages), NEW Q \in Seq(Messages), NEW R, NEW C, NEW n, NEW next,
         Numbered(P \o Q, R, C, n, next)
  PROVE  Numbered(P, <<>>, C, n, next)
  <1>1. Of(P \o Q) = Of(P) \cup Of(Q)
    BY OfConcat
  <1>2. Of(<<>>) = {}
    BY OfOne
  <1> QED BY <1>1, <1>2 DEF Numbered

\* A request that is read takes an id that no earlier one had.
LEMMA FreshReceive ==
  ASSUME NEW T, NEW C \in Seq(Messages), NEW n \in Nat, Fresh(T, C, n), Sorted(C), C # <<>>
  PROVE  /\ Fresh(T, Tail(C), n)
         /\ IsRequest(Head(C)) /\ Head(C).id <= n => Fresh(T \cup {Head(C).id}, Tail(C), n)
         /\ IsRequest(Head(C)) => Head(C).id \notin T
  <1> DEFINE h == Head(C)
             D == Tail(C)
  <1>1. h \in Messages /\ Of(C) = {h} \cup Of(D)
    BY OfTail
  <1>2. \A x \in Of(D) : Fits(h, x)
    BY SortedTail
  <1>3. IsRequest(h) => h.id \in Nat
    BY <1>1, MessageFields
  <1> HIDE DEF h, D
  <1>4. Fresh(T, D, n)
    BY <1>1 DEF Fresh
  <1>5. ASSUME IsRequest(h), h.id <= n PROVE Fresh(T \cup {h.id}, D, n)
    BY <1>2, <1>4, <1>5 DEF Fresh, Fits
  <1>6. ASSUME IsRequest(h), h.id \in T PROVE FALSE
    <2>1. h.id < h.id
      BY <1>1, <1>6 DEF Fresh
    <2> QED BY <1>3, <1>6, <2>1
  <1> QED BY <1>4, <1>5, <1>6 DEF h, D

\* A request that is sent has a new id.
LEMMA FreshSend ==
  ASSUME NEW T \in SUBSET Nat, NEW C \in Seq(Messages), NEW n \in Nat, Fresh(T, C, n),
         NEW m \in Messages
  PROVE  /\ ~IsRequest(m) => Fresh(T, Append(C, m), n)
         /\ IsRequest(m) /\ m.id = n + 1 => Fresh(T, Append(C, m), n + 1)
  <1>1. Of(Append(C, m)) = Of(C) \cup {m}
    BY OfAppend
  <1>2. ~IsRequest(m) => Fresh(T, Append(C, m), n)
    BY <1>1 DEF Fresh
  <1>3. ASSUME IsRequest(m), m.id = n + 1, NEW i \in T
        PROVE  i <= n + 1 /\ \A x \in Of(Append(C, m)) : IsRequest(x) => i < x.id
    <2>1. i <= n /\ i \in Nat /\ \A x \in Of(C) : IsRequest(x) => i < x.id
      BY DEF Fresh
    <2>2. i <= n + 1 /\ i < n + 1
      BY <2>1
    <2> QED BY <1>1, <1>3, <2>1, <2>2
  <1> QED BY <1>2, <1>3 DEF Fresh

\* Fewer ids are to be avoided.
LEMMA FreshFewer ==
  ASSUME NEW T, NEW U \in SUBSET T, NEW C, NEW n, Fresh(T, C, n)
  PROVE  Fresh(U, C, n)
  BY DEF Fresh

\* What a loop filed stays filed while it writes more and the peer asks more.
LEMMA FiledMore ==
  ASSUME NEW O, NEW P \in Seq(Messages), NEW S \in Seq(Calls), Filed(O, P, S),
         \A m \in Of(P) : IsCall(m) => m.at \in 1 .. Len(S)
  PROVE  /\ \A m \in Messages : Filed(O, Append(P, m), S)
         /\ \A m \in Calls : Filed(O, P, Append(S, m))
  <1>1. ASSUME NEW m \in Messages PROVE Filed(O, Append(P, m), S)
    <2>1. Of(Append(P, m)) = Of(P) \cup {m}
      BY OfAppend
    <2> QED BY <2>1 DEF Filed
  <1>2. ASSUME NEW m \in Calls PROVE Filed(O, P, Append(S, m))
    <2> DEFINE T == Append(S, m)
    <2>1. \A k \in 1 .. Len(S) : T[k] = S[k]
      BY CallAppended
    <2>2. \A x \in Of(P) : IsRequest(x) => T[x.at].id = S[x.at].id
      <3> SUFFICES ASSUME NEW x \in Of(P), IsRequest(x) PROVE T[x.at].id = S[x.at].id
        OBVIOUS
      <3>1. x.at \in 1 .. Len(S)
        BY OfMessages, MessageFields
      <3> QED BY <2>1, <3>1
    <2> HIDE DEF T
    <2>3. Filed(O, P, T)
      BY <2>2 DEF Filed
    <2> QED BY <2>3 DEF T
  <1> QED BY <1>1, <1>2

\* A request is passed on: its oneshot is filed under its new id.
LEMMA FiledCall ==
  ASSUME NEW O \in [Ids -> Nat \cup {None}], NEW P \in Seq(Messages), NEW S, Filed(O, P, S),
         NEW m \in Messages, IsRequest(m), NEW i, S[m.at].id = i
  PROVE  Filed([O EXCEPT ![m.id] = i], Append(P, m), S)
  <1>1. Of(Append(P, m)) = Of(P) \cup {m}
    BY OfAppend
  <1> DEFINE N == [O EXCEPT ![m.id] = i]
  <1> SUFFICES ASSUME NEW n \in Ids, N[n] # None
               PROVE  \E x \in Of(P) \cup {m} : IsRequest(x) /\ x.id = n /\ S[x.at].id = N[n]
    BY <1>1 DEF Filed
  <1>2. CASE n = m.id
    <2>1. N[n] = i
      BY <1>2
    <2> QED BY <1>2, <2>1
  <1>3. CASE n # m.id
    <2>1. N[n] = O[n]
      BY <1>3
    <2> HIDE DEF N
    <2> QED BY <2>1 DEF Filed
  <1> QED BY <1>2, <1>3

\* A oneshot that was resolved is not filed any more.
LEMMA FiledResponse ==
  ASSUME NEW O \in [Ids -> Nat \cup {None}], NEW P, NEW S, Filed(O, P, S), NEW i
  PROVE  Filed([O EXCEPT ![i] = None], P, S)
  <1> DEFINE N == [O EXCEPT ![i] = None]
  <1>1. \A n \in Ids : N[n] # None => N[n] = O[n]
    OBVIOUS
  <1> HIDE DEF N
  <1>2. Filed(N, P, S)
    BY <1>1 DEF Filed
  <1> QED BY <1>2 DEF N

\* The request that a response answers is the one whose oneshot it finds.
LEMMA FiledFound ==
  ASSUME NEW O, NEW P \in Seq(Messages), NEW S, NEW G, Filed(O, P, S), Sorted(P),
         Of(G) \subseteq Of(P), NEW C, Replies(C, G), NEW r \in Of(C), IsResponse(r),
         r.id \in Ids, O[r.id] # None,
         \A m \in Of(P) : IsCall(m) => m.at \in 1 .. Len(S) /\ S[m.at].kind = m.kind
  PROVE  /\ r.for # None /\ r.for \in 1 .. Len(S)
         /\ IsRequest(S[r.for]) /\ S[r.for].id = O[r.id]
  <1>1. PICK g \in Of(P) : r.for # None /\ IsRequest(g) /\ g.id = r.id /\ g.at = r.for
    BY DEF Replies
  <1>2. PICK m \in Of(P) : IsRequest(m) /\ m.id = r.id /\ S[m.at].id = O[r.id]
    BY DEF Filed
  <1>3. PICK j \in 1 .. Len(P) : g = P[j]
    BY DEF Of
  <1>4. PICK k \in 1 .. Len(P) : m = P[k]
    BY DEF Of
  <1>5. g.id \in Nat /\ m.id = g.id /\ IsCall(g)
    BY <1>1, <1>2, OfMessages, MessageFields
  <1>6. ~(j < k)
    <2>1. j < k => Fits(g, m)
      BY <1>3, <1>4 DEF Sorted
    <2> QED BY <1>1, <1>2, <1>5, <2>1 DEF Fits
  <1>7. ~(k < j)
    <2>1. k < j => Fits(m, g)
      BY <1>3, <1>4 DEF Sorted
    <2> QED BY <1>1, <1>2, <1>5, <2>1 DEF Fits
  <1>8. j = k
    BY <1>6, <1>7
  <1>9. g = m
    BY <1>3, <1>4, <1>8
  <1>10. g.at \in 1 .. Len(S) /\ S[g.at].kind = g.kind
    BY <1>5
  <1> QED BY <1>1, <1>2, <1>9, <1>10 DEF IsRequest

\* A peer reads more.
LEMMA RepliesMore ==
  ASSUME NEW C, NEW G \in Seq(Messages), Replies(C, G), NEW m \in Messages
  PROVE  Replies(C, Append(G, m))
  <1>1. Of(Append(G, m)) = Of(G) \cup {m}
    BY OfAppend
  <1> QED BY <1>1 DEF Replies

\* A peer sends a call, or an answer to what it read.
LEMMA RepliesSend ==
  ASSUME NEW C \in Seq(Messages), NEW G, Replies(C, G), NEW m \in Messages,
         IsResponse(m) => m.for # None /\ \E g \in Of(G) : IsRequest(g) /\ g.id = m.id /\ g.at = m.for
  PROVE  Replies(Append(C, m), G)
  <1>1. Of(Append(C, m)) = Of(C) \cup {m}
    BY OfAppend
  <1> QED BY <1>1 DEF Replies

\* A message is read.
LEMMA RepliesReceive ==
  ASSUME NEW C \in Seq(Messages), NEW G, Replies(C, G), C # <<>>
  PROVE  Replies(Tail(C), G)
  <1>1. Of(C) = {Head(C)} \cup Of(Tail(C))
    BY OfTail
  <1> QED BY <1>1 DEF Replies

\* A response stays right.
LEMMA RightMore ==
  ASSUME NEW r, NEW S \in Seq(Calls), NEW gone, Right(r, S, gone)
  PROVE  /\ \A m \in Calls : Right(r, Append(S, m), gone)
         /\ Right(r, S, TRUE)
  <1>1. ASSUME NEW m \in Calls PROVE Right(r, Append(S, m), gone)
    <2>1. \A k \in 1 .. Len(S) : k \in 1 .. Len(Append(S, m)) /\ Append(S, m)[k] = S[k]
      BY CallAppended
    <2> QED BY <2>1 DEF Right
  <1> QED BY <1>1 DEF Right

\* An answer is written: the request is done with.
LEMMA OnceAnswer ==
  ASSUME NEW A \in SUBSET Responses, NEW T \in SUBSET Nat, NEW P \in Seq(Messages), Once(A, T, P),
         NEW a \in A
  PROVE  Once(A \ {a}, T \ {a.id}, Append(P, a))
  <1>1. a \in Messages /\ IsResponse(a)
    BY DEF Messages, Responses, IsResponse
  <1>2. Of(Append(P, a)) = Of(P) \cup {a}
    BY <1>1, OfAppend
  <1>3. \A x \in Of(P) : IsResponse(x) => x.id # a.id
    BY DEF Once
  <1>4. Distinct(Append(P, a))
    BY <1>1, <1>3, DistinctAppend DEF Once
  <1>5. \A b \in A \ {a} : b.id \in T \ {a.id}
    BY DEF Once
  <1> QED BY <1>2, <1>4, <1>5 DEF Once

\* A call is passed on.
LEMMA OnceCall ==
  ASSUME NEW A, NEW T, NEW P \in Seq(Messages), Once(A, T, P), NEW m \in Messages, IsCall(m)
  PROVE  Once(A, T, Append(P, m))
  <1>1. ~IsResponse(m)
    BY MessageFields
  <1>2. Of(Append(P, m)) = Of(P) \cup {m}
    BY OfAppend
  <1>3. Distinct(Append(P, m))
    BY <1>1, DistinctAppend DEF Once
  <1> QED BY <1>1, <1>2, <1>3 DEF Once

\* A request is read.
LEMMA OnceTake ==
  ASSUME NEW A, NEW T, NEW P, Once(A, T, P), NEW i, i \notin ResponseIds(Of(P))
  PROVE  Once(A, T \cup {i}, P)
  BY DEF Once, ResponseIds

\* Requests without an answer get one each.
LEMMA OnceResolve ==
  ASSUME NEW A, NEW T, NEW P, Once(A, T, P),
         NEW B, \A b \in B : b.id \in T /\ \A a \in A : a.id # b.id,
         \A a, b \in B : a.id = b.id => a = b
  PROVE  Once(A \cup B, T, P)
  BY DEF Once

\* The end of a loop.
LEMMA OnceEnd ==
  ASSUME NEW A, NEW T, NEW P \in Seq(Messages), NEW Q \in Seq(Messages), Once(A, T, P \o Q)
  PROVE  Once({}, {}, P)
  <1>1. Distinct(P)
    BY DistinctConcat DEF Once
  <1> QED BY <1>1 DEF Once

\* A request is passed on: its oneshot goes from rx to where it is filed.
LEMMA ApartCall ==
  ASSUME NEW O \in [Ids -> Nat \cup {None}], NEW R \in Seq(Calls), NEW U, Apart(O, R, U),
         R # <<>>, Sorted(R)
  PROVE  /\ Apart(O, Tail(R), U)
         /\ IsRequest(Head(R)) => \A n : Apart([O EXCEPT ![n] = Head(R).id], Tail(R), U)
  <1> DEFINE h == Head(R)
             T == Tail(R)
  <1>1. h \in Calls /\ T \in Seq(Calls) /\ Of(R) = {h} \cup Of(T)
    BY OfTail
  <1>2. \A x \in Of(T) : Fits(h, x)
    BY SortedTail
  <1> HIDE DEF h, T
  <1>3. Apart(O, T, U)
    BY <1>1 DEF Apart
  <1>4. ASSUME IsRequest(h), NEW n PROVE Apart([O EXCEPT ![n] = h.id], T, U)
    <2> DEFINE N == [O EXCEPT ![n] = h.id]
    <2>1. h.id \in U /\ \A p \in Ids : O[p] # h.id
      BY <1>1, <1>4 DEF Apart
    <2>2. \A p \in Ids : N[p] = IF p = n THEN h.id ELSE O[p]
      OBVIOUS
    <2>3. \A x \in Of(T) : IsRequest(x) => x.id # h.id
      <3>1. h \in Messages
        BY <1>1 DEF Messages
      <3>2. h.id \in Nat
        BY <1>4, <3>1, MessageFields
      <3>3. ASSUME NEW x \in Of(T), IsRequest(x) PROVE h.id < x.id
        BY <1>2, <1>4, <3>3 DEF Fits
      <3>4. ASSUME NEW x \in Of(T), IsRequest(x), x.id = h.id PROVE FALSE
        <4>1. h.id < h.id
          BY <3>3, <3>4
        <4> QED BY <3>2, <4>1
      <3> QED BY <3>4
    <2> HIDE DEF N
    <2>4. Apart(N, T, U)
      BY <1>3, <2>1, <2>2, <2>3 DEF Apart
    <2> QED BY <2>4 DEF N
  <1> QED BY <1>3, <1>4 DEF h, T

\* A call comes to rx.
LEMMA ApartReceive ==
  ASSUME NEW O \in [Ids -> Nat \cup {None}], NEW R \in Seq(Calls), NEW U, Apart(O, R, U),
         NEW m \in Calls
  PROVE  /\ ~IsRequest(m) => Apart(O, Append(R, m), U)
         /\ IsRequest(m) /\ m.id \notin U => Apart(O, Append(R, m), U \cup {m.id})
  <1>1. Of(Append(R, m)) = Of(R) \cup {m}
    BY OfAppend
  <1>2. ~IsRequest(m) => Apart(O, Append(R, m), U)
    BY <1>1 DEF Apart
  <1>3. ASSUME IsRequest(m), m.id \notin U PROVE Apart(O, Append(R, m), U \cup {m.id})
    <2>1. m.id \in Nat
      BY <1>3, MessageFields DEF Messages
    <2>2. m.id # None
      BY <2>1, RelayAssumption
    <2>3. \A n \in Ids : O[n] # m.id
      BY <1>3, <2>2 DEF Apart
    <2> QED BY <1>1, <1>3, <2>3 DEF Apart
  <1> QED BY <1>2, <1>3

\* A oneshot is resolved.
LEMMA ApartResponse ==
  ASSUME NEW O \in [Ids -> Nat \cup {None}], NEW R \in Seq(Calls), NEW U, Apart(O, R, U),
         NEW i \in Ids
  PROVE  Apart([O EXCEPT ![i] = None], R, U \ {O[i]})
  <1> DEFINE N == [O EXCEPT ![i] = None]
  <1>1. \A n \in Ids : N[n] = IF n = i THEN None ELSE O[n]
    OBVIOUS
  <1>2. ASSUME NEW n \in Ids, N[n] # None PROVE N[n] = O[n] /\ O[n] \in U \ {O[i]}
    <2>1. n # i /\ N[n] = O[n]
      BY <1>1, <1>2
    <2> QED BY <1>2, <2>1 DEF Apart
  <1>3. ASSUME NEW m \in Of(R), IsRequest(m)
        PROVE  m.id \in U \ {O[i]} /\ \A n \in Ids : N[n] # m.id
    <2>1. m.id \in U /\ \A n \in Ids : O[n] # m.id
      BY <1>3 DEF Apart
    <2>2. m.id # None
      <3>1. m \in Messages
        BY OfMessages DEF Messages
      <3> QED BY <1>3, <3>1, MessageFields, RelayAssumption
    <2> QED BY <1>1, <2>1, <2>2
  <1>4. \A n, p \in Ids : N[n] # None /\ N[n] = N[p] => n = p
    BY <1>1 DEF Apart
  <1> HIDE DEF N
  <1>5. Apart(N, R, U \ {O[i]})
    BY <1>2, <1>3, <1>4 DEF Apart
  <1> QED BY <1>5 DEF N

----------------------------------------------------------------------------
(***************************************************************************)
(* The state.                                                              *)
(***************************************************************************)
\* The two sides: t acts, o is the other one.
Pair(t, o) ==
    /\ t \in Sides /\ o \in Sides /\ t # o
    /\ Other(t) = o /\ Other(o) = t
    /\ \A s \in Sides : s = t \/ s = o

\* Each side has another one.
LEMMA SidesPair ==
  ASSUME NEW t \in Sides
  PROVE  Pair(t, Other(t))
  BY DEF Pair, Sides, Other

\* Where the messages are.
LEMMA Places ==
  ASSUME TypeOK, NEW t, NEW o, Pair(t, o)
  PROVE  /\ got[t] \in Seq(Messages) /\ out[t] \in Seq(Messages)
         /\ sink[t] \in Seq(Messages) /\ held[t] \in Seq(Messages)
         /\ inp[t] \in Seq(Messages) /\ sending[t] \in Seq(Messages)
         /\ rx[t] \in Seq(Calls) /\ answers[t] \in SUBSET Responses /\ tasks[t] \in SUBSET Nat
         /\ Past(t) \in Seq(Messages)
         /\ Coming(o) = inp[t] \o sending[t] /\ Coming(o) \in Seq(Messages)
         /\ Of(got[t]) \subseteq Of(Past(t))
  <1>1. /\ got[t] \in Seq(Messages) /\ out[t] \in Seq(Messages)
        /\ sink[t] \in Seq(Messages) /\ held[t] \in Seq(Messages)
        /\ inp[t] \in Seq(Messages) /\ sending[t] \in Seq(Messages)
        /\ rx[t] \in Seq(Calls) /\ answers[t] \in SUBSET Responses /\ tasks[t] \in SUBSET Nat
    BY DEF TypeOK, Pair
  <1>2. Coming(o) = inp[t] \o sending[t]
    BY DEF Coming, Pair
  <1>3. inp[t] \o sending[t] \in Seq(Messages)
    BY <1>1, OfConcat
  <1>4. sink[t] \o held[t] \in Seq(Messages)
    BY <1>1, OfConcat
  <1>5. out[t] \o (sink[t] \o held[t]) \in Seq(Messages)
    BY <1>1, <1>4, OfConcat
  <1>6. /\ got[t] \o (out[t] \o (sink[t] \o held[t])) \in Seq(Messages)
        /\ Of(got[t]) \subseteq Of(got[t] \o (out[t] \o (sink[t] \o held[t])))
    <2> DEFINE x == out[t] \o (sink[t] \o held[t])
    <2>1. x \in Seq(Messages)
      BY <1>5
    <2> HIDE DEF x
    <2>2. got[t] \o x \in Seq(Messages) /\ Of(got[t] \o x) = Of(got[t]) \cup Of(x)
      BY <1>1, <2>1, OfConcat
    <2> QED BY <2>2 DEF x
  <1> QED BY <1>1, <1>2, <1>3, <1>6 DEF Past

\* The same of both sides.
LEMMA PlacesOfBoth ==
  ASSUME TypeOK, NEW t, NEW o, Pair(t, o)
  PROVE  /\ rx[t] \in Seq(Calls) /\ answers[t] \in SUBSET Responses /\ tasks[t] \in SUBSET Nat
         /\ rx[o] \in Seq(Calls) /\ answers[o] \in SUBSET Responses /\ tasks[o] \in SUBSET Nat
         /\ Past(t) \in Seq(Messages) /\ Coming(t) \in Seq(Messages)
         /\ Past(o) \in Seq(Messages) /\ Coming(o) \in Seq(Messages)
         /\ sent[t] \in Seq(Calls) /\ sent[o] \in Seq(Calls)
         /\ asked[t] \in Nat /\ asked[o] \in Nat
         /\ outgoing_id[t] \in Nat /\ outgoing_id[o] \in Nat
         /\ outgoing[t] \in [Ids -> Nat \cup {None}] /\ outgoing[o] \in [Ids -> Nat \cup {None}]
  <1>1. Pair(o, t)
    BY DEF Pair
  <1>2. /\ rx[t] \in Seq(Calls) /\ answers[t] \in SUBSET Responses /\ tasks[t] \in SUBSET Nat
        /\ Past(t) \in Seq(Messages) /\ Coming(o) \in Seq(Messages)
    BY Places
  <1>3. /\ rx[o] \in Seq(Calls) /\ answers[o] \in SUBSET Responses /\ tasks[o] \in SUBSET Nat
        /\ Past(o) \in Seq(Messages) /\ Coming(t) \in Seq(Messages)
    BY <1>1, Places
  <1>4. /\ sent[t] \in Seq(Calls) /\ sent[o] \in Seq(Calls)
        /\ asked[t] \in Nat /\ asked[o] \in Nat
        /\ outgoing_id[t] \in Nat /\ outgoing_id[o] \in Nat
        /\ outgoing[t] \in [Ids -> Nat \cup {None}] /\ outgoing[o] \in [Ids -> Nat \cup {None}]
    BY DEF TypeOK, Pair
  <1> QED BY <1>2, <1>3, <1>4

\* What a loop held is what came after the rest.
LEMMA CutOff ==
  ASSUME NEW g \in Seq(Messages), NEW o \in Seq(Messages), NEW k \in Seq(Messages)
  PROVE  g \o (o \o k) = (g \o o) \o k
  BY ConcatAssociative

\* A message goes from the sink to the pipe.
LEMMA MoveOut ==
  ASSUME NEW g \in Seq(Messages), NEW o \in Seq(Messages), NEW k \in Seq(Messages),
         NEW m \in Messages
  PROVE  g \o (Append(o, m) \o (<<>> \o k)) = g \o (o \o (<<m>> \o k))
  <1>1. <<m>> \in Seq(Messages)
    OBVIOUS
  <1>2. <<>> \o k = k
    BY ConcatEmptySeq
  <1>3. Append(o, m) = o \o <<m>>
    BY AppendIsConcat
  <1>4. (o \o <<m>>) \o k = o \o (<<m>> \o k)
    BY <1>1, ConcatAssociative
  <1> QED BY <1>2, <1>3, <1>4

\* A message is taken in hand, behind those that are on their way.
LEMMA MoveIn ==
  ASSUME NEW g \in Seq(Messages), NEW o \in Seq(Messages), NEW k \in Seq(Messages),
         NEW m \in Messages
  PROVE  g \o (o \o (k \o <<m>>)) = Append(g \o (o \o (k \o <<>>)), m)
  <1>1. <<m>> \in Seq(Messages) /\ o \o k \in Seq(Messages)
    BY OfConcat
  <1>2. k \o <<>> = k
    BY ConcatEmptySeq
  <1>3. o \o (k \o <<m>>) = (o \o k) \o <<m>>
    BY <1>1, ConcatAssociative
  <1> DEFINE x == o \o k
  <1>4. x \in Seq(Messages)
    BY <1>1
  <1> HIDE DEF x
  <1>5. g \o (x \o <<m>>) = (g \o x) \o <<m>> /\ g \o x \in Seq(Messages)
    BY <1>1, <1>4, ConcatAssociative, OfConcat
  <1>6. Append(g \o x, m) = (g \o x) \o <<m>>
    BY <1>5, AppendIsConcat
  <1> QED BY <1>2, <1>3, <1>5, <1>6 DEF x

\* A sequence is its first element and the rest.
LEMMA HeadFirst ==
  ASSUME NEW o \in Seq(Messages), o # <<>>
  PROVE  <<Head(o)>> \o Tail(o) = o /\ Head(o) \in Messages /\ Tail(o) \in Seq(Messages)
  <1>1. /\ Len(o) \in Nat \ {0} /\ Head(o) = o[1] /\ Head(o) \in Messages
        /\ Tail(o) \in Seq(Messages) /\ Len(Tail(o)) = Len(o) - 1
        /\ \A k \in 1 .. Len(o) - 1 : Tail(o)[k] = o[k + 1]
    OBVIOUS
  <1> DEFINE h == <<Head(o)>>
             r == Tail(o)
  <1>2. h \in Seq(Messages) /\ Len(h) = 1 /\ h[1] = o[1]
    BY <1>1
  <1>3. r \in Seq(Messages) /\ Len(r) = Len(o) - 1 /\ \A k \in 1 .. Len(o) - 1 : r[k] = o[k + 1]
    BY <1>1
  <1> HIDE DEF h, r
  <1>4. /\ h \o r \in Seq(Messages) /\ Len(h \o r) = Len(h) + Len(r)
        /\ \A i \in 1 .. Len(h) + Len(r) : (h \o r)[i] = IF i <= Len(h) THEN h[i] ELSE r[i - Len(h)]
    <2>1. h \in Seq(Messages) /\ r \in Seq(Messages)
      BY <1>2, <1>3
    <2> QED BY <2>1, ConcatProperties
  <1>5. ASSUME NEW i \in 1 .. Len(o) PROVE (h \o r)[i] = o[i]
    <2>1. CASE i = 1
      BY <1>1, <1>2, <1>3, <1>4, <2>1
    <2>2. CASE i # 1
      <3>1. i - 1 \in 1 .. Len(o) - 1 /\ (i - 1) + 1 = i /\ i \in 1 .. Len(h) + Len(r) /\ ~(i <= Len(h))
        BY <1>1, <1>2, <1>3, <2>2
      <3>2. (h \o r)[i] = r[i - 1]
        BY <1>2, <1>4, <3>1
      <3> QED BY <1>3, <3>1, <3>2
    <2> QED BY <2>1, <2>2
  <1>6. Len(h \o r) = Len(o)
    BY <1>1, <1>2, <1>3, <1>4
  <1>7. h \o r = o
    BY <1>4, <1>5, <1>6, SeqEqual
  <1> QED BY <1>1, <1>7 DEF h, r

\* The first of the messages in two sequences.
LEMMA FirstOfTwo ==
  ASSUME NEW o \in Seq(Messages), NEW k \in Seq(Messages), o # <<>>
  PROVE  Head(o \o k) = Head(o) /\ Tail(o \o k) = Tail(o) \o k /\ o \o k # <<>>
  <1> DEFINE h == <<Head(o)>>
             r == Tail(o)
             x == r \o k
  <1>1. h \o r = o
    BY HeadFirst
  <1>2. h \in Seq(Messages) /\ r \in Seq(Messages) /\ x \in Seq(Messages) /\ Head(o) \in Messages
    BY HeadFirst, OfConcat
  <1>3. Head(h \o x) = Head(o) /\ Tail(h \o x) = x /\ h \o x # <<>>
    <2>1. x \in Seq(Messages) /\ h = <<Head(o)>>
      BY <1>2
    <2> HIDE DEF x
    <2>2. Head(h \o x) = Head(o) /\ h \o x # <<>>
      BY <1>2, <2>1, ConcatProperties
    <2>3. Tail(h \o x) = x
      BY <1>2, <2>1
    <2> QED BY <2>2, <2>3
  <1> HIDE DEF h, r
  <1>4. (h \o r) \o k = h \o (r \o k)
    BY <1>2, ConcatAssociative
  <1> QED BY <1>1, <1>3, <1>4 DEF r

\* One sequence after another, under a name that the provers leave as it is.
Joined(q, r) == q \o r

\* How sequences are put together makes no difference.
LEMMA JoinedAnyhow ==
  ASSUME NEW g \in Seq(Messages), NEW o \in Seq(Messages), NEW k \in Seq(Messages)
  PROVE  /\ Joined(g, o) \in Seq(Messages)
         /\ Joined(Joined(g, o), k) = Joined(g, Joined(o, k))
  <1>1. g \o o \in Seq(Messages)
    BY OfConcat
  <1>2. g \o (o \o k) = (g \o o) \o k
    BY CutOff
  <1> QED BY <1>1, <1>2 DEF Joined

\* A message goes from the pipe to the peer.
LEMMA MoveAcross ==
  ASSUME NEW g \in Seq(Messages), NEW o \in Seq(Messages), NEW k \in Seq(Messages), o # <<>>
  PROVE  Append(g, Head(o)) \o (Tail(o) \o k) = g \o (o \o k)
  <1>1. PICK h \in Seq(Messages), r \in Seq(Messages) :
          h = <<Head(o)>> /\ r = Tail(o) /\ h \o r = o
    <2>1. <<Head(o)>> \in Seq(Messages)
      BY HeadFirst
    <2> QED BY <2>1, HeadFirst
  <1>2. Append(g, Head(o)) = g \o h
    BY <1>1, HeadFirst, AppendIsConcat
  <1>3. Joined(Joined(g, h), Joined(r, k)) = Joined(g, Joined(Joined(h, r), k))
    BY JoinedAnyhow
  <1>4. (g \o h) \o (r \o k) = g \o ((h \o r) \o k)
    BY <1>3 DEF Joined
  <1> QED BY <1>1, <1>2, <1>4

\* A step that only moves messages on.
LEMMA Kept ==
  ASSUME IInv, TypeOK', NEW t, NEW o, Pair(t, o), Slots(t)', Slots(o)',
         Gone(t)' <=> Gone(t), Gone(o)' <=> Gone(o),
         Dropped(t)', Dropped(o)',
         Past(t)' = Past(t), Past(o)' = Past(o),
         Coming(t)' = Coming(t), Coming(o)' = Coming(o),
         UNCHANGED <<rx, tasks, answers, outgoing, outgoing_id, sent, asked, got, heard>>
  PROVE  IInv'
  <1>1. ASSUME NEW s \in Sides, Past(s)' = Past(s), Coming(s)' = Coming(s),
               Gone(s)' <=> Gone(s), Gone(Other(s))' <=> Gone(Other(s)),
               Coming(Other(s))' = Coming(Other(s)), Slots(s)', Dropped(s)'
        PROVE  Side(s)'
    <2>1. Side(s)
      BY DEF IInv
    <2>2. Order(s)' /\ Sources(s)' /\ Numbers(s)' /\ Files(s)' /\ Replied(s)' /\ Single(s)'
      BY <1>1, <2>1 DEF Side, Order, Sources, Numbers, Files, Replied, Single
    <2>3. Log(s)' /\ Heard(s)' /\ News(s)'
      BY <1>1, <2>1 DEF Side, Log, Heard, News, Taken
    <2>4. Whole(s)'
      BY <1>1, <2>1 DEF Side, Whole, Complete
    <2>5. Rights(s)'
      BY <1>1, <2>1 DEF Side, Rights, Right
    <2>6. Oneshots(s)'
      BY <1>1, <2>1 DEF Side, Oneshots, Unanswered
    <2> QED BY <1>1, <2>2, <2>3, <2>4, <2>5, <2>6 DEF Side
  <1>2. Side(t)' /\ Side(o)'
    <2>1. t \in Sides /\ o \in Sides /\ Other(t) = o /\ Other(o) = t
      BY DEF Pair
    <2>2. Side(t)'
      BY <1>1, <2>1
    <2>3. Side(o)'
      BY <1>1, <2>1
    <2> QED BY <2>2, <2>3
  <1>3. \A s \in Sides : Side(s)'
    BY <1>2 DEF Pair
  <1> QED BY <1>3 DEF IInv

\* A loop writes the message in its sink.
LEMMA WriteHolds ==
  ASSUME IInv, NEW t, NEW o, Pair(t, o), Write(t), UNCHANGED pc
  PROVE  IInv'
  <1> DEFINE h == Head(sink[t])
  <1>1. TypeOK /\ Slots(t) /\ Slots(o) /\ Dropped(t) /\ Dropped(o)
    BY DEF IInv, Pair, Side
  <1>2. /\ sink[t] # <<>> /\ sink[t] = <<h>> /\ h \in Messages
        /\ got[t] \in Seq(Messages) /\ out[t] \in Seq(Messages) /\ held[t] \in Seq(Messages)
    BY <1>1, HeadFirst, Places DEF Write, CanWrite, Slots, AtMostOne
  <1>3. /\ out' = [out EXCEPT ![t] = Append(@, h)] /\ sink' = [sink EXCEPT ![t] = <<>>]
        /\ UNCHANGED <<rx, tasks, answers, outgoing, outgoing_id, held, inp>>
        /\ UNCHANGED <<sending, sent, asked, answered, got, heard>>
    BY DEF Write, peers
  <1> HIDE DEF h
  <1>4. TypeOK'
    <2>1. Append(out[t], h) \in Seq(Messages) /\ <<>> \in Seq(Messages)
      BY <1>2
    <2>2. out' \in [Sides -> Seq(Messages)] /\ sink' \in [Sides -> Seq(Messages)]
      BY <1>1, <1>3, <2>1 DEF TypeOK
    <2>3. UNCHANGED pc
      OBVIOUS
    <2> QED BY <1>1, <1>3, <2>2, <2>3 DEF TypeOK
  <1>5. /\ out'[t] = Append(out[t], h) /\ sink'[t] = <<>>
        /\ out'[o] = out[o] /\ sink'[o] = sink[o]
    BY <1>1, <1>3 DEF TypeOK, Pair
  <1>6. Past(t)' = Past(t)
    <2>1. got[t] \o (Append(out[t], h) \o (<<>> \o held[t])) = got[t] \o (out[t] \o (<<h>> \o held[t]))
      <3>1. /\ h \in Messages /\ got[t] \in Seq(Messages)
            /\ out[t] \in Seq(Messages) /\ held[t] \in Seq(Messages)
        BY <1>2
      <3> QED BY <3>1, MoveOut
    <2> QED BY <1>2, <1>3, <1>5, <2>1 DEF Past
  <1>7. Past(o)' = Past(o) /\ Coming(t)' = Coming(t) /\ Coming(o)' = Coming(o)
    BY <1>3, <1>5 DEF Past, Coming
  <1>8. /\ (Gone(t)' <=> Gone(t)) /\ (Gone(o)' <=> Gone(o))
        /\ Slots(t)' /\ Slots(o)' /\ Dropped(t)' /\ Dropped(o)'
    BY <1>1, <1>2, <1>3, <1>5 DEF Gone, Slots, AtMostOne, Dropped
  <1> QED BY <1>3, <1>4, <1>6, <1>7, <1>8, Kept

\* A loop puts the message in its hand into the sink.
LEMMA LoadSinkHolds ==
  ASSUME IInv, NEW t, NEW o, Pair(t, o), sink[t] = <<>>,
         sink' = [sink EXCEPT ![t] = held[t]], held' = [held EXCEPT ![t] = <<>>],
         pc' = [pc EXCEPT ![t] = "select"], pc[t] = "feed",
         UNCHANGED <<rx, tasks, answers, outgoing, outgoing_id, kept, main, inp, out, peers>>
  PROVE  IInv'
  <1>1. TypeOK /\ Slots(t) /\ Slots(o) /\ Dropped(t) /\ Dropped(o)
    BY DEF IInv, Pair, Side
  <1>2. got[t] \in Seq(Messages) /\ out[t] \in Seq(Messages) /\ held[t] \in Seq(Messages)
    BY <1>1, Places
  <1>3. UNCHANGED <<sending, sent, asked, answered, got, heard>>
    BY DEF peers
  <1>4. TypeOK'
    BY <1>1, <1>2, <1>3 DEF TypeOK, Pair
  <1>5. /\ sink'[t] = held[t] /\ held'[t] = <<>> /\ pc'[t] = "select"
        /\ sink'[o] = sink[o] /\ held'[o] = held[o] /\ pc'[o] = pc[o]
    BY <1>1 DEF TypeOK, Pair
  <1>6. Past(t)' = Past(t)
    <2>1. got[t] \o (out[t] \o (held[t] \o <<>>)) = got[t] \o (out[t] \o (<<>> \o held[t]))
      <3>1. held[t] \o <<>> = held[t] /\ <<>> \o held[t] = held[t]
        BY <1>2, ConcatEmptySeq
      <3> QED BY <3>1
    <2> QED BY <1>3, <1>5, <2>1 DEF Past
  <1>7. Past(o)' = Past(o) /\ Coming(t)' = Coming(t) /\ Coming(o)' = Coming(o)
    BY <1>3, <1>5 DEF Past, Coming
  <1>8. /\ (Gone(t)' <=> Gone(t)) /\ (Gone(o)' <=> Gone(o))
        /\ Slots(t)' /\ Slots(o)' /\ Dropped(t)' /\ Dropped(o)'
    BY <1>1, <1>5 DEF Gone, Slots, AtMostOne, Dropped
  <1> QED BY <1>3, <1>4, <1>6, <1>7, <1>8, Kept

\* A peer writes the message it is sending.
LEMMA PeerWritesHolds ==
  ASSUME IInv, NEW t, NEW o, Pair(t, o), PeerWrites(t)
  PROVE  IInv'
  <1>1. TypeOK /\ Slots(t) /\ Slots(o) /\ Dropped(t) /\ Dropped(o)
    BY DEF IInv, Pair, Side
  <1>2. inp[t] \in Seq(Messages) /\ sending[t] \in Seq(Messages)
    BY <1>1, Places
  <1>3. /\ inp' = [inp EXCEPT ![t] = @ \o sending[t]] /\ sending' = [sending EXCEPT ![t] = <<>>]
        /\ UNCHANGED <<pc, rx, tasks, answers, outgoing, outgoing_id, held, sink, out>>
        /\ UNCHANGED <<sent, asked, answered, got, heard>>
    BY DEF PeerWrites, loops
  <1>4. inp[t] \o sending[t] \in Seq(Messages)
    BY <1>2, OfConcat
  <1>5. TypeOK'
    <2>1. inp' \in [Sides -> Seq(Messages)] /\ sending' \in [Sides -> Seq(Messages)]
      <3>1. <<>> \in Seq(Messages)
        OBVIOUS
      <3> QED BY <1>1, <1>3, <1>4, <3>1 DEF TypeOK
    <2> QED BY <1>1, <1>3, <2>1 DEF TypeOK
  <1>6. /\ inp'[t] = inp[t] \o sending[t] /\ sending'[t] = <<>>
        /\ inp'[o] = inp[o] /\ sending'[o] = sending[o]
    BY <1>1, <1>3 DEF TypeOK, Pair
  <1>7. Coming(o)' = Coming(o)
    <2>1. (inp[t] \o sending[t]) \o <<>> = inp[t] \o sending[t]
      BY <1>4, ConcatEmptySeq
    <2> QED BY <1>6, <2>1 DEF Coming, Pair
  <1>8. Past(t)' = Past(t) /\ Past(o)' = Past(o) /\ Coming(t)' = Coming(t)
    BY <1>3, <1>6 DEF Past, Coming, Pair
  <1>9. /\ (Gone(t)' <=> Gone(t)) /\ (Gone(o)' <=> Gone(o))
        /\ Slots(t)' /\ Slots(o)' /\ Dropped(t)' /\ Dropped(o)'
    BY <1>1, <1>3 DEF Gone, Slots, AtMostOne, Dropped
  <1> QED BY <1>3, <1>5, <1>7, <1>8, <1>9, Kept

\* A peer closes its streams, main returns, or nothing happens.
LEMMA IdleHolds ==
  ASSUME IInv, UNCHANGED <<pc, rx, tasks, answers, outgoing, outgoing_id, held, sink>>,
         UNCHANGED <<inp, out, sending, sent, asked, answered, got, heard>>
  PROVE  IInv'
  <1>1. PICK t, o : Pair(t, o)
    <2>1. "editor" \in Sides
      BY DEF Sides
    <2> QED BY <2>1, SidesPair
  <1>2. TypeOK /\ Slots(t) /\ Slots(o) /\ Dropped(t) /\ Dropped(o)
    BY <1>1 DEF IInv, Pair, Side
  <1>3. TypeOK'
    BY <1>2 DEF TypeOK
  <1>4. /\ Past(t)' = Past(t) /\ Past(o)' = Past(o)
        /\ Coming(t)' = Coming(t) /\ Coming(o)' = Coming(o)
    BY DEF Past, Coming
  <1>5. /\ (Gone(t)' <=> Gone(t)) /\ (Gone(o)' <=> Gone(o))
        /\ Slots(t)' /\ Slots(o)' /\ Dropped(t)' /\ Dropped(o)'
    BY <1>2 DEF Gone, Slots, AtMostOne, Dropped
  <1> QED BY <1>1, <1>3, <1>4, <1>5, Kept

----------------------------------------------------------------------------
(***************************************************************************)
(* The steps of a loop.                                                    *)
(***************************************************************************)
\* What a loop that selects puts in its hand is the last of what passed it.
LEMMA Loaded ==
  ASSUME TypeOK, NEW t, NEW o, Pair(t, o), Slots(t), pc[t] = "select", NEW m \in Messages,
         Load(t, m), UNCHANGED <<sink, out, got, inp, sending>>
  PROVE  /\ held' \in [Sides -> Seq(Messages)] /\ held'[t] = <<m>> /\ held'[o] = held[o]
         /\ pc' \in [Sides -> {"select", "feed", "close", "returned", "panicked"}]
         /\ pc'[t] = "feed" /\ pc'[o] = pc[o]
         /\ Past(t)' = Append(Past(t), m) /\ Past(o)' = Past(o)
         /\ Coming(t)' = Coming(t) /\ Coming(o)' = Coming(o)
  <1>1. /\ held' \in [Sides -> Seq(Messages)] /\ held'[t] = <<m>> /\ held'[o] = held[o]
        /\ pc' \in [Sides -> {"select", "feed", "close", "returned", "panicked"}]
        /\ pc'[t] = "feed" /\ pc'[o] = pc[o]
    <2>1. <<m>> \in Seq(Messages)
      OBVIOUS
    <2> QED BY <2>1 DEF Load, TypeOK, Pair
  <1>2. held[t] = <<>>
    BY DEF Slots
  <1>3. Past(t)' = Append(Past(t), m)
    <2>1. got[t] \in Seq(Messages) /\ out[t] \in Seq(Messages) /\ sink[t] \in Seq(Messages)
      BY Places
    <2>2. got[t] \o (out[t] \o (sink[t] \o <<m>>)) = Append(got[t] \o (out[t] \o (sink[t] \o <<>>)), m)
      BY <2>1, MoveIn
    <2> QED BY <1>1, <1>2, <2>2 DEF Past
  <1> QED BY <1>1, <1>3 DEF Past, Coming

\* The answer to a request is written.
LEMMA PollTasksHolds ==
  ASSUME IInv, NEW t, NEW o, Pair(t, o), PollTasks(t)
  PROVE  IInv'
  <1>1. TypeOK /\ Side(t) /\ Side(o)
    BY DEF IInv, Pair
  <1>2. PICK a \in answers[t] :
          /\ Load(t, a)
          /\ answers' = [answers EXCEPT ![t] = @ \ {a}] /\ tasks' = [tasks EXCEPT ![t] = @ \ {a.id}]
    BY DEF PollTasks
  <1>3. /\ UNCHANGED <<rx, outgoing, outgoing_id, sink, inp, out>>
        /\ UNCHANGED <<sending, sent, asked, answered, got, heard>>
        /\ pc[t] = "select"
    BY DEF PollTasks, peers, Selecting
  <1>4. /\ rx[t] \in Seq(Calls) /\ answers[t] \in SUBSET Responses /\ tasks[t] \in SUBSET Nat
        /\ Past(t) \in Seq(Messages) /\ Coming(t) \in Seq(Messages)
    BY <1>1, PlacesOfBoth
  <1>5. a \in Messages /\ IsResponse(a)
    BY <1>4 DEF Messages, Responses, IsResponse
  <1>6. /\ held' \in [Sides -> Seq(Messages)] /\ held'[t] = <<a>> /\ held'[o] = held[o]
        /\ pc' \in [Sides -> {"select", "feed", "close", "returned", "panicked"}]
        /\ pc'[t] = "feed" /\ pc'[o] = pc[o]
        /\ Past(t)' = Append(Past(t), a) /\ Past(o)' = Past(o)
        /\ Coming(t)' = Coming(t) /\ Coming(o)' = Coming(o)
    BY <1>1, <1>2, <1>3, <1>5, Loaded DEF Side
  <1>7. /\ answers'[t] = answers[t] \ {a} /\ answers'[o] = answers[o]
        /\ tasks'[t] = tasks[t] \ {a.id} /\ tasks'[o] = tasks[o]
        /\ answers' \in [Sides -> SUBSET Responses] /\ tasks' \in [Sides -> SUBSET Nat]
    BY <1>1, <1>2, <1>4 DEF TypeOK, Pair
  <1>8. TypeOK'
    BY <1>1, <1>3, <1>6, <1>7 DEF TypeOK
  <1>9. (Gone(t)' <=> Gone(t)) /\ (Gone(o)' <=> Gone(o)) /\ ~Gone(t)'
    BY <1>3, <1>6 DEF Gone
  <1>10. Slots(t)' /\ Slots(o)' /\ Dropped(t)' /\ Dropped(o)'
    BY <1>1, <1>3, <1>6, <1>7, <1>9 DEF Side, Slots, AtMostOne, Dropped
  <1>11. Log(t)' /\ Log(o)' /\ Heard(t)' /\ Heard(o)'
    BY <1>1, <1>3 DEF Side, Log, Heard
  <1>12. Order(t)'
    <2>1. Ordered(Past(t), rx[t], Coming(t), answers[t]) /\ answers[t] \ {a} \in SUBSET answers[t]
      BY <1>1 DEF Side, Order
    <2>2. Ordered(Append(Past(t), a), rx[t], Coming(t), answers[t] \ {a})
      BY <1>4, <2>1, OrderedAnswer
    <2> QED BY <1>3, <1>6, <1>7, <2>2 DEF Order
  <1>13. Whole(t)'
    <2>1. Complete(Append(Past(t), a), rx[t], Coming(t), Len(sent[o]), FALSE)
      <3>1. Complete(Past(t), rx[t], Coming(t), Len(sent[o]), FALSE)
        BY <1>1, <1>9 DEF Side, Whole, Complete, Pair
      <3> QED BY <1>4, <1>5, <3>1, CompleteAnswer
    <2> QED BY <1>3, <1>6, <1>9, <2>1 DEF Whole, Complete, Pair
  <1>14. Sources(t)' /\ Numbers(t)'
    <2>1. /\ Genuine(Past(t), rx[t], Coming(t), sent[o])
          /\ Numbered(Past(t), rx[t], Coming(t), asked[o], outgoing_id[t])
      BY <1>1 DEF Side, Sources, Numbers, Pair
    <2>2. Genuine(Append(Past(t), a), rx[t], Coming(t), sent[o])
      BY <1>4, <1>5, <2>1, GenuineWrite
    <2>3. Numbered(Append(Past(t), a), rx[t], Coming(t), asked[o], outgoing_id[t])
      BY <1>4, <1>5, <2>1, NumberedAnswer
    <2> QED BY <1>3, <1>6, <2>2, <2>3 DEF Sources, Numbers, Pair
  <1>15. Files(t)'
    <2>1. /\ Filed(outgoing[t], Past(t), sent[o])
          /\ \A m \in Of(Past(t)) : IsCall(m) => m.at \in 1 .. Len(sent[o])
      BY <1>1 DEF Side, Files, Sources, Genuine, Pair
    <2>2. sent[o] \in Seq(Calls)
      BY <1>1 DEF TypeOK, Pair
    <2>3. Filed(outgoing[t], Append(Past(t), a), sent[o])
      BY <1>4, <1>5, <2>1, <2>2, FiledMore
    <2> QED BY <1>3, <1>6, <2>3 DEF Files, Pair
  <1>16. Of(Past(t)') = Of(Past(t)) \cup {a}
    BY <1>4, <1>5, <1>6, OfAppend
  <1>17. News(t)'
    <2>1. a.id \in tasks[t]
      BY <1>1 DEF Side, Single, Once
    <2>2. Taken(t)' \in SUBSET Taken(t)
      BY <1>7, <1>16, <2>1 DEF Taken, ResponseIds
    <2>3. Fresh(Taken(t), Coming(o), asked[t])
      BY <1>1 DEF Side, News, Pair
    <2>4. Fresh(Taken(t)', Coming(o), asked[t])
      BY <2>2, <2>3, FreshFewer
    <2> QED BY <1>3, <1>6, <2>4 DEF News, Pair
  <1>18. Rights(t)'
    <2>1. Right(a, sent[t], Gone(o))
      BY <1>1 DEF Side, Rights, Pair
    <2> QED BY <1>1, <1>3, <1>7, <1>9, <1>16, <2>1 DEF Side, Rights, Right, Pair
  <1>19. Single(t)'
    <2>1. Once(answers[t], tasks[t], Past(t))
      BY <1>1 DEF Side, Single
    <2>2. Once(answers[t] \ {a}, tasks[t] \ {a.id}, Append(Past(t), a))
      BY <1>4, <2>1, OnceAnswer
    <2> QED BY <1>6, <1>7, <2>2 DEF Single
  <1>20. Oneshots(o)'
    <2>1. \A b \in answers[t] : b.id = a.id => b = a
      BY <1>1 DEF Side, Single, Once
    <2>2. Unanswered(t)' = Unanswered(t)
      BY <1>7, <2>1 DEF Unanswered
    <2> QED BY <1>1, <1>3, <1>9, <2>2 DEF Side, Oneshots, Pair
  <1>21. Replied(t)' /\ Replied(o)' /\ Order(o)' /\ Sources(o)' /\ Numbers(o)' /\ Files(o)' /\ Single(o)'
    BY <1>1, <1>3, <1>6, <1>7 DEF Side, Replied, Order, Sources, Numbers, Files, Single
  <1>22. Whole(o)' /\ News(o)' /\ Rights(o)' /\ Oneshots(t)'
    <2>1. Whole(o)'
      BY <1>1, <1>3, <1>6, <1>9 DEF Side, Whole, Complete
    <2>2. News(o)'
      BY <1>1, <1>3, <1>6, <1>7 DEF Side, News, Taken, Pair
    <2>3. Rights(o)'
      BY <1>1, <1>3, <1>6, <1>7, <1>9 DEF Side, Rights, Right, Pair
    <2>4. Oneshots(t)'
      BY <1>1, <1>3, <1>7, <1>9 DEF Side, Oneshots, Unanswered, Pair
    <2> QED BY <2>1, <2>2, <2>3, <2>4
  <1>23. Side(t)' /\ Side(o)'
    BY <1>10, <1>11, <1>12, <1>13, <1>14, <1>15, <1>17, <1>18, <1>19, <1>20, <1>21, <1>22 DEF Side
  <1> QED BY <1>8, <1>23 DEF IInv, Pair

\* There are ids for the requests of one peer among those for both.
LEMMA IdsSuffice ==
  ASSUME NEW n \in Nat, NEW i \in Nat, NEW k \in Nat, n < i, i <= k,
         NEW s \in Sides, k <= Asks[s]
  PROVE  n \in Ids
  <1>1. Asks["editor"] \in Nat /\ Asks["child"] \in Nat /\ (s = "editor" \/ s = "child")
    <2>1. Asks \in [Sides -> Nat]
      BY RelayAssumption
    <2> QED BY <2>1 DEF Sides
  <1> DEFINE a == Asks["editor"]
             b == Asks["child"]
  <1>2. a \in Nat /\ b \in Nat /\ (k <= a \/ k <= b)
    BY <1>1
  <1> HIDE DEF a, b
  <1>3. n <= a + b
    BY <1>2
  <1>4. n <= Total(Asks)
    BY <1>3 DEF Total, a, b
  <1> QED BY <1>4, <1>2 DEF Ids, Total, a, b

\* A forwarded call is passed on to the peer, a request under the next id.
LEMMA TakeEventHolds ==
  ASSUME IInv, NEW t, NEW o, Pair(t, o), Selecting(t), answers[t] = {}, TakeEvent(t)
  PROVE  IInv'
  <1> DEFINE h == Head(rx[t])
             n == outgoing_id[t]
  <1>1. TypeOK /\ Side(t) /\ Side(o)
    BY DEF IInv, Pair
  <1>2. /\ rx[t] # <<>> /\ rx' = [rx EXCEPT ![t] = Tail(@)]
        /\ UNCHANGED <<tasks, answers, sink, inp, out>>
        /\ UNCHANGED <<sending, sent, asked, answered, got, heard>>
        /\ pc[t] = "select"
    BY DEF TakeEvent, peers, Selecting
  <1>3. /\ rx[t] \in Seq(Calls) /\ Past(t) \in Seq(Messages) /\ Coming(t) \in Seq(Messages)
        /\ sent[o] \in Seq(Calls) /\ asked[o] \in Nat /\ n \in Nat
        /\ outgoing[t] \in [Ids -> Nat \cup {None}] /\ Len(sent[o]) \in Nat
    <2>1. sent[o] \in Seq(Calls)
      BY <1>1, PlacesOfBoth
    <2>2. Len(sent[o]) \in Nat
      BY <2>1
    <2> QED BY <1>1, <2>2, PlacesOfBoth
  <1>4. /\ h \in Calls /\ Tail(rx[t]) \in Seq(Calls)
        /\ Of(rx[t]) = {h} \cup Of(Tail(rx[t])) /\ h \in Of(rx[t])
    <2>1. Of(rx[t]) = {h} \cup Of(Tail(rx[t])) /\ h \in Calls /\ Tail(rx[t]) \in Seq(Calls)
      BY <1>2, <1>3, OfTail
    <2> QED BY <2>1
  <1>5. h \in Messages /\ IsCall(h)
    BY <1>4 DEF Messages, Calls, Requests, Notices, IsCall
  <1>6. /\ Ordered(Past(t), rx[t], Coming(t), {})
        /\ Numbered(Past(t), rx[t], Coming(t), asked[o], n)
        /\ Genuine(Past(t), rx[t], Coming(t), sent[o])
        /\ Filed(outgoing[t], Past(t), sent[o])
    BY <1>1 DEF Side, Order, Numbers, Sources, Files, Pair
  <1>7. h.at \in 1 .. Len(sent[o]) /\ sent[o][h.at] = h
    BY <1>4, <1>5, <1>6 DEF Genuine
  <1>8. IsRequest(h) => h.id \in Nat /\ n < h.id /\ h.id <= asked[o] /\ n \in Ids
    <2>1. asked[o] <= Asks[o]
      BY <1>1 DEF Side, Log
    <2>2. IsRequest(h) => h.id \in Nat /\ n < h.id /\ h.id <= asked[o]
      BY <1>4, <1>5, <1>6, MessageFields DEF Numbered
    <2>3. o \in Sides
      BY DEF Pair
    <2>4. ASSUME IsRequest(h) PROVE n \in Ids
      <3> HIDE DEF h, n
      <3> QED BY <1>3, <2>1, <2>2, <2>3, <2>4, IdsSuffice
    <2> QED BY <2>2, <2>4
  <1>9. PICK m :
          /\ Load(t, m) /\ m \in Calls /\ m.at = h.at /\ m.kind = h.kind
          /\ \/ /\ IsRequest(m) /\ m.id = n
                /\ outgoing' = [outgoing EXCEPT ![t][n] = h.id]
                /\ outgoing_id' = [outgoing_id EXCEPT ![t] = n + 1]
             \/ ~IsRequest(m) /\ UNCHANGED <<outgoing, outgoing_id>>
    <2>1. CASE DispatchRequest(t)
      <3>1. h \in Requests
        BY <1>4, <2>1 DEF DispatchRequest, Calls, Notices
      <3> DEFINE q == [h EXCEPT !.id = n]
      <3>2. q \in Requests /\ q.at = h.at /\ q.kind = h.kind /\ q.id = n /\ q.kind = "request"
        BY <1>3, <3>1 DEF Requests
      <3>3. /\ Load(t, q) /\ outgoing' = [outgoing EXCEPT ![t][n] = h.id]
            /\ outgoing_id' = [outgoing_id EXCEPT ![t] = n + 1]
        BY <2>1 DEF DispatchRequest
      <3> HIDE DEF q, h, n
      <3> QED BY <3>2, <3>3 DEF Calls, IsRequest
    <2>2. CASE DispatchOutgoing(t)
      <3>1. /\ Load(t, h) /\ UNCHANGED <<outgoing, outgoing_id>> /\ h.kind = "notification"
        BY <2>2 DEF DispatchOutgoing
      <3> HIDE DEF h, n
      <3> QED BY <1>4, <3>1 DEF IsRequest
    <2> QED BY <2>1, <2>2 DEF TakeEvent
  <1>10. m \in Messages /\ IsCall(m) /\ (IsRequest(m) <=> IsRequest(h))
    BY <1>5, <1>9 DEF Messages, IsCall, IsRequest
  <1>11. /\ held' \in [Sides -> Seq(Messages)] /\ held'[t] = <<m>> /\ held'[o] = held[o]
         /\ pc' \in [Sides -> {"select", "feed", "close", "returned", "panicked"}]
         /\ pc'[t] = "feed" /\ pc'[o] = pc[o]
         /\ Past(t)' = Append(Past(t), m) /\ Past(o)' = Past(o)
         /\ Coming(t)' = Coming(t) /\ Coming(o)' = Coming(o)
    BY <1>1, <1>2, <1>9, <1>10, Loaded DEF Side
  <1>12. /\ rx'[t] = Tail(rx[t]) /\ rx'[o] = rx[o] /\ rx' \in [Sides -> Seq(Calls)]
    BY <1>1, <1>2, <1>4 DEF TypeOK, Pair
  <1> HIDE DEF h, n
  <1>13. /\ \/ /\ IsRequest(m) /\ m.id = n /\ IsRequest(h)
               /\ outgoing'[t] = [outgoing[t] EXCEPT ![n] = h.id] /\ outgoing_id'[t] = n + 1
            \/ ~IsRequest(m) /\ outgoing'[t] = outgoing[t] /\ outgoing_id'[t] = n
         /\ outgoing'[o] = outgoing[o] /\ outgoing_id'[o] = outgoing_id[o]
         /\ outgoing' \in [Sides -> [Ids -> Nat \cup {None}]] /\ outgoing_id' \in [Sides -> Nat]
    <2>1. outgoing \in [Sides -> [Ids -> Nat \cup {None}]] /\ outgoing_id \in [Sides -> Nat]
      BY <1>1 DEF TypeOK
    <2>2. t \in Sides /\ o \in Sides /\ t # o
      BY DEF Pair
    <2>3. CASE ~IsRequest(m)
      <3>1. UNCHANGED <<outgoing, outgoing_id>>
        BY <1>9, <2>3
      <3> QED BY <2>1, <2>3, <3>1 DEF n
    <2>4. CASE IsRequest(m)
      <3>1. /\ m.id = n /\ outgoing' = [outgoing EXCEPT ![t][n] = h.id]
            /\ outgoing_id' = [outgoing_id EXCEPT ![t] = n + 1]
        BY <1>9, <2>4
      <3>2. n + 1 \in Nat /\ h.id \in Nat
        BY <1>3, <1>8, <1>10, <2>4
      <3>3. /\ outgoing_id'[t] = n + 1 /\ outgoing_id'[o] = outgoing_id[o]
            /\ outgoing_id' \in [Sides -> Nat]
        BY <2>1, <2>2, <3>1, <3>2
      <3>4. /\ outgoing'[t] = [outgoing[t] EXCEPT ![n] = h.id] /\ outgoing'[o] = outgoing[o]
            /\ outgoing' \in [Sides -> [Ids -> Nat \cup {None}]]
        <4>1. [outgoing[t] EXCEPT ![n] = h.id] \in [Ids -> Nat \cup {None}]
          BY <2>1, <2>2, <3>2
        <4> QED BY <2>1, <2>2, <3>1, <4>1
      <3> QED BY <1>10, <2>4, <3>1, <3>3, <3>4
    <2> QED BY <2>3, <2>4
  <1>14. TypeOK'
    BY <1>1, <1>2, <1>11, <1>12, <1>13 DEF TypeOK
  <1>15. (Gone(t)' <=> Gone(t)) /\ (Gone(o)' <=> Gone(o)) /\ ~Gone(t)'
    BY <1>2, <1>11 DEF Gone
  <1>16. Slots(t)' /\ Slots(o)' /\ Dropped(t)' /\ Dropped(o)'
    BY <1>1, <1>2, <1>11, <1>12, <1>13, <1>15 DEF Side, Slots, AtMostOne, Dropped
  <1>17. Log(t)' /\ Log(o)' /\ Heard(t)' /\ Heard(o)'
    BY <1>1, <1>2 DEF Side, Log, Heard
  <1>18. Order(t)'
    <2>1. IsRequest(m) => \A x \in Of(Past(t)) : IsRequest(x) => x.id < m.id
      BY <1>6, <1>9 DEF Numbered
    <2>2. Ordered(Append(Past(t), m), Tail(rx[t]), Coming(t), {})
      BY <1>2, <1>3, <1>6, <1>9, <2>1, OrderedCall DEF h
    <2> QED BY <1>2, <1>11, <1>12, <2>2 DEF Order
  <1>19. Whole(t)'
    <2>1. Complete(Past(t), rx[t], Coming(t), Len(sent[o]), FALSE)
      BY <1>1, <1>15 DEF Side, Whole, Complete, Pair
    <2>2. h.at <= Len(sent[o])
      BY <1>3, <1>7
    <2>3. Complete(Append(Past(t), m), Tail(rx[t]), Coming(t), Len(sent[o]), FALSE)
      BY <1>2, <1>3, <1>6, <1>9, <2>1, <2>2, CompleteCall DEF h
    <2> QED BY <1>2, <1>11, <1>12, <1>15, <2>3 DEF Whole, Complete, Pair
  <1>20. Sources(t)'
    <2>1. Genuine(Append(Past(t), m), Tail(rx[t]), Coming(t), sent[o])
      BY <1>2, <1>3, <1>6, <1>9, <1>10, GenuineWrite DEF h
    <2> QED BY <1>2, <1>11, <1>12, <2>1 DEF Sources, Pair
  <1>21. Numbers(t)'
    <2>1. /\ IsRequest(m) /\ m.id = n => Numbered(Append(Past(t), m), Tail(rx[t]), Coming(t), asked[o], n + 1)
          /\ ~IsRequest(m) => Numbered(Append(Past(t), m), Tail(rx[t]), Coming(t), asked[o], n)
      BY <1>2, <1>3, <1>6, <1>9, NumberedCall DEF h
    <2>2. Numbered(Append(Past(t), m), Tail(rx[t]), Coming(t), asked[o], outgoing_id'[t])
      BY <1>13, <2>1
    <2> QED BY <1>2, <1>11, <1>12, <2>2 DEF Numbers, Pair
  <1>22. Files(t)'
    <2>1. \A x \in Of(Past(t)) : IsCall(x) => x.at \in 1 .. Len(sent[o])
      BY <1>6 DEF Genuine
    <2>2. Filed(outgoing[t], Append(Past(t), m), sent[o])
      BY <1>3, <1>6, <1>10, <2>1, FiledMore
    <2>3. ASSUME IsRequest(m), m.id = n
          PROVE  Filed([outgoing[t] EXCEPT ![n] = h.id], Append(Past(t), m), sent[o])
      <3>1. sent[o][m.at].id = h.id
        BY <1>7, <1>9
      <3>2. Filed([outgoing[t] EXCEPT ![m.id] = h.id], Append(Past(t), m), sent[o])
        BY <1>3, <1>6, <1>10, <2>3, <3>1, FiledCall
      <3> QED BY <2>3, <3>2
    <2>4. Filed(outgoing'[t], Append(Past(t), m), sent[o])
      BY <1>13, <2>2, <2>3
    <2> QED BY <1>2, <1>11, <2>4 DEF Files, Pair
  <1>23. Of(Past(t)') = Of(Past(t)) \cup {m} /\ ~IsResponse(m)
    BY <1>3, <1>10, <1>11, OfAppend, MessageFields
  <1>24. News(t)'
    <2>1. Taken(t)' = Taken(t)
      BY <1>2, <1>23 DEF Taken, ResponseIds
    <2> QED BY <1>1, <1>2, <1>11, <2>1 DEF Side, News, Pair
  <1>25. Rights(t)'
    BY <1>1, <1>2, <1>15, <1>23 DEF Side, Rights, Right, Pair
  <1>26. Single(t)'
    <2>1. Once(answers[t], tasks[t], Past(t))
      BY <1>1 DEF Side, Single
    <2>2. Once(answers[t], tasks[t], Append(Past(t), m))
      BY <1>3, <1>10, <2>1, OnceCall
    <2> QED BY <1>2, <1>11, <2>2 DEF Single
  <1>27. Oneshots(t)'
    <2> SUFFICES ASSUME ~Gone(o)' PROVE Apart(outgoing[t]', rx[t]', Unanswered(o)')
      BY DEF Oneshots, Pair
    <2>1. Unanswered(o)' = Unanswered(o)
      BY <1>2 DEF Unanswered
    <2>2. Apart(outgoing[t], rx[t], Unanswered(o)) /\ Sorted(rx[t])
      BY <1>1, <1>6, <1>15 DEF Side, Oneshots, Ordered, Pair
    <2>3. /\ Apart(outgoing[t], Tail(rx[t]), Unanswered(o))
          /\ IsRequest(h) => \A p : Apart([outgoing[t] EXCEPT ![p] = h.id], Tail(rx[t]), Unanswered(o))
      BY <1>2, <1>3, <2>2, ApartCall DEF h
    <2>4. Apart(outgoing'[t], Tail(rx[t]), Unanswered(o))
      BY <1>13, <2>3
    <2> QED BY <1>12, <2>1, <2>4
  <1>28. Replied(t)' /\ Replied(o)' /\ Order(o)' /\ Sources(o)' /\ Numbers(o)' /\ Files(o)' /\ Single(o)'
    BY <1>1, <1>2, <1>11, <1>12, <1>13 DEF Side, Replied, Order, Sources, Numbers, Files, Single
  <1>29. Whole(o)' /\ News(o)' /\ Rights(o)' /\ Oneshots(o)'
    <2>1. Whole(o)'
      BY <1>1, <1>2, <1>11, <1>12, <1>15 DEF Side, Whole, Complete
    <2>2. News(o)'
      BY <1>1, <1>2, <1>11 DEF Side, News, Taken, Pair
    <2>3. Rights(o)'
      BY <1>1, <1>2, <1>11, <1>15 DEF Side, Rights, Right, Pair
    <2>4. Oneshots(o)'
      BY <1>1, <1>2, <1>12, <1>13, <1>15 DEF Side, Oneshots, Unanswered, Pair
    <2> QED BY <2>1, <2>2, <2>3, <2>4
  <1>30. Side(t)' /\ Side(o)'
    BY <1>16, <1>17, <1>18, <1>19, <1>20, <1>21, <1>22, <1>24, <1>25, <1>26, <1>27, <1>28, <1>29 DEF Side
  <1> QED BY <1>14, <1>30 DEF IInv, Pair

\* A loop reads a message of its peer.
LEMMA Received ==
  ASSUME TypeOK, NEW t, NEW o, Pair(t, o), inp[t] # <<>>, inp' = [inp EXCEPT ![t] = Tail(@)],
         UNCHANGED <<sending, held, sink, out, got>>
  PROVE  /\ Coming(o) # <<>> /\ Head(inp[t]) = Head(Coming(o)) /\ Head(inp[t]) \in Messages
         /\ Coming(o)' = Tail(Coming(o)) /\ Coming(t)' = Coming(t)
         /\ Past(t)' = Past(t) /\ Past(o)' = Past(o)
         /\ inp' \in [Sides -> Seq(Messages)]
         /\ Of(Coming(o)) = {Head(inp[t])} \cup Of(Coming(o)')
  <1>1. inp[t] \in Seq(Messages) /\ sending[t] \in Seq(Messages) /\ Coming(o) = inp[t] \o sending[t]
    BY Places
  <1>2. Tail(inp[t]) \in Seq(Messages) /\ Head(inp[t]) \in Messages
    BY <1>1, HeadFirst
  <1>3. inp'[t] = Tail(inp[t]) /\ inp'[o] = inp[o] /\ inp' \in [Sides -> Seq(Messages)]
    BY <1>2 DEF TypeOK, Pair
  <1>4. /\ Head(inp[t] \o sending[t]) = Head(inp[t])
        /\ Tail(inp[t] \o sending[t]) = Tail(inp[t]) \o sending[t]
        /\ inp[t] \o sending[t] # <<>> /\ inp[t] \o sending[t] \in Seq(Messages)
    BY <1>1, <1>2, FirstOfTwo, OfConcat
  <1>5. Coming(o)' = Tail(inp[t]) \o sending[t]
    BY <1>3 DEF Coming, Pair
  <1>6. Coming(t)' = Coming(t) /\ Past(t)' = Past(t) /\ Past(o)' = Past(o)
    BY <1>3 DEF Coming, Past, Pair
  <1>7. Of(Coming(o)) = {Head(inp[t])} \cup Of(Coming(o)')
    BY <1>1, <1>4, <1>5, OfTail
  <1> QED BY <1>1, <1>2, <1>3, <1>4, <1>5, <1>6, <1>7

\* A call that a loop reads is forwarded to the other loop, if it is there; a
\* request has a future from now on, which knows at once if it is not.
LEMMA CallHolds ==
  ASSUME IInv, NEW t, NEW o, Pair(t, o), OnCall(t) \/ OnNotify(t)
  PROVE  IInv'
  <1> DEFINE h == Head(inp[t])
  <1>1. TypeOK /\ Side(t) /\ Side(o)
    BY DEF IInv, Pair
  <1>2. /\ inp[t] # <<>> /\ inp' = [inp EXCEPT ![t] = Tail(@)] /\ pc[t] = "select"
        /\ UNCHANGED <<outgoing, outgoing_id, held, sink, out>>
        /\ UNCHANGED <<sending, sent, asked, answered, got, heard>>
        /\ rx' = IF Gone(o) THEN rx ELSE [rx EXCEPT ![o] = Append(@, h)]
    BY DEF OnCall, OnNotify, Receive, SendOther, peers, Selecting, Pair
  <1>3. \/ /\ IsRequest(h) /\ UNCHANGED pc
           /\ tasks' = [tasks EXCEPT ![t] = @ \cup {h.id}]
           /\ answers' = IF Gone(o) THEN [answers EXCEPT ![t] = @ \cup {Stopped(h.id)}] ELSE answers
        \/ /\ h.kind = "notification" /\ UNCHANGED <<tasks, answers>>
           /\ pc' = IF Gone(o) THEN [pc EXCEPT ![t] = "close"] ELSE pc
    BY DEF OnCall, OnNotify, Receive, Pair, IsRequest
  <1>4. /\ Coming(o) # <<>> /\ h = Head(Coming(o)) /\ h \in Messages
        /\ Coming(o)' = Tail(Coming(o)) /\ Coming(t)' = Coming(t)
        /\ Past(t)' = Past(t) /\ Past(o)' = Past(o)
        /\ inp' \in [Sides -> Seq(Messages)]
        /\ Of(Coming(o)) = {h} \cup Of(Coming(o)')
    BY <1>1, <1>2, Received
  <1> HIDE DEF h
  <1>5. /\ rx[o] \in Seq(Calls) /\ Past(o) \in Seq(Messages) /\ Coming(o) \in Seq(Messages)
        /\ Past(t) \in Seq(Messages) /\ Coming(t) \in Seq(Messages) /\ rx[t] \in Seq(Calls)
        /\ answers[t] \in SUBSET Responses /\ answers[o] \in SUBSET Responses
        /\ tasks[t] \in SUBSET Nat /\ asked[t] \in Nat
        /\ outgoing[o] \in [Ids -> Nat \cup {None}]
    BY <1>1, PlacesOfBoth
  <1>6. IsCall(h) /\ h \in Calls /\ (IsRequest(h) => h.id \in Nat)
    BY <1>3, <1>4, MessageFields
  <1>7. h \in Of(Coming(o))
    BY <1>4
  <1>8. /\ Ordered(Past(o), rx[o], Coming(o), answers[o])
        /\ Numbered(Past(o), rx[o], Coming(o), asked[t], outgoing_id[o])
        /\ Genuine(Past(o), rx[o], Coming(o), sent[t])
        /\ Fresh(Taken(t), Coming(o), asked[t])
        /\ Replies(Coming(o), got[t])
        /\ Once(answers[t], tasks[t], Past(t))
    BY <1>1 DEF Side, Order, Numbers, Sources, News, Replied, Single, Pair
  <1>9. IsRequest(h) => h.id <= asked[t] /\ h.id \notin Taken(t) /\ h.id \notin tasks[t]
    <2>1. IsRequest(h) => h.id <= asked[t]
      BY <1>7, <1>8 DEF Numbered
    <2>2. Sorted(Coming(o))
      BY <1>8 DEF Ordered
    <2>3. IsRequest(h) => h.id \notin Taken(t)
      BY <1>4, <1>5, <1>8, <2>2, FreshReceive
    <2> QED BY <2>1, <2>3 DEF Taken
  <1>10. /\ rx'[o] = IF Gone(o) THEN rx[o] ELSE Append(rx[o], h)
         /\ rx'[t] = rx[t] /\ rx' \in [Sides -> Seq(Calls)]
    <2>1. Append(rx[o], h) \in Seq(Calls)
      BY <1>5, <1>6
    <2> QED BY <1>1, <1>2, <2>1 DEF TypeOK, Pair
  <1>11. /\ tasks'[o] = tasks[o] /\ answers'[o] = answers[o] /\ pc'[o] = pc[o]
         /\ pc'[t] \in {"select", "close"}
         /\ tasks'[t] = IF IsRequest(h) THEN tasks[t] \cup {h.id} ELSE tasks[t]
         /\ answers'[t] = IF IsRequest(h) /\ Gone(o) THEN answers[t] \cup {Stopped(h.id)} ELSE answers[t]
         /\ tasks' \in [Sides -> SUBSET Nat] /\ answers' \in [Sides -> SUBSET Responses]
         /\ pc' \in [Sides -> {"select", "feed", "close", "returned", "panicked"}]
    <2>1. CASE IsRequest(h)
      <3>1. h.id \in Nat /\ Stopped(h.id) \in Responses
        BY <1>6, <2>1 DEF Stopped, Responses
      <3>2. /\ UNCHANGED pc /\ tasks' = [tasks EXCEPT ![t] = @ \cup {h.id}]
            /\ answers' = IF Gone(o) THEN [answers EXCEPT ![t] = @ \cup {Stopped(h.id)}] ELSE answers
        BY <1>3, <2>1 DEF IsRequest
      <3>3. tasks[t] \cup {h.id} \in SUBSET Nat /\ answers[t] \cup {Stopped(h.id)} \in SUBSET Responses
        BY <1>5, <3>1
      <3> QED BY <1>1, <1>2, <2>1, <3>2, <3>3 DEF TypeOK, Pair
    <2>2. CASE ~IsRequest(h)
      BY <1>1, <1>2, <1>3, <2>2 DEF TypeOK, Pair
    <2> QED BY <2>1, <2>2
  <1>12. TypeOK'
    BY <1>1, <1>2, <1>4, <1>10, <1>11 DEF TypeOK
  <1>13. (Gone(t)' <=> Gone(t)) /\ (Gone(o)' <=> Gone(o)) /\ ~Gone(t)'
    BY <1>2, <1>11 DEF Gone
  <1>14. Slots(t)' /\ Slots(o)' /\ Dropped(t)' /\ Dropped(o)'
    BY <1>1, <1>2, <1>10, <1>11, <1>13 DEF Side, Slots, AtMostOne, Dropped
  <1>15. Log(t)' /\ Log(o)' /\ Heard(t)' /\ Heard(o)'
    BY <1>1, <1>2 DEF Side, Log, Heard
  <1>16. Order(o)'
    <2>1. /\ Ordered(Past(o), rx[o], Tail(Coming(o)), answers[o])
          /\ Ordered(Past(o), Append(rx[o], h), Tail(Coming(o)), answers[o])
      BY <1>4, <1>5, <1>6, <1>8, OrderedReceive
    <2> QED BY <1>4, <1>10, <1>11, <2>1 DEF Order
  <1>17. Order(t)'
    <2>1. Ordered(Past(t), rx[t], Coming(t), answers[t])
      BY <1>1 DEF Side, Order
    <2>2. \A b \in {Stopped(h.id)} : IsResponse(b) /\ b.for = None
      BY DEF Stopped, IsResponse
    <2>3. Ordered(Past(t), rx[t], Coming(t), answers[t] \cup {Stopped(h.id)})
      BY <1>5, <2>1, <2>2, OrderedStopped
    <2> QED BY <1>4, <1>10, <1>11, <2>1, <2>3 DEF Order
  <1>18. Whole(o)'
    <2>1. CASE Gone(o)
      <3>1. Complete(Past(o), rx[o], Coming(o), Len(sent[t]), TRUE)
        BY <1>1, <2>1 DEF Side, Whole, Complete, Pair
      <3>2. Complete(Past(o), rx[o], Tail(Coming(o)), Len(sent[t]), TRUE)
        BY <1>4, <1>5, <3>1, CompleteReceive
      <3> QED BY <1>2, <1>4, <1>10, <1>13, <2>1, <3>2 DEF Whole, Complete, Pair
    <2>2. CASE ~Gone(o)
      <3>1. Complete(Past(o), rx[o], Coming(o), Len(sent[t]), FALSE)
        BY <1>1, <2>2 DEF Side, Whole, Complete, Pair
      <3>2. Complete(Past(o), Append(rx[o], h), Tail(Coming(o)), Len(sent[t]), FALSE)
        BY <1>4, <1>5, <1>6, <3>1, CompleteReceive
      <3> QED BY <1>2, <1>4, <1>10, <1>13, <2>2, <3>2 DEF Whole, Complete, Pair
    <2> QED BY <2>1, <2>2
  <1>19. Sources(o)' /\ Numbers(o)'
    <2>1. /\ Genuine(Past(o), rx[o], Tail(Coming(o)), sent[t])
          /\ Genuine(Past(o), Append(rx[o], h), Tail(Coming(o)), sent[t])
      BY <1>4, <1>5, <1>6, <1>8, GenuineReceive
    <2>2. /\ Numbered(Past(o), rx[o], Tail(Coming(o)), asked[t], outgoing_id[o])
          /\ Numbered(Past(o), Append(rx[o], h), Tail(Coming(o)), asked[t], outgoing_id[o])
      BY <1>4, <1>5, <1>6, <1>8, NumberedReceive
    <2> QED BY <1>2, <1>4, <1>10, <2>1, <2>2 DEF Sources, Numbers, Pair
  <1>20. News(t)'
    <2>1. /\ Fresh(Taken(t), Tail(Coming(o)), asked[t])
          /\ IsRequest(h) => Fresh(Taken(t) \cup {h.id}, Tail(Coming(o)), asked[t])
      <3>1. Sorted(Coming(o))
        BY <1>8 DEF Ordered
      <3> QED BY <1>4, <1>5, <1>8, <1>9, <3>1, FreshReceive
    <2>2. Taken(t)' = IF IsRequest(h) THEN Taken(t) \cup {h.id} ELSE Taken(t)
      BY <1>4, <1>11 DEF Taken
    <2>3. Fresh(Taken(t)', Tail(Coming(o)), asked[t])
      BY <2>1, <2>2
    <2> QED BY <1>2, <1>4, <2>3 DEF News, Pair
  <1>21. Replied(o)'
    <2>1. Replies(Tail(Coming(o)), got[t])
      BY <1>4, <1>5, <1>8, RepliesReceive
    <2> QED BY <1>2, <1>4, <2>1 DEF Replied, Pair
  <1>22. Rights(t)'
    <2>1. Gone(o) => Right(Stopped(h.id), sent[t], Gone(o))
      BY DEF Right, Stopped
    <2> QED BY <1>1, <1>2, <1>4, <1>11, <1>13, <2>1 DEF Side, Rights, Right, Pair
  <1>23. Single(t)'
    <2>1. CASE ~IsRequest(h)
      BY <1>4, <1>8, <1>11, <2>1 DEF Single
    <2>2. CASE IsRequest(h)
      <3>1. h.id \notin ResponseIds(Of(Past(t)))
        BY <1>9, <2>2 DEF Taken
      <3>2. Once(answers[t], tasks[t] \cup {h.id}, Past(t))
        BY <1>8, <3>1, OnceTake
      <3>3. \A a \in answers[t] : a.id # h.id
        BY <1>8, <1>9, <2>2 DEF Once
      <3>4. \A b \in {Stopped(h.id)} : b.id \in tasks[t] \cup {h.id} /\ \A a \in answers[t] : a.id # b.id
        BY <3>3 DEF Stopped
      <3>5. \A a, b \in {Stopped(h.id)} : a.id = b.id => a = b
        OBVIOUS
      <3>6. Once(answers[t] \cup {Stopped(h.id)}, tasks[t] \cup {h.id}, Past(t))
        BY <3>2, <3>4, <3>5, OnceResolve
      <3> QED BY <1>4, <1>11, <2>2, <3>2, <3>6 DEF Single
    <2> QED BY <2>1, <2>2
  <1>24. Oneshots(o)'
    <2>1. Apart(outgoing[o], rx[o], Unanswered(t))
      BY <1>1, <1>13 DEF Side, Oneshots, Pair
    <2>2. IsRequest(h) => h.id \notin Unanswered(t)
      BY <1>9 DEF Unanswered
    <2>3. CASE Gone(o)
      <3>1. Unanswered(t)' = Unanswered(t)
        <4>1. Stopped(h.id).id = h.id
          BY DEF Stopped
        <4>2. CASE IsRequest(h)
          <5> DEFINE b == Stopped(h.id)
          <5>1. /\ answers'[t] = answers[t] \cup {b} /\ b.id = h.id
                /\ tasks'[t] = tasks[t] \cup {h.id} /\ h.id \notin tasks[t]
            BY <1>9, <1>11, <2>3, <4>1, <4>2
          <5> HIDE DEF b
          <5> QED BY <5>1 DEF Unanswered
        <4>3. CASE ~IsRequest(h)
          BY <1>11, <4>3 DEF Unanswered
        <4> QED BY <4>2, <4>3
      <3> QED BY <1>2, <1>10, <2>1, <2>3, <3>1 DEF Oneshots, Pair
    <2>4. CASE ~Gone(o) /\ ~IsRequest(h)
      <3>1. Unanswered(t)' = Unanswered(t)
        BY <1>11, <2>4 DEF Unanswered
      <3>2. Apart(outgoing[o], Append(rx[o], h), Unanswered(t))
        BY <1>5, <1>6, <2>1, <2>4, ApartReceive
      <3> QED BY <1>2, <1>10, <2>4, <3>1, <3>2 DEF Oneshots, Pair
    <2>5. CASE ~Gone(o) /\ IsRequest(h)
      <3>1. h.id \notin {a.id : a \in answers[t]}
        BY <1>8, <1>9, <2>5 DEF Once
      <3>2. Unanswered(t)' = Unanswered(t) \cup {h.id}
        BY <1>11, <2>5, <3>1 DEF Unanswered
      <3>3. Apart(outgoing[o], Append(rx[o], h), Unanswered(t) \cup {h.id})
        BY <1>5, <1>6, <2>1, <2>2, <2>5, ApartReceive
      <3> QED BY <1>2, <1>10, <2>5, <3>2, <3>3 DEF Oneshots, Pair
    <2> QED BY <2>3, <2>4, <2>5
  <1>25. Whole(t)' /\ Sources(t)' /\ Numbers(t)' /\ Files(t)' /\ Files(o)' /\ Replied(t)' /\ Single(o)'
    <2>1. Whole(t)'
      BY <1>1, <1>2, <1>4, <1>10, <1>13 DEF Side, Whole, Complete
    <2> QED BY <1>1, <1>2, <1>4, <1>10, <1>11, <2>1 DEF Side, Sources, Numbers, Files, Replied, Single
  <1>26. News(o)' /\ Rights(o)' /\ Oneshots(t)'
    <2>1. News(o)'
      BY <1>1, <1>2, <1>4, <1>11 DEF Side, News, Taken, Pair
    <2>2. Rights(o)'
      BY <1>1, <1>2, <1>4, <1>11, <1>13 DEF Side, Rights, Right, Pair
    <2>3. Oneshots(t)'
      BY <1>1, <1>2, <1>10, <1>11, <1>13 DEF Side, Oneshots, Unanswered, Pair
    <2> QED BY <2>1, <2>2, <2>3
  <1>27. Side(t)' /\ Side(o)'
    BY <1>14, <1>15, <1>16, <1>17, <1>18, <1>19, <1>20, <1>21, <1>22, <1>23, <1>24, <1>25, <1>26 DEF Side
  <1> QED BY <1>12, <1>27 DEF IInv, Pair

\* A response that a loop reads resolves the oneshot filed under its id, if
\* there is one, and the future in the other loop has its answer.
LEMMA OnResponseHolds ==
  ASSUME IInv, NEW t, NEW o, Pair(t, o), OnResponse(t)
  PROVE  IInv'
  <1> DEFINE h == Head(inp[t])
             i == outgoing[t][h.id]
             r == [h EXCEPT !.id = i]
             lost == i = None \/ Gone(o)
  <1>1. TypeOK /\ Side(t) /\ Side(o)
    BY DEF IInv, Pair
  <1>2. /\ inp[t] # <<>> /\ inp' = [inp EXCEPT ![t] = Tail(@)] /\ pc[t] = "select"
        /\ UNCHANGED <<pc, rx, tasks, outgoing_id, held, sink, out>>
        /\ UNCHANGED <<sending, sent, asked, answered, got, heard>>
        /\ IsResponse(h)
        /\ outgoing' = [outgoing EXCEPT ![t][h.id] = None]
        /\ answers' = IF lost THEN answers ELSE [answers EXCEPT ![o] = @ \cup {r}]
    BY DEF OnResponse, Receive, peers, Selecting, Pair, IsResponse
  <1>3. /\ Coming(o) # <<>> /\ h = Head(Coming(o)) /\ h \in Messages
        /\ Coming(o)' = Tail(Coming(o)) /\ Coming(t)' = Coming(t)
        /\ Past(t)' = Past(t) /\ Past(o)' = Past(o)
        /\ inp' \in [Sides -> Seq(Messages)]
        /\ Of(Coming(o)) = {h} \cup Of(Coming(o)')
    BY <1>1, <1>2, Received
  <1> HIDE DEF h
  <1>4. /\ rx[o] \in Seq(Calls) /\ Past(o) \in Seq(Messages) /\ Coming(o) \in Seq(Messages)
        /\ Past(t) \in Seq(Messages) /\ Coming(t) \in Seq(Messages) /\ rx[t] \in Seq(Calls)
        /\ answers[t] \in SUBSET Responses /\ answers[o] \in SUBSET Responses
        /\ tasks[o] \in SUBSET Nat /\ asked[t] \in Nat /\ asked[o] \in Nat /\ outgoing_id[t] \in Nat
        /\ outgoing[t] \in [Ids -> Nat \cup {None}]
    BY <1>1, PlacesOfBoth
  <1>5. h \in Responses /\ h.id \in Nat /\ h \in Of(Coming(o)) /\ ~IsCall(h)
    BY <1>2, <1>3, MessageFields
  <1>6. /\ Ordered(Past(o), rx[o], Coming(o), answers[o])
        /\ Numbered(Past(o), rx[o], Coming(o), asked[t], outgoing_id[o])
        /\ Genuine(Past(o), rx[o], Coming(o), sent[t])
        /\ Fresh(Taken(t), Coming(o), asked[t])
        /\ Replies(Coming(o), got[t])
        /\ Once(answers[o], tasks[o], Past(o))
        /\ Filed(outgoing[t], Past(t), sent[o])
    BY <1>1 DEF Side, Order, Numbers, Sources, News, Replied, Single, Files, Pair
  <1>7. Of(got[t]) \subseteq Of(Past(t))
    BY <1>1, Places
  <1>8. h.for # None /\ h.id \in Ids
    <2>1. PICK g \in Of(got[t]) : h.for # None /\ IsRequest(g) /\ g.id = h.id /\ g.at = h.for
      BY <1>2, <1>5, <1>6 DEF Replies
    <2>2. Numbered(Past(t), rx[t], Coming(t), asked[o], outgoing_id[t]) /\ asked[o] <= Asks[o]
      BY <1>1 DEF Side, Numbers, Log, Pair
    <2>3. h.id < outgoing_id[t] /\ outgoing_id[t] <= asked[o]
      BY <1>7, <2>1, <2>2 DEF Numbered
    <2>4. o \in Sides
      BY DEF Pair
    <2>5. h.id \in Ids
      BY <1>4, <1>5, <2>2, <2>3, <2>4, IdsSuffice
    <2> QED BY <2>1, <2>5
  <1>9. i \in Nat \cup {None}
    BY <1>4, <1>8
  <1>10. ~lost => /\ r \in Responses /\ r \in Messages /\ IsResponse(r)
                  /\ r.id = i /\ r.at = h.at /\ r.for = h.for /\ i \in Nat
    BY <1>5, <1>9 DEF Responses, Messages, IsResponse
  <1>11. /\ answers'[o] = (IF lost THEN answers[o] ELSE answers[o] \cup {r})
         /\ answers'[t] = answers[t] /\ answers' \in [Sides -> SUBSET Responses]
    <2> HIDE DEF r, i
    <2>1. CASE lost
      <3>1. UNCHANGED answers
        BY <1>2, <2>1
      <3> QED BY <1>1, <2>1, <3>1 DEF TypeOK
    <2>2. CASE ~lost
      <3>1. answers' = [answers EXCEPT ![o] = @ \cup {r}] /\ answers[o] \cup {r} \in SUBSET Responses
        BY <1>2, <1>4, <1>10, <2>2
      <3> HIDE DEF lost
      <3> QED BY <1>1, <2>2, <3>1 DEF TypeOK, Pair
    <2> QED BY <2>1, <2>2
  <1>12. /\ outgoing'[t] = [outgoing[t] EXCEPT ![h.id] = None] /\ outgoing'[o] = outgoing[o]
         /\ outgoing' \in [Sides -> [Ids -> Nat \cup {None}]]
    <2>1. [outgoing[t] EXCEPT ![h.id] = None] \in [Ids -> Nat \cup {None}]
      BY <1>4
    <2> HIDE DEF lost, r, i
    <2> QED BY <1>1, <1>2, <2>1 DEF TypeOK, Pair
  <1>13. TypeOK'
    BY <1>1, <1>2, <1>3, <1>11, <1>12 DEF TypeOK
  <1>14. (Gone(t)' <=> Gone(t)) /\ (Gone(o)' <=> Gone(o)) /\ ~Gone(t) /\ (Gone(o) => lost)
    BY <1>2 DEF Gone
  <1> HIDE DEF lost, r, i
  <1>15. Slots(t)' /\ Slots(o)' /\ Dropped(t)' /\ Dropped(o)'
    BY <1>1, <1>2, <1>11, <1>12, <1>14 DEF Side, Slots, AtMostOne, Dropped
  <1>16. Log(t)' /\ Log(o)' /\ Heard(t)' /\ Heard(o)'
    BY <1>1, <1>2 DEF Side, Log, Heard
  <1>17. Order(o)'
    <2>1. /\ Ordered(Past(o), rx[o], Tail(Coming(o)), answers[o])
          /\ \A x \in Responses : IsResponse(h) /\ h.for # None /\ x.at = h.at
               => Ordered(Past(o), rx[o], Tail(Coming(o)), answers[o] \cup {x})
      BY <1>3, <1>4, <1>6, OrderedReceive
    <2>2. ~lost => Ordered(Past(o), rx[o], Tail(Coming(o)), answers[o] \cup {r})
      BY <1>2, <1>8, <1>10, <2>1
    <2> QED BY <1>2, <1>3, <1>11, <2>1, <2>2 DEF Order
  <1>18. Whole(o)'
    <2>1. Complete(Past(o), rx[o], Coming(o), Len(sent[t]), Gone(o))
      BY <1>1 DEF Side, Whole, Pair
    <2>2. CASE Gone(o)
      <3>1. Complete(Past(o), rx[o], Coming(o), Len(sent[t]), TRUE)
        BY <2>1, <2>2 DEF Complete
      <3>2. Complete(Past(o), rx[o], Tail(Coming(o)), Len(sent[t]), TRUE)
        BY <1>3, <1>4, <3>1, CompleteReceive
      <3> QED BY <1>2, <1>3, <1>14, <2>2, <3>2 DEF Whole, Complete, Pair
    <2>3. CASE ~Gone(o)
      <3>1. Complete(Past(o), rx[o], Coming(o), Len(sent[t]), FALSE)
        BY <2>1, <2>3 DEF Complete
      <3>2. Complete(Past(o), rx[o], Tail(Coming(o)), Len(sent[t]), FALSE)
        BY <1>2, <1>3, <1>4, <3>1, CompleteReceive
      <3> QED BY <1>2, <1>3, <1>14, <2>3, <3>2 DEF Whole, Complete, Pair
    <2> QED BY <2>2, <2>3
  <1>19. Sources(o)' /\ Numbers(o)'
    <2>1. Genuine(Past(o), rx[o], Tail(Coming(o)), sent[t])
      BY <1>3, <1>4, <1>6, GenuineReceive
    <2>2. Numbered(Past(o), rx[o], Tail(Coming(o)), asked[t], outgoing_id[o])
      BY <1>3, <1>4, <1>6, NumberedReceive
    <2> QED BY <1>2, <1>3, <2>1, <2>2 DEF Sources, Numbers, Pair
  <1>20. News(t)'
    <2>1. Fresh(Taken(t), Tail(Coming(o)), asked[t])
      <3>1. Sorted(Coming(o))
        BY <1>6 DEF Ordered
      <3> QED BY <1>3, <1>4, <1>6, <3>1, FreshReceive
    <2>2. Taken(t)' = Taken(t)
      BY <1>2, <1>3 DEF Taken
    <2> QED BY <1>2, <1>3, <2>1, <2>2 DEF News, Pair
  <1>21. Replied(o)'
    <2>1. Replies(Tail(Coming(o)), got[t])
      BY <1>3, <1>4, <1>6, RepliesReceive
    <2> QED BY <1>2, <1>3, <2>1 DEF Replied, Pair
  <1>22. Files(t)'
    <2>1. Filed([outgoing[t] EXCEPT ![h.id] = None], Past(t), sent[o])
      BY <1>4, <1>6, FiledResponse
    <2> QED BY <1>2, <1>3, <1>12, <2>1 DEF Files, Pair
  <1>23. Rights(o)'
    <2>1. ~lost => Right(r, sent[o], Gone(t))
      <3>1. Sorted(Past(t)) /\ Genuine(Past(t), rx[t], Coming(t), sent[o])
        BY <1>1 DEF Side, Order, Ordered, Sources, Pair
      <3>2. \A m \in Of(Past(t)) : IsCall(m) => m.at \in 1 .. Len(sent[o]) /\ sent[o][m.at].kind = m.kind
        BY <3>1 DEF Genuine
      <3>3. ASSUME ~lost
            PROVE  /\ h.for # None /\ h.for \in 1 .. Len(sent[o])
                   /\ IsRequest(sent[o][h.for]) /\ sent[o][h.for].id = outgoing[t][h.id]
        <4>1. outgoing[t][h.id] # None
          BY <3>3 DEF lost, i
        <4>2. /\ Past(t) \in Seq(Messages) /\ Filed(outgoing[t], Past(t), sent[o])
              /\ Replies(Coming(o), got[t]) /\ h \in Of(Coming(o)) /\ IsResponse(h) /\ h.id \in Ids
          BY <1>2, <1>4, <1>5, <1>6, <1>8
        <4> QED BY <1>7, <3>1, <3>2, <4>1, <4>2, FiledFound
      <3> QED BY <1>10, <3>3 DEF Right, i
    <2> QED BY <1>1, <1>2, <1>3, <1>11, <1>14, <2>1 DEF Side, Rights, Right, Pair
  <1>24. Apart(outgoing[t], rx[t], Unanswered(o)) \/ Gone(o)
    BY <1>1 DEF Side, Oneshots, Pair
  <1>25. ~lost => i \in Unanswered(o)
    <2>1. ~lost => outgoing[t][h.id] # None /\ ~Gone(o)
      BY DEF lost, i
    <2> QED BY <1>8, <1>24, <2>1 DEF Apart, i
  <1>26. Single(o)'
    <2>1. CASE lost
      BY <1>2, <1>3, <1>6, <1>11, <2>1 DEF Single
    <2>2. CASE ~lost
      <3>1. r.id \in tasks[o] /\ \A a \in answers[o] : a.id # r.id
        BY <1>10, <1>25, <2>2 DEF Unanswered
      <3>2. \A b \in {r} : b.id \in tasks[o] /\ \A a \in answers[o] : a.id # b.id
        BY <3>1
      <3>3. \A a, b \in {r} : a.id = b.id => a = b
        OBVIOUS
      <3>4. Once(answers[o] \cup {r}, tasks[o], Past(o))
        BY <1>6, <3>2, <3>3, OnceResolve
      <3> QED BY <1>2, <1>3, <1>11, <2>2, <3>4 DEF Single
    <2> QED BY <2>1, <2>2
  <1>27. Oneshots(t)'
    <2> SUFFICES ASSUME ~Gone(o) PROVE Apart(outgoing'[t], rx[t], Unanswered(o)')
      BY <1>2, <1>14 DEF Oneshots, Pair
    <2>1. Apart([outgoing[t] EXCEPT ![h.id] = None], rx[t], Unanswered(o) \ {outgoing[t][h.id]})
      BY <1>4, <1>8, <1>24, ApartResponse
    <2>2. Unanswered(o)' = Unanswered(o) \ {i}
      <3>1. CASE lost
        <4>1. i = None /\ Unanswered(o) \subseteq Nat
          BY <1>4, <3>1 DEF lost, Unanswered
        <4>2. i \notin Unanswered(o)
          BY <4>1, RelayAssumption
        <4> QED BY <1>2, <1>11, <3>1, <4>2 DEF Unanswered
      <3>2. CASE ~lost
        BY <1>2, <1>10, <1>11, <3>2 DEF Unanswered
      <3> QED BY <3>1, <3>2
    <2> QED BY <1>12, <2>1, <2>2 DEF i
  <1>28. Whole(t)' /\ Sources(t)' /\ Numbers(t)' /\ Order(t)' /\ Files(o)' /\ Replied(t)' /\ Single(t)'
    <2>1. Whole(t)'
      BY <1>1, <1>2, <1>3, <1>14 DEF Side, Whole, Complete
    <2> QED BY <1>1, <1>2, <1>3, <1>11, <1>12, <2>1
            DEF Side, Sources, Numbers, Order, Files, Replied, Single
  <1>29. News(o)' /\ Rights(t)' /\ Oneshots(o)'
    <2>1. News(o)'
      BY <1>1, <1>2, <1>3 DEF Side, News, Taken, Pair
    <2>2. Rights(t)'
      BY <1>1, <1>2, <1>3, <1>11, <1>14 DEF Side, Rights, Right, Pair
    <2>3. Oneshots(o)'
      BY <1>1, <1>2, <1>11, <1>12, <1>14 DEF Side, Oneshots, Unanswered, Pair
    <2> QED BY <2>1, <2>2, <2>3
  <1>30. Side(t)' /\ Side(o)'
    BY <1>15, <1>16, <1>17, <1>18, <1>19, <1>20, <1>21, <1>22, <1>23, <1>26, <1>27, <1>28, <1>29 DEF Side
  <1> QED BY <1>13, <1>30 DEF IInv, Pair

\* A loop ends: it loses what it holds, and the requests of the other peer that
\* were forwarded to it are answered by an error.
LEMMA EndHolds ==
  ASSUME IInv, NEW t, NEW o, Pair(t, o), ~Gone(t),
         NEW how \in {"returned", "panicked"}, End(t, how), UNCHANGED <<inp, out, peers>>
  PROVE  IInv'
  <1> DEFINE B == {Stopped(i) : i \in Unanswered(o)}
             X == sink[t] \o held[t]
  <1>1. TypeOK /\ Side(t) /\ Side(o)
    BY DEF IInv, Pair
  <1>2. /\ pc' = [pc EXCEPT ![t] = how] /\ rx' = [rx EXCEPT ![t] = <<>>]
        /\ tasks' = [tasks EXCEPT ![t] = {}]
        /\ answers' = [answers EXCEPT ![t] = {}, ![o] = @ \cup B]
        /\ outgoing' = [outgoing EXCEPT ![t] = [n \in Ids |-> None]]
        /\ held' = [held EXCEPT ![t] = <<>>] /\ sink' = [sink EXCEPT ![t] = <<>>]
        /\ UNCHANGED <<outgoing_id, inp, out, sending, sent, asked, answered, got, heard>>
    BY DEF End, peers, Pair
  <1>3. /\ rx[t] \in Seq(Calls) /\ Past(t) \in Seq(Messages) /\ Coming(t) \in Seq(Messages)
        /\ rx[o] \in Seq(Calls) /\ Past(o) \in Seq(Messages) /\ Coming(o) \in Seq(Messages)
        /\ answers[t] \in SUBSET Responses /\ answers[o] \in SUBSET Responses
        /\ tasks[t] \in SUBSET Nat /\ tasks[o] \in SUBSET Nat
    BY <1>1, PlacesOfBoth
  <1>4. B \in SUBSET Responses /\ \A b \in B : IsResponse(b) /\ b.for = None /\ b.id \in Unanswered(o)
    <2>1. \A i \in Unanswered(o) : i \in Nat
      BY <1>3 DEF Unanswered
    <2> QED BY <2>1 DEF Stopped, Responses, IsResponse
  <1>5. \A a, b \in B : a.id = b.id => a = b
    BY DEF Stopped
  <1> HIDE DEF B
  <1>6. /\ pc'[t] = how /\ rx'[t] = <<>> /\ tasks'[t] = {} /\ answers'[t] = {}
        /\ outgoing'[t] = [n \in Ids |-> None] /\ held'[t] = <<>> /\ sink'[t] = <<>>
        /\ pc'[o] = pc[o] /\ rx'[o] = rx[o] /\ tasks'[o] = tasks[o] /\ answers'[o] = answers[o] \cup B
        /\ outgoing'[o] = outgoing[o] /\ held'[o] = held[o] /\ sink'[o] = sink[o]
    BY <1>1, <1>2 DEF TypeOK, Pair
  <1>7. TypeOK'
    <2>1. pc' \in [Sides -> {"select", "feed", "close", "returned", "panicked"}]
      BY <1>1, <1>2 DEF TypeOK
    <2>2. rx' \in [Sides -> Seq(Calls)] /\ tasks' \in [Sides -> SUBSET Nat]
      <3>1. <<>> \in Seq(Calls)
        OBVIOUS
      <3> QED BY <1>1, <1>2, <3>1 DEF TypeOK
    <2>3. answers' \in [Sides -> SUBSET Responses]
      <3>1. answers[o] \cup B \in SUBSET Responses
        BY <1>3, <1>4
      <3> QED BY <1>1, <1>2, <3>1 DEF TypeOK, Pair
    <2>4. outgoing' \in [Sides -> [Ids -> Nat \cup {None}]]
      BY <1>1, <1>2 DEF TypeOK
    <2>5. held' \in [Sides -> Seq(Messages)] /\ sink' \in [Sides -> Seq(Messages)]
      <3>1. <<>> \in Seq(Messages)
        OBVIOUS
      <3> QED BY <1>1, <1>2, <3>1 DEF TypeOK
    <2> QED BY <1>1, <1>2, <2>1, <2>2, <2>3, <2>4, <2>5 DEF TypeOK
  <1>8. Gone(t)' /\ (Gone(o)' <=> Gone(o))
    BY <1>6 DEF Gone
  <1>9. /\ Past(t)' \in Seq(Messages) /\ X \in Seq(Messages) /\ Past(t) = Past(t)' \o X
        /\ Past(o)' = Past(o) /\ Coming(t)' = Coming(t) /\ Coming(o)' = Coming(o)
    <2>1. got[t] \in Seq(Messages) /\ out[t] \in Seq(Messages) /\ sink[t] \in Seq(Messages) /\ held[t] \in Seq(Messages)
      BY <1>1, Places
    <2>2. X \in Seq(Messages) /\ got[t] \o out[t] \in Seq(Messages)
      BY <2>1, OfConcat
    <2>3. out[t] \o (<<>> \o <<>>) = out[t]
      BY <2>1, ConcatEmptySeq
    <2>4. Past(t)' = got[t] \o out[t]
      BY <1>2, <1>6, <2>3 DEF Past
    <2>5. Past(t) = (got[t] \o out[t]) \o X
      <3>1. (got[t] \o out[t]) \o X = got[t] \o (out[t] \o X)
        <4>1. got[t] \in Seq(Messages) /\ out[t] \in Seq(Messages) /\ X \in Seq(Messages)
          BY <2>1, <2>2
        <4> HIDE DEF X
        <4> QED BY <4>1, CutOff
      <3> QED BY <3>1 DEF Past, X
    <2>6. Past(o)' = Past(o) /\ Coming(t)' = Coming(t) /\ Coming(o)' = Coming(o)
      BY <1>2, <1>6 DEF Past, Coming
    <2> QED BY <2>2, <2>4, <2>5, <2>6
  <1> HIDE DEF X
  <1> DEFINE P == Past(t)'
  <1>10. P \in Seq(Messages) /\ Past(t) = P \o X /\ Of(P) \subseteq Of(Past(t))
    <2>1. P \in Seq(Messages) /\ Past(t) = P \o X
      BY <1>9
    <2> HIDE DEF P
    <2>2. Of(P \o X) = Of(P) \cup Of(X)
      BY <1>9, <2>1, OfConcat
    <2> QED BY <2>1, <2>2
  <1> HIDE DEF P
  <1>11. /\ Ordered(P \o X, rx[t], Coming(t), answers[t])
         /\ Complete(P \o X, rx[t], Coming(t), Len(sent[o]), FALSE)
         /\ Genuine(P \o X, rx[t], Coming(t), sent[o])
         /\ Numbered(P \o X, rx[t], Coming(t), asked[o], outgoing_id[t])
         /\ Fresh(Taken(t), Coming(o), asked[t])
         /\ Once(answers[t], tasks[t], P \o X)
    <2>1. /\ Ordered(Past(t), rx[t], Coming(t), answers[t])
          /\ Genuine(Past(t), rx[t], Coming(t), sent[o])
          /\ Numbered(Past(t), rx[t], Coming(t), asked[o], outgoing_id[t])
          /\ Fresh(Taken(t), Coming(o), asked[t])
          /\ Once(answers[t], tasks[t], Past(t))
      BY <1>1 DEF Side, Order, Sources, Numbers, News, Single, Pair
    <2>2. Complete(Past(t), rx[t], Coming(t), Len(sent[o]), FALSE)
      BY <1>1 DEF Side, Whole, Complete, Pair
    <2> QED BY <1>10, <2>1, <2>2
  <1>12. Slots(t)' /\ Slots(o)' /\ Dropped(t)' /\ Dropped(o)'
    <2>1. Slots(t)' /\ Dropped(t)'
      BY <1>6 DEF Slots, AtMostOne, Dropped
    <2>2. Slots(o)'
      BY <1>1, <1>6 DEF Side, Slots, AtMostOne
    <2>3. Gone(o) => B = {}
      <3>1. Gone(o) => Unanswered(o) = {}
        BY <1>1 DEF Side, Dropped, Unanswered
      <3> QED BY <3>1 DEF B
    <2>4. Dropped(o)'
      BY <1>1, <1>6, <1>8, <2>3 DEF Side, Dropped
    <2> QED BY <2>1, <2>2, <2>4
  <1>13. Log(t)' /\ Log(o)' /\ Heard(t)' /\ Heard(o)'
    BY <1>1, <1>2 DEF Side, Log, Heard
  <1>14. Order(t)'
    <2>1. Ordered(P, <<>>, Coming(t), {})
      BY <1>3, <1>9, <1>10, <1>11, OrderedEnd
    <2> QED BY <1>6, <1>9, <2>1 DEF Order, P
  <1>15. Whole(t)'
    <2>1. Complete(P, <<>>, Coming(t), Len(sent[o]), TRUE)
      BY <1>9, <1>10, <1>11, CompleteEnd
    <2> QED BY <1>2, <1>6, <1>8, <1>9, <2>1 DEF Whole, Complete, P, Pair
  <1>16. Sources(t)' /\ Numbers(t)'
    <2>1. Genuine(P, <<>>, Coming(t), sent[o])
      BY <1>9, <1>10, <1>11, GenuineEnd
    <2>2. Numbered(P, <<>>, Coming(t), asked[o], outgoing_id[t])
      BY <1>9, <1>10, <1>11, NumberedEnd
    <2> QED BY <1>2, <1>6, <1>9, <2>1, <2>2 DEF Sources, Numbers, P, Pair
  <1>17. News(t)'
    <2>1. Taken(t)' \in SUBSET Taken(t)
      BY <1>6, <1>10 DEF Taken, ResponseIds, P
    <2>2. Fresh(Taken(t)', Coming(o), asked[t])
      BY <1>11, <2>1, FreshFewer
    <2> QED BY <1>2, <1>9, <2>2 DEF News, Pair
  <1>18. Files(t)' /\ Oneshots(t)'
    <2>1. \A n \in Ids : outgoing'[t][n] = None
      BY <1>6
    <2>2. Of(<<>>) = {}
      BY OfOne
    <2> QED BY <1>6, <2>1, <2>2 DEF Files, Filed, Oneshots, Apart
  <1>19. Rights(t)'
    <2>1. \A m \in Of(P) : IsResponse(m) => Right(m, sent[t], Gone(o))
      BY <1>1, <1>10 DEF Side, Rights, Right, Pair
    <2> QED BY <1>2, <1>6, <1>8, <2>1 DEF Rights, Right, P, Pair
  <1>20. Single(t)'
    <2>1. Once({}, {}, P)
      BY <1>9, <1>10, <1>11, OnceEnd
    <2> QED BY <1>6, <2>1 DEF Single, P
  <1>21. Order(o)'
    <2>1. Ordered(Past(o), rx[o], Coming(o), answers[o])
      BY <1>1 DEF Side, Order
    <2>2. Ordered(Past(o), rx[o], Coming(o), answers[o] \cup B)
      BY <1>3, <1>4, <2>1, OrderedStopped
    <2> QED BY <1>6, <1>9, <2>2 DEF Order
  <1>22. Rights(o)'
    <2>1. \A b \in B : Right(b, sent[o], TRUE)
      BY <1>4 DEF Right
    <2>2. \A a \in answers[o] : Right(a, sent[o], TRUE)
      BY <1>1 DEF Side, Rights, Right
    <2>3. \A m \in Of(Past(o)) : IsResponse(m) => Right(m, sent[o], TRUE)
      BY <1>1 DEF Side, Rights, Right
    <2> QED BY <1>2, <1>6, <1>8, <1>9, <2>1, <2>2, <2>3 DEF Rights, Right, Pair
  <1>23. Single(o)'
    <2>1. Once(answers[o], tasks[o], Past(o))
      BY <1>1 DEF Side, Single
    <2>2. \A b \in B : b.id \in tasks[o] /\ \A a \in answers[o] : a.id # b.id
      BY <1>4 DEF Unanswered
    <2>3. Once(answers[o] \cup B, tasks[o], Past(o))
      BY <1>5, <2>1, <2>2, OnceResolve
    <2> QED BY <1>6, <1>9, <2>3 DEF Single
  <1>24. Whole(o)' /\ News(o)' /\ Oneshots(o)'
    <2>1. Whole(o)'
      BY <1>1, <1>2, <1>6, <1>8, <1>9 DEF Side, Whole, Complete
    <2>2. News(o)'
      BY <1>1, <1>2, <1>6, <1>9 DEF Side, News, Taken, Pair
    <2>3. Oneshots(o)'
      BY <1>8 DEF Oneshots, Pair
    <2> QED BY <2>1, <2>2, <2>3
  <1>25. Replied(t)' /\ Replied(o)' /\ Sources(o)' /\ Numbers(o)' /\ Files(o)'
    BY <1>1, <1>2, <1>6, <1>9 DEF Side, Replied, Sources, Numbers, Files
  <1>26. Side(t)' /\ Side(o)'
    BY <1>12, <1>13, <1>14, <1>15, <1>16, <1>17, <1>18, <1>19, <1>20, <1>21, <1>22, <1>23, <1>24, <1>25 DEF Side
  <1> QED BY <1>7, <1>26 DEF IInv, Pair

\* Each turn of a loop is one of these.
LEMMA TurnHolds ==
  ASSUME IInv, NEW t \in Sides, Turn(t)
  PROVE  IInv'
  <1> DEFINE o == Other(t)
  <1>1. Pair(t, o)
    BY SidesPair
  <1> HIDE DEF o
  <1>2. TypeOK /\ Slots(t)
    BY DEF IInv, Side
  <1>3. ASSUME End(t, "returned") \/ End(t, "panicked"), ~Gone(t), UNCHANGED <<inp, out, peers>>
        PROVE  IInv'
    BY <1>1, <1>3, EndHolds
  <1>4. ASSUME Fail(t), ~Gone(t) PROVE IInv'
    BY <1>3, <1>4 DEF Fail
  <1>5. CASE Flush(t)
    <2>1. ~Gone(t)
      BY <1>5 DEF Flush, Selecting, Running
    <2>2. (Write(t) /\ UNCHANGED pc) \/ Fail(t)
      BY <1>5 DEF Flush
    <2>3. CASE Write(t) /\ UNCHANGED pc
      BY <1>1, <2>3, WriteHolds
    <2> QED BY <1>4, <2>1, <2>2, <2>3
  <1>6. CASE PollTasks(t)
    BY <1>1, <1>6, PollTasksHolds
  <1>7. CASE PollRx(t)
    <2>1. Selecting(t) /\ answers[t] = {} /\ ~Gone(t)
      BY <1>7 DEF PollRx, PolledTasks, Selecting, Running
    <2>2. CASE TakeEvent(t)
      BY <1>1, <2>1, <2>2, TakeEventHolds
    <2>3. CASE SenderGone(t)
      BY <1>3, <2>1, <2>3 DEF SenderGone
    <2> QED BY <1>7, <2>2, <2>3 DEF PollRx
  <1>8. CASE OnCall(t) \/ OnNotify(t)
    BY <1>1, <1>8, CallHolds
  <1>9. CASE OnResponse(t)
    BY <1>1, <1>9, OnResponseHolds
  <1>10. CASE OnEof(t)
    <2>1. ~Gone(t)
      BY <1>10 DEF OnEof, Selecting, Running
    <2> QED BY <1>3, <1>10, <2>1 DEF OnEof
  <1>11. CASE Feed(t)
    <2>1. ~Gone(t) /\ pc[t] = "feed"
      BY <1>11 DEF Feed, Running
    <2>2. CASE Write(t) /\ UNCHANGED pc
      BY <1>1, <2>2, WriteHolds
    <2>3. CASE Fail(t)
      BY <1>4, <2>1, <2>3
    <2>4. CASE /\ sink[t] = <<>>
               /\ sink' = [sink EXCEPT ![t] = held[t]]
               /\ held' = [held EXCEPT ![t] = <<>>]
               /\ pc' = [pc EXCEPT ![t] = "select"]
               /\ UNCHANGED <<rx, tasks, answers, outgoing, outgoing_id, kept, main, inp, out, peers>>
      BY <1>1, <2>1, <2>4, LoadSinkHolds
    <2> QED BY <1>11, <2>2, <2>3, <2>4 DEF Feed
  <1>12. CASE Close(t)
    <2>1. ~Gone(t)
      BY <1>12 DEF Close, Running
    <2>2. CASE Write(t) /\ UNCHANGED pc
      BY <1>1, <2>2, WriteHolds
    <2>3. CASE Fail(t)
      BY <1>4, <2>1, <2>3
    <2>4. CASE End(t, "returned") /\ UNCHANGED <<inp, out, peers>>
      BY <1>3, <2>1, <2>4
    <2> QED BY <1>12, <2>2, <2>3, <2>4 DEF Close
  <1> QED BY <1>5, <1>6, <1>7, <1>8, <1>9, <1>10, <1>11, <1>12 DEF Turn

\* The call that a peer reads next is the one after those it heard.
LEMMA NextCall ==
  ASSUME NEW g \in Seq(Messages), NEW o \in Seq(Messages), NEW k \in Seq(Messages), o # <<>>,
         NEW R, NEW C, NEW A, Ordered(g \o (o \o k), R, C, A),
         NEW c, NEW gone, Complete(g \o (o \o k), R, C, c, gone),
         NEW n \in Nat, CallsIn(Of(g)) = 1 .. n, IsCall(Head(o)), Head(o).at \in Nat \ {0}
  PROVE  Head(o).at = n + 1
  <1> DEFINE m == Head(o)
             q == Append(g, m)
             z == Tail(o) \o k
             x == o \o k
  <1>1. m \in Messages /\ Tail(o) \in Seq(Messages) /\ q \o z = g \o x
    <2>1. Append(g, Head(o)) \o (Tail(o) \o k) = g \o (o \o k)
      BY MoveAcross
    <2>2. Head(o) \in Messages /\ Tail(o) \in Seq(Messages)
      BY HeadFirst
    <2> QED BY <2>1, <2>2
  <1>2. q \in Seq(Messages) /\ z \in Seq(Messages) /\ x \in Seq(Messages) /\ Of(q) = Of(g) \cup {m}
    BY <1>1, OfAppend, OfConcat
  <1>3. Sorted(g \o x) /\ \A a \in CallsIn(Of(g \o x)) : 1 .. a \subseteq CallsIn(Of(g \o x))
    BY DEF Ordered, Complete
  <1>4. m \in Of(x)
    <2>1. Of(x) = Of(o) \cup Of(k)
      BY OfConcat
    <2>2. Of(o) = {m} \cup Of(Tail(o))
      BY OfTail
    <2> QED BY <2>1, <2>2
  <1> HIDE DEF q, z, x
  <1>5. \A y \in Of(g) : Fits(y, m)
    BY <1>2, <1>3, <1>4, SortedConcat
  <1>6. \A y \in Of(z) : Fits(m, y)
    BY <1>1, <1>2, <1>3, SortedConcat
  <1>7. Of(g \o x) = Of(g) \cup {m} \cup Of(z)
    <2>1. Of(q \o z) = Of(q) \cup Of(z)
      BY <1>2, OfConcat
    <2> QED BY <1>1, <1>2, <2>1
  <1>8. n < m.at
    <2>1. CASE n = 0
      BY <2>1
    <2>2. CASE n # 0
      <3>1. n \in CallsIn(Of(g))
        BY <2>2
      <3>2. PICK y \in Of(g) : IsCall(y) /\ y.at = n
        BY <3>1 DEF CallsIn
      <3>3. ~IsResponse(m)
        BY DEF IsCall, IsResponse
      <3> QED BY <1>5, <3>2, <3>3 DEF Fits, Behind
    <2> QED BY <2>1, <2>2
  <1>9. ASSUME m.at # n + 1 PROVE FALSE
    <2>1. n + 1 \in 1 .. m.at
      BY <1>8, <1>9
    <2>2. m.at \in CallsIn(Of(g \o x))
      BY <1>7 DEF CallsIn
    <2>3. n + 1 \in CallsIn(Of(g \o x))
      BY <1>3, <2>1, <2>2
    <2>4. PICK y \in Of(g \o x) : IsCall(y) /\ y.at = n + 1
      BY <2>3 DEF CallsIn
    <2>5. y \notin Of(g)
      <3>1. y \in Of(g) => n + 1 \in CallsIn(Of(g))
        BY <2>4 DEF CallsIn
      <3> QED BY <3>1
    <2>6. y \in Of(z)
      BY <1>7, <1>9, <2>4, <2>5
    <2>7. m.at < n + 1
      <3>1. ~IsResponse(y)
        BY <2>4 DEF IsCall, IsResponse
      <3> QED BY <1>6, <2>4, <2>6, <3>1 DEF Fits, Behind
    <2> QED BY <1>8, <2>7
  <1> QED BY <1>9

\* The calls a peer made and did not send yet, or that are on their way, are
\* ranked below the next.
LEMMA RanksBelow ==
  ASSUME NEW P, NEW R, NEW C, NEW S \in Seq(Calls), Genuine(P, R, C, S)
  PROVE  \A x \in Of(P) \cup Of(R) \cup Of(C) : IsCall(x) => x.at < Len(S) + 1
  <1>1. \A x \in Of(P) \cup Of(R) \cup Of(C) : IsCall(x) => x.at \in 1 .. Len(S)
    BY DEF Genuine
  <1>2. Len(S) \in Nat
    OBVIOUS
  <1> QED BY <1>1, <1>2

\* What a peer reads changes neither what is on its way nor what was.  A call is
\* the next one of those the other peer made.
LEMMA PeerReadsHolds ==
  ASSUME IInv, NEW t, NEW o, Pair(t, o), PeerReads(t)
  PROVE  /\ IInv'
         /\ \/ UNCHANGED heard
            \/ /\ Len(heard[t]) < Len(sent[o])
               /\ heard' = [heard EXCEPT ![t] = Append(heard[t], Len(heard[t]) + 1)]
  <1> DEFINE m == Head(out[t])
  <1>1. TypeOK /\ Side(t) /\ Side(o)
    BY DEF IInv, Pair
  <1>2. /\ out[t] # <<>> /\ got' = [got EXCEPT ![t] = Append(@, m)]
        /\ heard' = IF m.kind = "response" THEN heard ELSE [heard EXCEPT ![t] = Append(@, m.at)]
        /\ out' = [out EXCEPT ![t] = Tail(@)]
        /\ UNCHANGED <<pc, rx, tasks, answers, outgoing, outgoing_id, held, sink, inp>>
        /\ UNCHANGED <<sending, sent, asked, answered>>
    BY DEF PeerReads, loops
  <1>3. /\ got[t] \in Seq(Messages) /\ out[t] \in Seq(Messages)
        /\ sink[t] \in Seq(Messages) /\ held[t] \in Seq(Messages)
    BY <1>1, Places
  <1>4. m \in Messages /\ Tail(out[t]) \in Seq(Messages) /\ Append(got[t], m) \in Seq(Messages)
    <2>1. m \in Messages /\ Tail(out[t]) \in Seq(Messages)
      BY <1>2, <1>3, HeadFirst
    <2> QED BY <1>3, <2>1
  <1> HIDE DEF m
  <1>5. m.at \in Nat /\ (IsCall(m) <=> m.kind # "response")
    BY <1>4, MessageFields DEF IsCall
  <1>6. heard[t] \in Seq(Nat) /\ sent[o] \in Seq(Calls) /\ Len(heard[t]) \in Nat /\ Len(sent[o]) \in Nat
    <2>1. heard[t] \in Seq(Nat) /\ sent[o] \in Seq(Calls)
      BY <1>1 DEF TypeOK, Pair
    <2> QED BY <2>1
  <1>7. /\ got'[t] = Append(got[t], m) /\ got'[o] = got[o]
        /\ out'[t] = Tail(out[t]) /\ out'[o] = out[o]
        /\ heard'[t] = (IF IsCall(m) THEN Append(heard[t], m.at) ELSE heard[t]) /\ heard'[o] = heard[o]
    BY <1>1, <1>2, <1>5 DEF TypeOK, Pair
  <1>8. TypeOK'
    <2>1. got' \in [Sides -> Seq(Messages)] /\ out' \in [Sides -> Seq(Messages)]
      BY <1>1, <1>2, <1>4 DEF TypeOK, Pair
    <2>2. heard' \in [Sides -> Seq(Nat)]
      <3>1. Append(heard[t], m.at) \in Seq(Nat)
        BY <1>5, <1>6
      <3> QED BY <1>1, <1>2, <3>1 DEF TypeOK, Pair
    <2> QED BY <1>1, <1>2, <2>1, <2>2 DEF TypeOK
  <1> DEFINE X == sink[t] \o held[t]
  <1>9. /\ X \in Seq(Messages) /\ Past(t) = got[t] \o (out[t] \o X)
        /\ Past(t)' = Append(got[t], m) \o (Tail(out[t]) \o X)
    BY <1>2, <1>3, <1>7, OfConcat DEF Past
  <1> HIDE DEF X
  <1>10. Past(t)' = Past(t)
    <2>1. Append(got[t], m) \o (Tail(out[t]) \o X) = got[t] \o (out[t] \o X)
      <3>1. got[t] \in Seq(Messages) /\ out[t] \in Seq(Messages) /\ X \in Seq(Messages) /\ out[t] # <<>>
        BY <1>2, <1>3, <1>9
      <3> QED BY <3>1, MoveAcross DEF m
    <2> QED BY <1>9, <2>1
  <1>11. Past(o)' = Past(o) /\ Coming(t)' = Coming(t) /\ Coming(o)' = Coming(o)
    BY <1>2, <1>7 DEF Past, Coming
  <1>12. IsCall(m) => m.at = Len(heard[t]) + 1 /\ Len(heard[t]) < Len(sent[o])
    <2> SUFFICES ASSUME IsCall(m) PROVE m.at = Len(heard[t]) + 1 /\ Len(heard[t]) < Len(sent[o])
      OBVIOUS
    <2>1. /\ Ordered(Past(t), rx[t], Coming(t), answers[t])
          /\ Complete(Past(t), rx[t], Coming(t), Len(sent[o]), Gone(t))
          /\ Genuine(Past(t), rx[t], Coming(t), sent[o])
          /\ CallsIn(Of(got[t])) = 1 .. Len(heard[t])
      BY <1>1 DEF Side, Order, Whole, Sources, Heard, Pair
    <2>2. m \in Of(Past(t))
      <3> DEFINE g == Append(got[t], m)
                 z == Tail(out[t]) \o X
      <3>1. m \in Of(g) /\ g \in Seq(Messages)
        BY <1>3, <1>4, OfAppend
      <3>2. z \in Seq(Messages)
        BY <1>4, <1>9, OfConcat
      <3>3. Past(t) = g \o z
        BY <1>9, <1>10
      <3> HIDE DEF g, z
      <3> QED BY <3>1, <3>2, <3>3, OfConcat
    <2>3. m.at \in 1 .. Len(sent[o])
      BY <2>1, <2>2 DEF Genuine
    <2>4. m.at = Len(heard[t]) + 1
      <3>1. m.at \in Nat \ {0} /\ m = Head(out[t])
        BY <1>5, <2>3 DEF m
      <3>2. /\ Ordered(got[t] \o (out[t] \o X), rx[t], Coming(t), answers[t])
            /\ \A a \in CallsIn(Of(got[t] \o (out[t] \o X))) :
                  1 .. a \subseteq CallsIn(Of(got[t] \o (out[t] \o X)))
        BY <1>9, <2>1 DEF Complete
      <3>3. Complete(got[t] \o (out[t] \o X), rx[t], Coming(t), Len(sent[o]), TRUE)
        BY <3>2 DEF Complete
      <3> QED BY <1>2, <1>3, <1>6, <1>9, <2>1, <3>1, <3>2, <3>3, NextCall
    <2> QED BY <1>6, <2>3, <2>4
  <1>13. Heard(t)' /\ Heard(o)'
    <2>1. Heard(t) /\ Heard(o)'
      BY <1>1, <1>7 DEF Side, Heard
    <2>2. Of(Append(got[t], m)) = Of(got[t]) \cup {m}
      BY <1>3, <1>4, OfAppend
    <2>3. CallsIn(Of(got'[t])) = CallsIn(Of(got[t])) \cup CallsIn({m})
      BY <1>7, <2>2, CallsInUnion
    <2>4. CASE ~IsCall(m)
      <3>1. CallsIn({m}) = {}
        BY <2>4 DEF CallsIn
      <3> QED BY <1>7, <2>1, <2>3, <2>4, <3>1 DEF Heard
    <2>5. CASE IsCall(m)
      <3>1. CallsIn({m}) = {Len(heard[t]) + 1}
        BY <1>12, <2>5 DEF CallsIn
      <3>2. /\ heard'[t] = Append(heard[t], Len(heard[t]) + 1)
            /\ Len(heard'[t]) = Len(heard[t]) + 1
            /\ \A k \in 1 .. Len(heard[t]) : heard'[t][k] = heard[t][k]
            /\ heard'[t][Len(heard[t]) + 1] = Len(heard[t]) + 1
        <4>1. heard'[t] = Append(heard[t], Len(heard[t]) + 1)
          BY <1>7, <1>12, <2>5
        <4> QED BY <1>6, <4>1
      <3>3. CallsIn(Of(got'[t])) = 1 .. Len(heard'[t])
        <4>1. CallsIn(Of(got[t])) = 1 .. Len(heard[t])
          BY <2>1 DEF Heard
        <4>2. (1 .. Len(heard[t])) \cup {Len(heard[t]) + 1} = 1 .. Len(heard[t]) + 1
          BY <1>6
        <4> QED BY <2>3, <3>1, <3>2, <4>1, <4>2
      <3>4. \A k \in 1 .. Len(heard'[t]) : heard'[t][k] = k
        BY <1>6, <2>1, <3>2 DEF Heard
      <3> QED BY <2>1, <3>3, <3>4 DEF Heard
    <2> QED BY <2>1, <2>4, <2>5
  <1>14. Replied(o)'
    <2>1. Replies(Coming(o), got[t])
      BY <1>1 DEF Side, Replied, Pair
    <2>2. Replies(Coming(o), Append(got[t], m))
      BY <1>3, <1>4, <2>1, RepliesMore
    <2> QED BY <1>7, <1>11, <2>2 DEF Replied, Pair
  <1>15. Replied(t)'
    BY <1>1, <1>7, <1>11 DEF Side, Replied, Pair
  <1>16. (Gone(t)' <=> Gone(t)) /\ (Gone(o)' <=> Gone(o))
    BY <1>2 DEF Gone
  <1>17. ASSUME NEW s \in {t, o} PROVE Side(s)'
    <2>1. /\ Side(s) /\ Past(s)' = Past(s) /\ Coming(s)' = Coming(s) /\ Coming(Other(s))' = Coming(Other(s))
          /\ (Gone(s)' <=> Gone(s)) /\ (Gone(Other(s))' <=> Gone(Other(s))) /\ Heard(s)' /\ Replied(s)'
      BY <1>1, <1>10, <1>11, <1>13, <1>14, <1>15, <1>16 DEF Pair
    <2>2. Slots(s)' /\ Dropped(s)' /\ Log(s)'
      BY <1>2, <2>1 DEF Side, Slots, Dropped, Log
    <2>3. Order(s)' /\ Sources(s)' /\ Numbers(s)' /\ Files(s)' /\ Single(s)'
      BY <1>2, <2>1 DEF Side, Order, Sources, Numbers, Files, Single
    <2>4. Whole(s)'
      BY <1>2, <2>1 DEF Side, Whole, Complete
    <2>5. News(s)' /\ Rights(s)'
      BY <1>2, <2>1 DEF Side, News, Taken, Rights, Right
    <2>6. Oneshots(s)'
      BY <1>2, <2>1 DEF Side, Oneshots, Unanswered
    <2> QED BY <2>1, <2>2, <2>3, <2>4, <2>5, <2>6 DEF Side
  <1>18. IInv'
    BY <1>8, <1>17 DEF IInv, Pair
  <1>19. \/ UNCHANGED heard
         \/ /\ Len(heard[t]) < Len(sent[o])
            /\ heard' = [heard EXCEPT ![t] = Append(heard[t], Len(heard[t]) + 1)]
    BY <1>2, <1>5, <1>12
  <1> QED BY <1>18, <1>19

\* What a peer is about to write comes after what it wrote.
LEMMA Sent ==
  ASSUME TypeOK, NEW t, NEW o, Pair(t, o), NEW m \in Messages, sending[t] = <<>>,
         sending' = [sending EXCEPT ![t] = <<m>>], UNCHANGED <<inp, got, out, sink, held>>
  PROVE  /\ Coming(o)' = Append(Coming(o), m) /\ Coming(t)' = Coming(t)
         /\ Past(t)' = Past(t) /\ Past(o)' = Past(o)
         /\ sending' \in [Sides -> Seq(Messages)]
  <1>1. inp[t] \in Seq(Messages) /\ <<m>> \in Seq(Messages)
    <2>1. inp[t] \in Seq(Messages)
      BY Places
    <2> QED BY <2>1
  <1>2. sending'[t] = <<m>> /\ sending'[o] = sending[o] /\ sending' \in [Sides -> Seq(Messages)]
    BY <1>1 DEF TypeOK, Pair
  <1>3. inp[t] \o <<>> = inp[t]
    BY <1>1, ConcatEmptySeq
  <1>4. inp[t] \o <<m>> = Append(inp[t], m)
    <2>1. inp[t] \in Seq(Messages)
      BY <1>1
    <2> QED BY <2>1, AppendIsConcat
  <1>5. Coming(o)' = Append(Coming(o), m) /\ Coming(t)' = Coming(t)
    BY <1>2, <1>3, <1>4 DEF Coming, Pair
  <1> QED BY <1>2, <1>5 DEF Past

\* A peer makes its next call, or answers a request that it read.
LEMMA SendHolds ==
  ASSUME IInv, NEW t, NEW o, Pair(t, o), NEW m \in Messages, sending[t] = <<>>,
         sending' = [sending EXCEPT ![t] = <<m>>], UNCHANGED <<loops, inp, out, got, heard>>,
         sent' = IF IsCall(m) THEN [sent EXCEPT ![t] = Append(@, m)] ELSE sent,
         asked' = IF IsRequest(m) THEN [asked EXCEPT ![t] = @ + 1] ELSE asked,
         answered' \in [Sides -> SUBSET Nat], m.at = Len(sent[t]) + 1,
         IsRequest(m) => m.id = asked[t] + 1 /\ asked[t] < Asks[t],
         m.kind = "notification" => Len(sent[t]) < asked[t] + Notifies[t],
         IsResponse(m) => /\ m.for # None
                          /\ \E g \in Of(got[t]) : IsRequest(g) /\ g.id = m.id /\ g.at = m.for
  PROVE  IInv'
  <1>1. TypeOK /\ Side(t) /\ Side(o)
    BY DEF IInv, Pair
  <1>2. /\ UNCHANGED <<pc, rx, tasks, answers, outgoing, outgoing_id, held, sink>>
        /\ UNCHANGED <<inp, out, got, heard>>
    BY DEF loops
  <1>3. /\ Coming(o)' = Append(Coming(o), m) /\ Coming(t)' = Coming(t)
        /\ Past(t)' = Past(t) /\ Past(o)' = Past(o)
        /\ sending' \in [Sides -> Seq(Messages)]
    BY <1>1, <1>2, Sent
  <1>4. /\ rx[o] \in Seq(Calls) /\ Past(o) \in Seq(Messages) /\ Coming(o) \in Seq(Messages)
        /\ Past(t) \in Seq(Messages) /\ tasks[t] \in SUBSET Nat /\ answers[o] \in SUBSET Responses
        /\ sent[t] \in Seq(Calls) /\ asked[t] \in Nat /\ outgoing_id[o] \in Nat /\ Len(sent[t]) \in Nat
    <2>1. sent[t] \in Seq(Calls)
      BY <1>1, PlacesOfBoth
    <2> QED BY <1>1, <2>1, PlacesOfBoth
  <1>5. /\ IsCall(m) => m \in Calls
        /\ IsRequest(m) => IsCall(m)
        /\ IsCall(m) => IsRequest(m) \/ m.kind = "notification"
        /\ IsCall(m) <=> ~IsResponse(m)
    BY MessageFields DEF Calls, Requests, Notices, IsRequest
  <1>6. /\ sent'[t] = (IF IsCall(m) THEN Append(sent[t], m) ELSE sent[t]) /\ sent'[o] = sent[o]
        /\ asked'[t] = (IF IsRequest(m) THEN asked[t] + 1 ELSE asked[t]) /\ asked'[o] = asked[o]
    BY <1>1 DEF TypeOK, Pair
  <1>7. TypeOK'
    <2>1. sent' \in [Sides -> Seq(Calls)]
      <3>1. IsCall(m) => Append(sent[t], m) \in Seq(Calls)
        BY <1>4, <1>5
      <3> QED BY <1>1, <3>1 DEF TypeOK, Pair
    <2>2. asked' \in [Sides -> Nat]
      <3>1. asked[t] + 1 \in Nat
        BY <1>4
      <3> QED BY <1>1, <3>1 DEF TypeOK, Pair
    <2> QED BY <1>1, <1>2, <1>3, <2>1, <2>2 DEF TypeOK
  <1>8. /\ Ordered(Past(o), rx[o], Coming(o), answers[o])
        /\ Genuine(Past(o), rx[o], Coming(o), sent[t])
        /\ Numbered(Past(o), rx[o], Coming(o), asked[t], outgoing_id[o])
        /\ Complete(Past(o), rx[o], Coming(o), Len(sent[t]), Gone(o))
        /\ Fresh(Taken(t), Coming(o), asked[t])
        /\ Filed(outgoing[o], Past(o), sent[t])
        /\ Replies(Coming(o), got[t])
    BY <1>1 DEF Side, Order, Sources, Numbers, Whole, News, Files, Replied, Pair
  <1>9. (Gone(t)' <=> Gone(t)) /\ (Gone(o)' <=> Gone(o))
    BY <1>2 DEF Gone
  <1>10. IsCall(m) =>
           /\ Len(Append(sent[t], m)) = Len(sent[t]) + 1
           /\ \A k \in 1 .. Len(sent[t]) : Append(sent[t], m)[k] = sent[t][k]
           /\ Append(sent[t], m)[Len(sent[t]) + 1] = m
    BY <1>4, <1>5, CallAppended
  <1>11. Log(t)'
    <2>1. Log(t) /\ Asks[t] \in Nat /\ Notifies[t] \in Nat
      BY <1>1, RelayAssumption DEF Side, Pair
    <2>2. CASE ~IsCall(m)
      BY <1>5, <1>6, <2>1, <2>2 DEF Log
    <2>3. CASE IsCall(m)
      <3>1. sent'[t] = Append(sent[t], m) /\ Len(sent'[t]) = Len(sent[t]) + 1
        BY <1>6, <1>10, <2>3
      <3>2. \A k \in 1 .. Len(sent'[t]) : sent'[t][k].at = k
        <4>1. \A k \in 1 .. Len(sent[t]) : sent'[t][k].at = k
          BY <1>10, <2>1, <2>3, <3>1 DEF Log
        <4>2. sent'[t][Len(sent[t]) + 1].at = Len(sent[t]) + 1
          BY <1>10, <2>3, <3>1
        <4>3. \A k \in 1 .. Len(sent'[t]) : k \in 1 .. Len(sent[t]) \/ k = Len(sent[t]) + 1
          BY <1>4, <3>1
        <4> QED BY <4>1, <4>2, <4>3
      <3>3. asked'[t] <= Asks[t] /\ asked'[t] <= Len(sent'[t])
        BY <1>4, <1>6, <2>1, <3>1 DEF Log
      <3>4. Len(sent'[t]) <= asked'[t] + Notifies[t]
        BY <1>4, <1>5, <1>6, <2>1, <2>3, <3>1 DEF Log
      <3> QED BY <3>2, <3>3, <3>4 DEF Log
    <2> QED BY <2>2, <2>3
  <1>12. Order(o)'
    <2>1. \A x \in Of(Past(o)) \cup Of(rx[o]) \cup Of(Coming(o)) : IsCall(x) => x.at < m.at
      <3>1. sent[t] \in Seq(Calls) /\ Genuine(Past(o), rx[o], Coming(o), sent[t])
        BY <1>4, <1>8
      <3>2. \A x \in Of(Past(o)) \cup Of(rx[o]) \cup Of(Coming(o)) : IsCall(x) => x.at < Len(sent[t]) + 1
        BY <3>1, RanksBelow
      <3> QED BY <3>2
    <2>2. IsRequest(m) => \A x \in Of(rx[o]) \cup Of(Coming(o)) : IsRequest(x) => x.id < m.id
      <3>1. \A x \in Of(rx[o]) \cup Of(Coming(o)) : x \in Messages
        BY <1>4, OfMessages DEF Messages
      <3>2. \A x \in Of(rx[o]) \cup Of(Coming(o)) : IsRequest(x) => x.id \in Nat /\ x.id <= asked[t]
        BY <1>8, <3>1, MessageFields DEF Numbered
      <3> QED BY <1>4, <3>2
    <2>3. Ordered(Past(o), rx[o], Append(Coming(o), m), answers[o])
      BY <1>4, <1>8, <2>1, <2>2, OrderedSend
    <2> QED BY <1>2, <1>3, <2>3 DEF Order
  <1>13. Whole(o)'
    <2>1. CASE Gone(o)
      <3>1. Complete(Past(o), rx[o], Coming(o), Len(sent[t]), TRUE)
        BY <1>8, <2>1 DEF Complete
      <3> QED BY <1>2, <1>3, <1>9, <2>1, <3>1 DEF Whole, Complete
    <2>2. CASE ~Gone(o)
      <3>1. Complete(Past(o), rx[o], Coming(o), Len(sent[t]), FALSE)
        BY <1>8, <2>2 DEF Complete
      <3>2. /\ Complete(Past(o), rx[o], Append(Coming(o), m), Len(sent[t]), FALSE)
            /\ IsCall(m) => Complete(Past(o), rx[o], Append(Coming(o), m), Len(sent[t]) + 1, FALSE)
        BY <1>4, <3>1, CompleteSend
      <3>3. Len(sent'[t]) = IF IsCall(m) THEN Len(sent[t]) + 1 ELSE Len(sent[t])
        BY <1>6, <1>10
      <3>4. Complete(Past(o), rx[o], Append(Coming(o), m), Len(sent'[t]), FALSE)
        BY <3>2, <3>3
      <3> QED BY <1>2, <1>3, <1>9, <2>2, <3>4 DEF Whole, Complete, Pair
    <2> QED BY <2>1, <2>2
  <1>14. Sources(o)'
    <2>1. Genuine(Past(o), rx[o], Coming(o), sent'[t])
      <3>1. IsCall(m) => Genuine(Past(o), rx[o], Coming(o), Append(sent[t], m))
        BY <1>4, <1>5, <1>8, GenuineMore
      <3> QED BY <1>6, <1>8, <3>1
    <2>2. IsCall(m) => m.at \in 1 .. Len(sent'[t]) /\ sent'[t][m.at] = m
      BY <1>4, <1>6, <1>10
    <2>3. Genuine(Past(o), rx[o], Append(Coming(o), m), sent'[t])
      BY <1>4, <2>1, <2>2, GenuineSend
    <2> QED BY <1>2, <1>3, <2>3 DEF Sources, Pair
  <1>15. Numbers(o)'
    <2>1. /\ ~IsRequest(m) => Numbered(Past(o), rx[o], Append(Coming(o), m), asked[t], outgoing_id[o])
          /\ IsRequest(m) => Numbered(Past(o), rx[o], Append(Coming(o), m), asked[t] + 1, outgoing_id[o])
      BY <1>4, <1>8, NumberedSend
    <2>2. Numbered(Past(o), rx[o], Append(Coming(o), m), asked'[t], outgoing_id[o])
      BY <1>6, <2>1
    <2> QED BY <1>2, <1>3, <2>2 DEF Numbers, Pair
  <1>16. News(t)'
    <2>1. Taken(t) \in SUBSET Nat
      <3>1. \A x \in Of(Past(t)) : IsResponse(x) => x.id \in Nat
        BY <1>4, OfMessages, MessageFields
      <3> QED BY <1>4, <3>1 DEF Taken, ResponseIds
    <2>2. /\ ~IsRequest(m) => Fresh(Taken(t), Append(Coming(o), m), asked[t])
          /\ IsRequest(m) => Fresh(Taken(t), Append(Coming(o), m), asked[t] + 1)
      BY <1>4, <1>8, <2>1, FreshSend
    <2>3. Fresh(Taken(t), Append(Coming(o), m), asked'[t])
      BY <1>6, <2>2
    <2>4. Taken(t)' = Taken(t)
      BY <1>2, <1>3 DEF Taken
    <2> QED BY <1>3, <2>3, <2>4 DEF News, Pair
  <1>17. Files(o)'
    <2>1. \A x \in Of(Past(o)) : IsCall(x) => x.at \in 1 .. Len(sent[t])
      BY <1>8 DEF Genuine
    <2>2. IsCall(m) => Filed(outgoing[o], Past(o), Append(sent[t], m))
      BY <1>4, <1>5, <1>8, <2>1, FiledMore
    <2>3. Filed(outgoing[o], Past(o), sent'[t])
      BY <1>6, <1>8, <2>2
    <2> QED BY <1>2, <1>3, <2>3 DEF Files, Pair
  <1>18. Replied(o)'
    <2>1. Replies(Append(Coming(o), m), got[t])
      BY <1>4, <1>8, RepliesSend
    <2> QED BY <1>2, <1>3, <2>1 DEF Replied, Pair
  <1>19. Rights(t)'
    <2>1. ASSUME NEW r, Right(r, sent[t], Gone(o)) PROVE Right(r, sent'[t], Gone(o))
      <3>1. CASE r.for = None
        BY <2>1, <3>1 DEF Right
      <3>2. CASE r.for # None
        <4>1. Right(r, sent[t], TRUE)
          BY <2>1, <3>2 DEF Right
        <4>2. IsCall(m) => Right(r, Append(sent[t], m), TRUE)
          BY <1>4, <1>5, <4>1, RightMore
        <4>3. Right(r, sent'[t], TRUE)
          BY <1>6, <4>1, <4>2
        <4> QED BY <3>2, <4>3 DEF Right
      <3> QED BY <3>1, <3>2
    <2>2. ASSUME NEW r, Right(r, sent[t], Gone(o)) PROVE Right(r, sent[t], Gone(o))'
      <3>1. Right(r, sent'[t], Gone(o))
        BY <2>1, <2>2
      <3> QED BY <1>9, <3>1 DEF Right
    <2>3. /\ \A a \in answers[t] : Right(a, sent[t], Gone(o))
          /\ \A x \in Of(Past(t)) : IsResponse(x) => Right(x, sent[t], Gone(o))
      BY <1>1 DEF Side, Rights, Pair
    <2>4. /\ \A a \in answers[t] : Right(a, sent[t], Gone(o))'
          /\ \A x \in Of(Past(t)) : IsResponse(x) => Right(x, sent[t], Gone(o))'
      BY <2>2, <2>3
    <2> QED BY <1>2, <1>3, <2>4 DEF Rights, Right, Pair
  <1>20. Slots(t)' /\ Slots(o)' /\ Dropped(t)' /\ Dropped(o)' /\ Heard(t)' /\ Heard(o)' /\ Log(o)'
    BY <1>1, <1>2, <1>6 DEF Side, Slots, Dropped, Gone, Heard, Log
  <1>21. Order(t)' /\ Sources(t)' /\ Numbers(t)' /\ Files(t)' /\ Replied(t)' /\ Single(t)' /\ Single(o)'
    BY <1>1, <1>2, <1>3, <1>6 DEF Side, Order, Sources, Numbers, Files, Replied, Single, Pair
  <1>22. Whole(t)' /\ News(o)' /\ Rights(o)'
    <2>1. Whole(t)'
      BY <1>1, <1>2, <1>3, <1>6, <1>9 DEF Side, Whole, Complete, Pair
    <2>2. News(o)'
      BY <1>1, <1>2, <1>3, <1>6 DEF Side, News, Taken, Pair
    <2>3. Rights(o)'
      BY <1>1, <1>2, <1>3, <1>6, <1>9 DEF Side, Rights, Right, Pair
    <2> QED BY <2>1, <2>2, <2>3
  <1>23. Oneshots(t)' /\ Oneshots(o)'
    BY <1>1, <1>2, <1>9 DEF Side, Oneshots, Unanswered, Pair
  <1>24. Side(t)' /\ Side(o)'
    BY <1>11, <1>12, <1>13, <1>14, <1>15, <1>16, <1>17, <1>18, <1>19, <1>20, <1>21, <1>22, <1>23 DEF Side
  <1> QED BY <1>7, <1>24 DEF IInv, Pair

\* The three things a peer sends.
LEMMA PeerSendsHolds ==
  ASSUME IInv, NEW t, NEW o, Pair(t, o), PeerRequests(t) \/ PeerNotifies(t) \/ PeerAnswers(t)
  PROVE  IInv'
  <1>1. TypeOK /\ Side(t) /\ Side(o)
    BY DEF IInv, Pair
  <1>2. sent[t] \in Seq(Calls) /\ Len(sent[t]) \in Nat /\ asked[t] \in Nat /\ got[t] \in Seq(Messages)
    <2>1. sent[t] \in Seq(Calls)
      BY <1>1, PlacesOfBoth
    <2>2. asked[t] \in Nat
      BY <1>1, PlacesOfBoth
    <2>3. got[t] \in Seq(Messages)
      BY <1>1, Places
    <2> QED BY <2>1, <2>2, <2>3
  <1>3. answered \in [Sides -> SUBSET Nat] /\ t \in Sides
    BY <1>1 DEF TypeOK, Pair
  <1>4. CASE PeerRequests(t)
    <2> DEFINE m == Question(asked[t] + 1, Rank(t))
    <2>1. /\ m \in Messages /\ IsRequest(m) /\ IsCall(m) /\ ~IsResponse(m)
          /\ m.kind # "notification" /\ m.at = Len(sent[t]) + 1 /\ m.id = asked[t] + 1
      BY <1>2 DEF Question, Rank, Messages, Calls, Requests, IsRequest, IsCall, IsResponse
    <2>2. /\ asked[t] < Asks[t] /\ sent' = [sent EXCEPT ![t] = Append(@, m)]
          /\ asked' = [asked EXCEPT ![t] = @ + 1] /\ UNCHANGED answered
          /\ sending[t] = <<>> /\ sending' = [sending EXCEPT ![t] = <<m>>]
          /\ UNCHANGED <<loops, inp, out, got, heard>>
      BY <1>4 DEF PeerRequests, Sends
    <2> HIDE DEF m
    <2>3. answered' \in [Sides -> SUBSET Nat]
      BY <1>3, <2>2
    <2> QED BY <2>1, <2>2, <2>3, SendHolds
  <1>5. CASE PeerNotifies(t)
    <2> DEFINE m == Notice(Rank(t))
    <2>1. m \in Messages /\ ~IsRequest(m) /\ IsCall(m) /\ ~IsResponse(m) /\ m.at = Len(sent[t]) + 1
      BY <1>2 DEF Notice, Rank, Messages, Calls, Notices, IsRequest, IsCall, IsResponse
    <2>2. /\ Len(sent[t]) < asked[t] + Notifies[t] /\ sent' = [sent EXCEPT ![t] = Append(@, m)]
          /\ UNCHANGED <<asked, answered>>
          /\ sending[t] = <<>> /\ sending' = [sending EXCEPT ![t] = <<m>>]
          /\ UNCHANGED <<loops, inp, out, got, heard>>
      BY <1>5 DEF PeerNotifies, Sends
    <2> HIDE DEF m
    <2>3. answered' \in [Sides -> SUBSET Nat]
      BY <1>3, <2>2
    <2> QED BY <2>1, <2>2, <2>3, SendHolds
  <1>6. CASE PeerAnswers(t)
    <2>1. PICK k \in 1 .. Len(got[t]) :
            /\ got[t][k].kind = "request"
            /\ Sends(t, Answer(got[t][k].id, got[t][k].at, Rank(t)))
            /\ answered' = [answered EXCEPT ![t] = @ \cup {got[t][k].at}]
            /\ UNCHANGED <<sent, asked>>
      BY <1>6 DEF PeerAnswers
    <2> DEFINE g == got[t][k]
               m == Answer(g.id, g.at, Rank(t))
    <2>2. g \in Of(got[t]) /\ g \in Messages /\ IsRequest(g) /\ g.id \in Nat /\ g.at \in Nat
      <3>1. g \in Of(got[t]) /\ g \in Messages /\ IsRequest(g)
        BY <1>2, <2>1 DEF Of, IsRequest
      <3> HIDE DEF g
      <3> QED BY <3>1, MessageFields
    <2>3. /\ m \in Messages /\ ~IsRequest(m) /\ ~IsCall(m) /\ IsResponse(m)
          /\ m.kind # "notification" /\ m.at = Len(sent[t]) + 1 /\ m.id = g.id /\ m.for = g.at
      <3> HIDE DEF g
      <3> QED BY <1>2, <2>2 DEF Answer, Rank, Messages, Responses, IsRequest, IsCall, IsResponse
    <2>4. /\ sending[t] = <<>> /\ sending' = [sending EXCEPT ![t] = <<m>>]
          /\ UNCHANGED <<loops, inp, out, got, heard>> /\ UNCHANGED <<sent, asked>>
          /\ answered' = [answered EXCEPT ![t] = @ \cup {g.at}]
      BY <2>1 DEF Sends
    <2>5. answered' \in [Sides -> SUBSET Nat]
      <3> HIDE DEF g, m
      <3>1. answered[t] \cup {g.at} \in SUBSET Nat
        BY <1>3, <2>2
      <3> QED BY <1>3, <2>4, <3>1
    <2>6. m.for # None
      BY <2>2, <2>3, RelayAssumption
    <2> HIDE DEF g, m
    <2> QED BY <2>2, <2>3, <2>4, <2>5, <2>6, SendHolds
  <1> QED BY <1>4, <1>5, <1>6

----------------------------------------------------------------------------
(***************************************************************************)
(* The theorems.                                                           *)
(***************************************************************************)
\* At first there is nothing anywhere.
LEMMA InitHolds == Init => IInv
  <1> SUFFICES ASSUME Init PROVE IInv
    OBVIOUS
  <1>1. /\ pc = [s \in Sides |-> "select"] /\ rx = [s \in Sides |-> <<>>]
        /\ tasks = [s \in Sides |-> {}] /\ answers = [s \in Sides |-> {}]
        /\ outgoing = [s \in Sides |-> [n \in Ids |-> None]] /\ outgoing_id = [s \in Sides |-> 0]
        /\ held = [s \in Sides |-> <<>>] /\ sink = [s \in Sides |-> <<>>]
        /\ inp = [s \in Sides |-> <<>>] /\ out = [s \in Sides |-> <<>>]
        /\ sending = [s \in Sides |-> <<>>] /\ sent = [s \in Sides |-> <<>>]
        /\ got = [s \in Sides |-> <<>>] /\ heard = [s \in Sides |-> <<>>]
        /\ asked = [s \in Sides |-> 0] /\ answered = [s \in Sides |-> {}]
    BY DEF Init
  <1>2. <<>> \in Seq(Calls) /\ <<>> \in Seq(Messages) /\ <<>> \in Seq(Nat) /\ Len(<<>>) = 0
    OBVIOUS
  <1>3. TypeOK
    <2>1. pc \in [Sides -> {"select", "feed", "close", "returned", "panicked"}]
      BY <1>1
    <2>2. /\ tasks \in [Sides -> SUBSET Nat] /\ answers \in [Sides -> SUBSET Responses]
          /\ outgoing \in [Sides -> [Ids -> Nat \cup {None}]] /\ outgoing_id \in [Sides -> Nat]
          /\ asked \in [Sides -> Nat] /\ answered \in [Sides -> SUBSET Nat]
      BY <1>1
    <2>3. rx \in [Sides -> Seq(Calls)] /\ sent \in [Sides -> Seq(Calls)] /\ heard \in [Sides -> Seq(Nat)]
      BY <1>1, <1>2
    <2>4. /\ held \in [Sides -> Seq(Messages)] /\ sink \in [Sides -> Seq(Messages)]
          /\ inp \in [Sides -> Seq(Messages)] /\ out \in [Sides -> Seq(Messages)]
          /\ sending \in [Sides -> Seq(Messages)] /\ got \in [Sides -> Seq(Messages)]
      BY <1>1, <1>2
    <2> QED BY <2>1, <2>2, <2>3, <2>4 DEF TypeOK
  <1>4. ASSUME NEW s \in Sides PROVE Side(s)
    <2> DEFINE o == Other(s)
    <2>1. Pair(s, o) /\ o \in Sides
      BY SidesPair DEF Pair
    <2> HIDE DEF o
    <2>2. /\ pc[s] = "select" /\ rx[s] = <<>> /\ tasks[s] = {} /\ answers[s] = {}
          /\ outgoing[s] = [n \in Ids |-> None] /\ outgoing_id[s] = 0
          /\ held[s] = <<>> /\ sink[s] = <<>> /\ out[s] = <<>> /\ got[s] = <<>>
          /\ sent[s] = <<>> /\ asked[s] = 0 /\ heard[s] = <<>> /\ inp[s] = <<>> /\ sending[s] = <<>>
      BY <1>1
    <2>3. /\ inp[o] = <<>> /\ sending[o] = <<>> /\ sent[o] = <<>> /\ asked[o] = 0 /\ got[o] = <<>>
          /\ tasks[o] = {} /\ answers[o] = {} /\ pc[o] = "select"
      BY <1>1, <2>1
    <2>4. <<>> \o <<>> = <<>> /\ Of(<<>>) = {}
      <3>1. <<>> \o <<>> = <<>>
        BY <1>2, ConcatEmptySeq
      <3> QED BY <3>1, OfOne
    <2>5. Past(s) = <<>> /\ Coming(s) = <<>> /\ Coming(o) = <<>>
      BY <2>1, <2>2, <2>3, <2>4 DEF Past, Coming, Pair
    <2>6. Slots(s) /\ Dropped(s) /\ Heard(s)
      BY <1>2, <2>2, <2>4 DEF Slots, AtMostOne, Dropped, Gone, Heard, CallsIn
    <2>7. Log(s)
      BY <1>2, <2>2, RelayAssumption DEF Log
    <2>8. Order(s)
      BY <2>2, <2>4, <2>5, SortedOne DEF Order, Ordered
    <2>9. Whole(s)
      <3>1. Len(sent[o]) = 0 /\ CallsIn({}) = {}
        BY <1>2, <2>3 DEF CallsIn
      <3> QED BY <2>1, <2>4, <2>5, <3>1 DEF Whole, Complete, Pair
    <2>10. Sources(s) /\ Numbers(s) /\ Files(s) /\ Replied(s)
      BY <2>1, <2>2, <2>3, <2>4, <2>5
         DEF Sources, Genuine, Numbers, Numbered, Files, Filed, Replied, Replies, Pair
    <2>11. News(s) /\ Rights(s) /\ Single(s)
      BY <2>2, <2>4, <2>5, <1>2 DEF News, Fresh, Taken, ResponseIds, Rights, Single, Once, Distinct
    <2>12. Oneshots(s)
      BY <2>2, <2>4 DEF Oneshots, Apart
    <2> QED BY <2>6, <2>7, <2>8, <2>9, <2>10, <2>11, <2>12 DEF Side
  <1> QED BY <1>3, <1>4 DEF IInv

\* Every step keeps the invariant.
LEMMA StepHolds == IInv /\ [Next]_vars => IInv'
  <1> SUFFICES ASSUME IInv, [Next]_vars PROVE IInv'
    OBVIOUS
  <1>1. ASSUME UNCHANGED <<pc, rx, tasks, answers, outgoing, outgoing_id, held, sink>>,
               UNCHANGED <<inp, out, sending, sent, asked, answered, got, heard>>
        PROVE  IInv'
    BY <1>1, IdleHolds
  <1>2. CASE UNCHANGED vars
    BY <1>1, <1>2 DEF vars, loops, peers
  <1>3. CASE MainReturns
    BY <1>1, <1>3 DEF MainReturns, peers
  <1>4. ASSUME NEW t \in Sides, Turn(t) PROVE IInv'
    BY <1>4, TurnHolds
  <1>5. ASSUME NEW t \in Sides, Peer(t) PROVE IInv'
    <2> DEFINE o == Other(t)
    <2>1. Pair(t, o)
      BY SidesPair
    <2> HIDE DEF o
    <2>2. CASE PeerRequests(t) \/ PeerNotifies(t) \/ PeerAnswers(t)
      BY <2>1, <2>2, PeerSendsHolds
    <2>3. CASE PeerWrites(t)
      BY <2>1, <2>3, PeerWritesHolds
    <2>4. CASE PeerReads(t)
      BY <2>1, <2>4, PeerReadsHolds
    <2>5. CASE PeerEnds(t)
      BY <1>1, <2>5 DEF PeerEnds, loops
    <2> QED BY <1>5, <2>2, <2>3, <2>4, <2>5 DEF Peer
  <1> QED BY <1>2, <1>3, <1>4, <1>5 DEF Next

\* What is on its way between the peers is in order and complete, and every id
\* leads back to the request it stands for.
THEOREM Invariant == Spec => []IInv
  BY InitHolds, StepHolds, PTL DEF Spec

\* What a peer has read comes first of what was passed on to it.
LEMMA GotIsSorted ==
  ASSUME IInv, NEW s \in Sides
  PROVE  Sorted(got[s]) /\ Distinct(got[s]) /\ got[s] \in Seq(Messages)
  <1>1. TypeOK /\ Side(s)
    BY DEF IInv
  <1> DEFINE X == out[s] \o (sink[s] \o held[s])
  <1>2. got[s] \in Seq(Messages) /\ X \in Seq(Messages)
    <2>1. /\ got[s] \in Seq(Messages) /\ out[s] \in Seq(Messages)
          /\ sink[s] \in Seq(Messages) /\ held[s] \in Seq(Messages)
      BY <1>1 DEF TypeOK
    <2>2. sink[s] \o held[s] \in Seq(Messages)
      BY <2>1, OfConcat
    <2> QED BY <2>1, <2>2, OfConcat
  <1>3. Sorted(got[s] \o X) /\ Distinct(got[s] \o X)
    BY <1>1 DEF Side, Order, Ordered, Single, Once, Past
  <1> HIDE DEF X
  <1>4. Sorted(got[s])
    BY <1>2, <1>3, SortedConcat
  <1>5. Distinct(got[s])
    BY <1>2, <1>3, DistinctConcat
  <1> QED BY <1>2, <1>4, <1>5

\* A response that a peer reads carries the id of the request it answers, though
\* both loops assign ids anew, comes once, and says that the forwarding stopped
\* only when the other loop has ended (forward.rs).
THEOREM OwnAnswers == Spec => []OwnAnswer
  <1>1. IInv => OwnAnswer
    <2> SUFFICES ASSUME IInv, NEW s \in Sides, NEW k \in 1 .. Len(got[s]), IsResponse(got[s][k])
                 PROVE  /\ IF got[s][k].for = None THEN Gone(Other(s))
                           ELSE /\ sent[s][got[s][k].for].kind = "request"
                                /\ sent[s][got[s][k].for].id = got[s][k].id
                        /\ \A j \in 1 .. k - 1 : IsResponse(got[s][j]) => got[s][j].id # got[s][k].id
      BY DEF OwnAnswer, IsResponse
    <2> DEFINE r == got[s][k]
    <2>1. Distinct(got[s]) /\ got[s] \in Seq(Messages) /\ Len(got[s]) \in Nat
      <3>1. Distinct(got[s]) /\ got[s] \in Seq(Messages)
        BY GotIsSorted
      <3> QED BY <3>1
    <2>2. TypeOK /\ Side(s) /\ Pair(s, Other(s))
      BY SidesPair DEF IInv
    <2>3. r \in Of(Past(s))
      <3>1. r \in Of(got[s])
        BY DEF Of
      <3>2. Of(got[s]) \subseteq Of(Past(s))
        BY <2>2, Places
      <3> QED BY <3>1, <3>2
    <2>4. Right(r, sent[s], Gone(Other(s)))
      BY <2>2, <2>3 DEF Side, Rights
    <2>5. IF r.for = None THEN Gone(Other(s))
          ELSE sent[s][r.for].kind = "request" /\ sent[s][r.for].id = r.id
      BY <2>4 DEF Right, IsRequest
    <2>6. ASSUME NEW j \in 1 .. k - 1, IsResponse(got[s][j]) PROVE got[s][j].id # got[s][k].id
      <3>1. j \in 1 .. Len(got[s]) /\ j < k
        BY <2>1
      <3> QED BY <2>1, <2>6, <3>1 DEF Distinct
    <2> QED BY <2>5, <2>6
  <1> QED BY <1>1, Invariant, PTL

\* No call overtakes a response that its sender wrote before it, on any of the
\* ways through the two loops.
THEOREM ResponsesFirst == Spec => []NoneOvertakesResponse
  <1>1. IInv => NoneOvertakesResponse
    <2> SUFFICES ASSUME IInv, NEW s \in Sides, NEW j \in 1 .. Len(got[s]), NEW k \in 1 .. Len(got[s]),
                        IsCall(got[s][j]), IsResponse(got[s][k]), j < k, got[s][k].for # None
                 PROVE  got[s][j].at < got[s][k].at
      BY DEF NoneOvertakesResponse, IsCall, IsResponse
    <2>1. Sorted(got[s])
      BY GotIsSorted
    <2>2. Fits(got[s][j], got[s][k])
      BY <2>1 DEF Sorted
    <2> QED BY <2>2 DEF Fits, Behind
  <1> QED BY <1>1, Invariant, PTL

\* The ranks of the calls that a peer makes are the numbers up to their count.
Count(n) == [k \in 1 .. n |-> k]

\* One more call adds the next number.
LEMMA CountNext ==
  ASSUME NEW n \in Nat
  PROVE  /\ Count(n) \in Seq(Nat) /\ Len(Count(n)) = n
         /\ Count(n + 1) = Append(Count(n), n + 1)
         /\ \A i \in Nat : i < n => Count(n)[i + 1] = i + 1
  <1>1. Count(n) \in Seq(Nat) /\ Len(Count(n)) = n /\ \A k \in 1 .. n : Count(n)[k] = k
    BY DEF Count
  <1>2. Count(n + 1) \in Seq(Nat) /\ Len(Count(n + 1)) = n + 1 /\ \A k \in 1 .. n + 1 : Count(n + 1)[k] = k
    BY DEF Count
  <1> DEFINE q == Count(n)
             p == Count(n + 1)
  <1> HIDE DEF q, p
  <1>3. p = Append(q, n + 1)
    <2>1. q \in Seq(Nat) /\ Len(q) = n /\ \A k \in 1 .. n : q[k] = k
      BY <1>1 DEF q
    <2>2. p \in Seq(Nat) /\ Len(p) = n + 1 /\ \A k \in 1 .. n + 1 : p[k] = k
      BY <1>2 DEF p
    <2>3. /\ Append(q, n + 1) \in Seq(Nat) /\ Len(Append(q, n + 1)) = n + 1
          /\ \A k \in 1 .. n : Append(q, n + 1)[k] = k
          /\ Append(q, n + 1)[n + 1] = n + 1
      BY <2>1
    <2>4. \A k \in 1 .. n + 1 : Append(q, n + 1)[k] = p[k]
      BY <2>2, <2>3
    <2> QED BY <2>2, <2>3, <2>4, SeqEqual
  <1> QED BY <1>1, <1>3 DEF q, p

\* A log in which calls stand at their ranks.
LEMMA RanksOfLog ==
  ASSUME NEW S \in Seq(Calls), \A k \in 1 .. Len(S) : S[k].at = k
  PROVE  [k \in 1 .. Len(S) |-> S[k].at] = Count(Len(S)) /\ Len(S) \in Nat
  BY DEF Count

\* What a step does to the calls that t made and to those that o read of them.
LEMMA StepOfCalls ==
  ASSUME IInv, IInv', [Next]_vars, NEW t, NEW o, Pair(t, o)
  PROVE  \/ /\ sent'[t] = sent[t] /\ heard'[o] = heard[o]
         \/ /\ Len(sent'[t]) = Len(sent[t]) + 1 /\ heard'[o] = heard[o]
         \/ /\ sent'[t] = sent[t] /\ Len(heard[o]) < Len(sent[t])
            /\ heard'[o] = Append(heard[o], Len(heard[o]) + 1)
  <1>1. sent \in [Sides -> Seq(Calls)] /\ heard \in [Sides -> Seq(Nat)] /\ t \in Sides /\ o \in Sides
    BY DEF IInv, TypeOK, Pair
  <1>2. CASE UNCHANGED <<sent, heard>>
    BY <1>2
  <1>3. CASE \E s \in Sides : Turn(s)
    <2>1. UNCHANGED peers
      BY <1>3 DEF Turn, Flush, Write, Fail, PollTasks, PollRx, TakeEvent, SenderGone, OnCall, OnNotify,
                  OnResponse, OnEof, Receive, Feed, Close
    <2> QED BY <1>2, <2>1 DEF peers
  <1>4. ASSUME NEW s \in Sides, Peer(s)
        PROVE  \/ UNCHANGED <<sent, heard>>
               \/ UNCHANGED heard /\ \E m : sent' = [sent EXCEPT ![s] = Append(@, m)]
               \/ UNCHANGED sent /\ PeerReads(s)
    BY <1>4 DEF Peer, PeerRequests, PeerNotifies, PeerAnswers, PeerWrites, PeerReads, PeerEnds, Sends
  <1>5. ASSUME NEW s \in Sides, UNCHANGED heard, NEW m, sent' = [sent EXCEPT ![s] = Append(@, m)]
        PROVE  sent'[t] = sent[t] \/ Len(sent'[t]) = Len(sent[t]) + 1
    BY <1>1, <1>5
  <1>6. ASSUME NEW s \in Sides, UNCHANGED sent, PeerReads(s)
        PROVE  \/ heard'[o] = heard[o]
               \/ /\ Len(heard[o]) < Len(sent[t])
                  /\ heard'[o] = Append(heard[o], Len(heard[o]) + 1)
    <2>1. Pair(s, Other(s))
      BY SidesPair
    <2>2. \/ UNCHANGED heard
          \/ /\ Len(heard[s]) < Len(sent[Other(s)])
             /\ heard' = [heard EXCEPT ![s] = Append(heard[s], Len(heard[s]) + 1)]
      BY <1>6, <2>1, PeerReadsHolds
    <2>3. s = o => Other(s) = t
      BY DEF Pair
    <2> QED BY <1>1, <2>2, <2>3
  <1>7. CASE \E s \in Sides : Peer(s)
    BY <1>4, <1>5, <1>6, <1>7
  <1>8. CASE MainReturns \/ UNCHANGED vars
    BY <1>2, <1>8 DEF MainReturns, vars, peers
  <1> QED BY <1>3, <1>7, <1>8 DEF Next

\* The same in the terms of the channel.
LEMMA StepOfChannel ==
  ASSUME IInv, IInv', [Next]_vars, NEW t, NEW o, Pair(t, o)
  PROVE  \/ /\ Made(t)' = Made(t) /\ heard'[o] = heard[o]
         \/ /\ \E n \in Ranks : Made(t)' = Append(Made(t), n)
            /\ heard'[o] = heard[o]
         \/ /\ Made(t)' = Made(t) /\ Len(heard[o]) < Len(Made(t))
            /\ heard'[o] = Append(heard[o], Made(t)[Len(heard[o]) + 1])
  <1>1. /\ sent[t] \in Seq(Calls) /\ sent'[t] \in Seq(Calls) /\ heard[o] \in Seq(Nat)
        /\ \A k \in 1 .. Len(sent[t]) : sent[t][k].at = k
        /\ \A k \in 1 .. Len(sent'[t]) : sent'[t][k].at = k
        /\ asked'[t] \in Nat /\ asked'[t] <= Asks[t] /\ Len(sent'[t]) <= asked'[t] + Notifies[t]
    BY DEF IInv, TypeOK, Side, Log, Pair
  <1>2. /\ Made(t) = Count(Len(sent[t])) /\ Len(sent[t]) \in Nat
        /\ Made(t)' = Count(Len(sent'[t])) /\ Len(sent'[t]) \in Nat
    <2>1. [k \in 1 .. Len(sent[t]) |-> sent[t][k].at] = Count(Len(sent[t])) /\ Len(sent[t]) \in Nat
      BY <1>1, RanksOfLog
    <2>2. [k \in 1 .. Len(sent'[t]) |-> sent'[t][k].at] = Count(Len(sent'[t])) /\ Len(sent'[t]) \in Nat
      BY <1>1, RanksOfLog
    <2> QED BY <2>1, <2>2 DEF Made
  <1>3. CASE sent'[t] = sent[t] /\ heard'[o] = heard[o]
    BY <1>2, <1>3
  <1>4. CASE Len(sent'[t]) = Len(sent[t]) + 1 /\ heard'[o] = heard[o]
    <2>1. Made(t)' = Append(Made(t), Len(sent[t]) + 1)
      BY <1>2, <1>4, CountNext
    <2>2. Len(sent[t]) + 1 \in Ranks
      <3>1. /\ Asks["editor"] \in Nat /\ Asks["child"] \in Nat
            /\ Notifies["editor"] \in Nat /\ Notifies["child"] \in Nat
            /\ t = "editor" \/ t = "child"
        BY RelayAssumption DEF Sides, Pair
      <3> DEFINE n == Len(sent'[t])
      <3>2. n \in Nat /\ 1 <= n /\ n = Len(sent[t]) + 1 /\ n <= asked'[t] + Notifies[t]
        BY <1>1, <1>2, <1>4
      <3> HIDE DEF n
      <3>3. n <= Asks[t] + Notifies[t]
        <4>1. asked'[t] \in Nat /\ asked'[t] <= Asks[t] /\ Asks[t] \in Nat /\ Notifies[t] \in Nat
          BY <1>1, <3>1
        <4>2. n \in Nat /\ n <= asked'[t] + Notifies[t]
          BY <3>2
        <4> QED BY <4>1, <4>2
      <3>4. Asks[t] + Notifies[t] <= (Asks["editor"] + Asks["child"]) + (Notifies["editor"] + Notifies["child"])
        BY <3>1
      <3>5. n \in 1 .. (Asks["editor"] + Asks["child"]) + (Notifies["editor"] + Notifies["child"])
        <4>1. n \in Nat /\ 1 <= n
          BY <3>2
        <4> QED BY <3>1, <3>3, <3>4, <4>1
      <3> QED BY <3>2, <3>5 DEF Ranks, Total
    <2> QED BY <1>4, <2>1, <2>2
  <1>5. CASE /\ sent'[t] = sent[t] /\ Len(heard[o]) < Len(sent[t])
             /\ heard'[o] = Append(heard[o], Len(heard[o]) + 1)
    <2>1. Len(heard[o]) \in Nat /\ Len(Made(t)) = Len(sent[t])
      <3>1. Len(Made(t)) = Len(sent[t])
        BY <1>2, CountNext
      <3> QED BY <1>1, <3>1
    <2>2. Made(t)[Len(heard[o]) + 1] = Len(heard[o]) + 1
      BY <1>2, <1>5, <2>1, CountNext
    <2> QED BY <1>2, <1>5, <2>1, <2>2
  <1> QED BY <1>3, <1>4, <1>5, StepOfCalls

\* Seen from its ends, the inspector is a channel in each direction: what a peer
\* calls reaches the other one once each and in order.
THEOREM ForwardIsImplemented == Spec => ForwardSpec
  <1>1. Init => EditorToChild!Init /\ ChildToEditor!Init
    <2> SUFFICES ASSUME Init PROVE EditorToChild!Init /\ ChildToEditor!Init
      OBVIOUS
    <2>1. \A s \in Sides : sent[s] = <<>> /\ heard[s] = <<>>
      BY DEF Init
    <2>2. \A s \in Sides : Made(s) = <<>>
      BY <2>1 DEF Made
    <2> QED BY <2>1, <2>2 DEF EditorToChild!Init, ChildToEditor!Init, Sides
  <1>2. IInv /\ IInv' /\ [Next]_vars => [EditorToChild!Next]_EditorToChild!vars
    <2>1. Pair("editor", "child")
      BY DEF Pair, Sides, Other
    <2> SUFFICES ASSUME IInv, IInv', [Next]_vars PROVE [EditorToChild!Next]_EditorToChild!vars
      OBVIOUS
    <2> QED BY <2>1, StepOfChannel
            DEF EditorToChild!Next, EditorToChild!Put, EditorToChild!Take, EditorToChild!vars
  <1>3. IInv /\ IInv' /\ [Next]_vars => [ChildToEditor!Next]_ChildToEditor!vars
    <2>1. Pair("child", "editor")
      BY DEF Pair, Sides, Other
    <2> SUFFICES ASSUME IInv, IInv', [Next]_vars PROVE [ChildToEditor!Next]_ChildToEditor!vars
      OBVIOUS
    <2> QED BY <2>1, StepOfChannel
            DEF ChildToEditor!Next, ChildToEditor!Put, ChildToEditor!Take, ChildToEditor!vars
  <1> QED BY <1>1, <1>2, <1>3, Invariant, PTL
          DEF Spec, ForwardSpec, EditorToChild!Spec, ChildToEditor!Spec
=============================================================================
