--------------------------- MODULE Framing_proofs ---------------------------
(***************************************************************************)
(* Proofs about Framing, for any messages with bodies of any sizes, any    *)
(* headers, any capacity of the pipe and any number of frames.             *)
(***************************************************************************)
EXTENDS Framing, SequenceTheorems, TLAPS

Units ==
    [kind : {"length", "nan", "other", "bad", "blank"}, n : Nat] \cup
    [of : Messages, at : Nat]

FrameLen(m, header) == Len(header) + 1 + Size[m]

\* What is not read yet, in the pipe or still with the writer.
Coming == pipe \o todo

----------------------------------------------------------------------------
(***************************************************************************)
(* The stream behind the reader and the writer.  Count the units that were *)
(* written in all; let frame k, of message ms[k] with header hs[k], begin  *)
(* after the first start[k] of them, and let R of them be read.  Up to the *)
(* first W of them the stream is known: what follows comes after a bad     *)
(* frame or after a cut, and the reader never gets that far.               *)
(***************************************************************************)
Layout(ms, hs, start) ==
    /\ ms \in Seq(Messages) /\ hs \in Seq(Headers) /\ start \in Seq(Nat)
    /\ Len(hs) = Len(ms) /\ Len(start) = Len(ms) + 1
    /\ \A k \in 1 .. Len(ms) : start[k + 1] = start[k] + FrameLen(ms[k], hs[k])
    /\ \A j, k \in 1 .. Len(ms) + 1 : j <= k => start[j] <= start[k]

\* The units that are not read yet are those of the frames.
Ahead(ms, hs, start, R, W) ==
    /\ R \in Nat /\ W \in Nat /\ R <= W /\ W <= R + Len(Coming)
    /\ \A k \in 1 .. Len(ms) : \A i \in 1 .. FrameLen(ms[k], hs[k]) :
          R < start[k] + i /\ start[k] + i <= W
              => Coming[start[k] + i - R] = Frame(ms[k], hs[k])[i]

\* While no frame is bad or cut, the last one ends where the stream ends.
Intact(ms, hs, start, R, W) ==
    /\ ~broken
    /\ IF todo = <<>> THEN Len(ms) = Len(sent)
       ELSE /\ Len(ms) = Len(sent) + 1
            /\ start[Len(ms)] <= R + Len(pipe)
    /\ \A k \in 1 .. Len(ms) : Good(hs[k])
    /\ W = start[Len(ms) + 1] /\ W = R + Len(Coming)

\* The last frame has a bad header; anything may follow it.
Spoiled(ms, hs, start, R, W) ==
    /\ broken /\ Len(ms) = Len(sent) + 1
    /\ ~Good(hs[Len(ms)])
    /\ W = start[Len(ms) + 1]
    /\ start[Len(ms)] <= R + Len(pipe)

\* The writer went inside the last frame, perhaps inside a line of its header.
Cut(ms, hs, start, R, W) ==
    /\ broken /\ closed /\ Len(ms) = Len(sent) + 1
    /\ start[Len(ms)] <= W /\ W < start[Len(ms) + 1]
    /\ \/ R + Len(Coming) = W
       \/ /\ R + Len(Coming) = W + 1 /\ Coming[Len(Coming)] = Half
          /\ W <= start[Len(ms)] + Len(hs[Len(ms)])

Written(ms, hs, start, R, W) ==
    /\ Len(sent) <= Len(ms)
    /\ \A k \in 1 .. Len(sent) : sent[k] = ms[k] /\ Good(hs[k])
    /\ \/ Intact(ms, hs, start, R, W)
       \/ Spoiled(ms, hs, start, R, W)
       \/ Cut(ms, hs, start, R, W)

----------------------------------------------------------------------------
(***************************************************************************)
(* The state of Message::read tells how far into a frame it is.            *)
(***************************************************************************)
Lengths == {"exact", "short", "long"}

\* content_len is from the last length among the first o fields, and no other
\* of them ends the reader.
LastLength(m, header, o) ==
    /\ \A i \in 1 .. o : header[i] \notin {"nan", "bad"}
    /\ \/ /\ content_len = NoLength
          /\ \A i \in 1 .. o : header[i] \notin Lengths
       \/ \E i \in 1 .. o :
            /\ header[i] \in Lengths
            /\ content_len = Length(FieldLine(header[i], m).n)
            /\ \A j \in i + 1 .. o : header[j] \notin Lengths

Fresh == in_header /\ content_len = NoLength

InHeader(m, header, o) ==
    /\ in_header /\ o <= Len(header)
    /\ LastLength(m, header, o)

InBody(m, header, o) ==
    /\ ~in_header /\ content_len.given
    /\ LastLength(m, header, Len(header))
    /\ o = Len(header) + 1 + Len(buf) /\ Len(buf) <= Size[m]
    /\ \A i \in 1 .. Len(buf) : buf[i] = Byte(m, i)

\* The reader is at unit R of the stream, in the first frame it has not
\* returned, which may have yet to begin.
Place(ms, hs, start, R) ==
    LET g == Len(got) + 1
    IN  \/ Fresh /\ R = start[g]
        \/ /\ g <= Len(ms) /\ start[g] <= R
           /\ \/ InHeader(ms[g], hs[g], R - start[g])
              \/ InBody(ms[g], hs[g], R - start[g])

\* The reader takes for a body what begins like one and has another length.
Doomed ==
    /\ broken /\ Len(got) = Len(sent)
    /\ ~in_header /\ buf # <<>>
    /\ \E m \in Messages : buf[1] = Byte(m, 1) /\ content_len.n # Size[m]

Following ==
    \E ms, hs, start, R, W :
        /\ Layout(ms, hs, start)
        /\ Ahead(ms, hs, start, R, W)
        /\ Written(ms, hs, start, R, W)
        /\ Place(ms, hs, start, R)

\* What the reader returned is what was written.
Prefix ==
    /\ Len(got) <= Len(sent)
    /\ \A k \in 1 .. Len(got) : got[k] = sent[k]

UnitTypes ==
    /\ pipe \in Seq(Units) /\ todo \in Seq(Units) /\ buf \in Seq(Units)
    /\ content_len \in [given : BOOLEAN, n : Nat]

\* What the writer has begun ends with the last byte of a body.
WriterType ==
    todo # <<>> =>
        ~closed /\ \E m \in Messages : todo[Len(todo)] = Byte(m, Size[m])

IInv ==
    /\ TypeOK /\ UnitTypes /\ WriterType /\ Prefix
    /\ verdict = "reading" => Doomed \/ Following

----------------------------------------------------------------------------
(***************************************************************************)
(* Sequences.                                                              *)
(***************************************************************************)
\* A sequence without its first element.
LEMMA TailElements ==
  ASSUME NEW S, NEW s \in Seq(S), s # <<>>
  PROVE  /\ Len(s) \in Nat \ {0} /\ Head(s) = s[1] /\ Head(s) \in S
         /\ Tail(s) \in Seq(S) /\ Len(Tail(s)) = Len(s) - 1
         /\ \A k \in 1 .. Len(s) - 1 : Tail(s)[k] = s[k + 1]
OBVIOUS

\* A sequence with one element more.
LEMMA AppendElements ==
  ASSUME NEW S, NEW s \in Seq(S), NEW e \in S
  PROVE  /\ Append(s, e) \in Seq(S) /\ Len(Append(s, e)) = Len(s) + 1 /\ Len(s) \in Nat
         /\ \A k \in 1 .. Len(s) : Append(s, e)[k] = s[k]
         /\ Append(s, e)[Len(s) + 1] = e
OBVIOUS

\* Two sequences one after the other.
LEMMA ConcatElements ==
  ASSUME NEW S, NEW s \in Seq(S), NEW t \in Seq(S)
  PROVE  /\ s \o t \in Seq(S) /\ Len(s \o t) = Len(s) + Len(t)
         /\ Len(s) \in Nat /\ Len(t) \in Nat
         /\ \A k \in 1 .. Len(s) : (s \o t)[k] = s[k]
         /\ \A k \in 1 .. Len(t) : (s \o t)[Len(s) + k] = t[k]
OBVIOUS

\* The first element of the two is that of the first one, if it has any.
LEMMA ConcatTail ==
  ASSUME NEW S, NEW s \in Seq(S), NEW t \in Seq(S), s # <<>>
  PROVE  Head(s \o t) = Head(s) /\ Tail(s \o t) = Tail(s) \o t
  <1>1. /\ s \o t \in Seq(S) /\ Len(s \o t) = Len(s) + Len(t)
        /\ Len(s) \in Nat /\ Len(t) \in Nat
        /\ \A k \in 1 .. Len(s) : (s \o t)[k] = s[k]
        /\ \A k \in 1 .. Len(t) : (s \o t)[Len(s) + k] = t[k]
    OBVIOUS
  <1>2. Head(s \o t) = Head(s)
    BY <1>1, TailElements
  <1>3. /\ Tail(s) \in Seq(S) /\ Len(Tail(s)) = Len(s) - 1 /\ Len(s) \in Nat \ {0}
        /\ \A k \in 1 .. Len(s) - 1 : Tail(s)[k] = s[k + 1]
    BY TailElements
  <1>4. s \o t # <<>>
    BY <1>1, <1>3
  <1>5. /\ Tail(s \o t) \in Seq(S) /\ Len(Tail(s \o t)) = Len(s) + Len(t) - 1
        /\ \A k \in 1 .. Len(s) + Len(t) - 1 : Tail(s \o t)[k] = (s \o t)[k + 1]
    BY <1>1, <1>4, TailElements
  <1>6. /\ Tail(s) \o t \in Seq(S) /\ Len(Tail(s) \o t) = Len(s) - 1 + Len(t)
        /\ \A k \in 1 .. Len(s) - 1 : (Tail(s) \o t)[k] = Tail(s)[k]
        /\ \A k \in 1 .. Len(t) : (Tail(s) \o t)[Len(s) - 1 + k] = t[k]
    BY <1>3
  <1>7. ASSUME NEW k \in 1 .. Len(s) + Len(t) - 1
        PROVE  Tail(s \o t)[k] = (Tail(s) \o t)[k]
    <2>1. CASE k <= Len(s) - 1
      BY <1>1, <1>3, <1>5, <1>6, <2>1
    <2>2. CASE k > Len(s) - 1
      <3>1. PICK j \in 1 .. Len(t) : k = Len(s) - 1 + j
        <4>1. k - (Len(s) - 1) \in 1 .. Len(t) /\ k = Len(s) - 1 + (k - (Len(s) - 1))
          BY <1>1, <2>2
        <4> QED BY <4>1
      <3>2. k + 1 = Len(s) + j
        BY <1>1, <3>1
      <3> QED BY <1>1, <1>5, <1>6, <3>1, <3>2
    <2> QED BY <1>1, <2>1, <2>2
  <1>8. Len(Tail(s \o t)) = Len(Tail(s) \o t)
    BY <1>1, <1>5, <1>6
  <1>9. Tail(s \o t) = Tail(s) \o t
    BY <1>1, <1>5, <1>6, <1>7, <1>8, SeqEqual
  <1> QED BY <1>2, <1>9

\* What is pushed leaves the writer and enters the pipe.
LEMMA MoveElement ==
  ASSUME NEW S, NEW s \in Seq(S), NEW t \in Seq(S), t # <<>>
  PROVE  Append(s, Head(t)) \o Tail(t) = s \o t
OBVIOUS

----------------------------------------------------------------------------
(***************************************************************************)
(* Frames.                                                                 *)
(***************************************************************************)
\* Lines and bytes are told apart by their fields.
LEMMA LinesAndBytes ==
    /\ \A kind, n : IsLine(Line(kind, n))
    /\ \A m, i : ~IsLine(Byte(m, i))
  BY DEF IsLine, Line, Byte

\* A header line has the kind of its field, and a length is a number.
LEMMA FieldLines ==
  ASSUME NEW f \in Fields, NEW m \in Messages
  PROVE  /\ FieldLine(f, m) \in Units /\ IsLine(FieldLine(f, m))
         /\ FieldLine(f, m).kind = (IF f \in Lengths THEN "length" ELSE f)
         /\ FieldLine(f, m).n \in Nat
         /\ f \in Lengths => (FieldLine(f, m).n = Size[m] <=> f = "exact")
  <1> USE FramingAssumption DEF Fields, Lengths, Line, Units
  <1>1. Size[m] \in Nat \ {0} /\ Size[m] - 1 \in Nat /\ Size[m] + 1 \in Nat
    OBVIOUS
  <1>2. CASE f = "exact"
    BY <1>1, <1>2, LinesAndBytes DEF FieldLine
  <1>3. CASE f = "short"
    BY <1>1, <1>3, LinesAndBytes DEF FieldLine
  <1>4. CASE f = "long"
    BY <1>1, <1>4, LinesAndBytes DEF FieldLine
  <1>5. CASE f \in {"nan", "other", "bad"}
    BY <1>5, LinesAndBytes DEF FieldLine
  <1> QED BY <1>2, <1>3, <1>4, <1>5

\* A frame is its header lines, a blank line and the bytes of its body.
LEMMA FrameUnits ==
  ASSUME NEW m \in Messages, NEW header \in Headers
  PROVE  /\ Frame(m, header) \in Seq(Units)
         /\ Len(Frame(m, header)) = FrameLen(m, header)
         /\ Len(header) \in Nat /\ Size[m] \in Nat \ {0}
         /\ FrameLen(m, header) \in Nat
         /\ \A i \in 1 .. Len(header) :
               header[i] \in Fields /\ Frame(m, header)[i] = FieldLine(header[i], m)
         /\ Frame(m, header)[Len(header) + 1] = Blank
         /\ \A i \in 1 .. Size[m] : Frame(m, header)[Len(header) + 1 + i] = Byte(m, i)
  <1> DEFINE lines == [i \in 1 .. Len(header) |-> FieldLine(header[i], m)]
  <1>1. header \in Seq(Fields) /\ Size[m] \in Nat \ {0} /\ Len(header) \in Nat
    BY FramingAssumption
  <1>2. \A i \in 1 .. Len(header) : header[i] \in Fields
    BY <1>1
  <1>3. lines \in Seq(Units) /\ Len(lines) = Len(header)
    BY <1>1, <1>2, FieldLines
  <1>4. <<Blank>> \in Seq(Units) /\ Len(<<Blank>>) = 1 /\ <<Blank>>[1] = Blank
    BY DEF Blank, Line, Units
  <1>5. Body(m) \in Seq(Units) /\ Len(Body(m)) = Size[m]
    BY <1>1 DEF Body, Byte, Units
  <1>6. /\ lines \o <<Blank>> \in Seq(Units) /\ Len(lines \o <<Blank>>) = Len(header) + 1
        /\ \A i \in 1 .. Len(header) : (lines \o <<Blank>>)[i] = lines[i]
        /\ (lines \o <<Blank>>)[Len(header) + 1] = Blank
    <2> HIDE DEF lines
    <2> QED BY <1>1, <1>3, <1>4, ConcatElements
  <1> DEFINE top == lines \o <<Blank>>
  <1>7. Frame(m, header) = top \o Body(m)
    BY DEF Frame
  <1>8. /\ Frame(m, header) \in Seq(Units)
        /\ Len(Frame(m, header)) = Len(header) + 1 + Size[m]
        /\ \A i \in 1 .. Len(header) + 1 : Frame(m, header)[i] = top[i]
        /\ \A i \in 1 .. Size[m] : Frame(m, header)[Len(header) + 1 + i] = Body(m)[i]
    <2>1. top \in Seq(Units) /\ Len(top) = Len(header) + 1
      BY <1>6
    <2> HIDE DEF top
    <2>2. /\ top \o Body(m) \in Seq(Units) /\ Len(top \o Body(m)) = Len(top) + Len(Body(m))
          /\ \A i \in 1 .. Len(top) : (top \o Body(m))[i] = top[i]
          /\ \A i \in 1 .. Len(Body(m)) : (top \o Body(m))[Len(top) + i] = Body(m)[i]
      BY <1>5, <2>1
    <2> QED BY <1>5, <1>7, <2>1, <2>2
  <1>9. \A i \in 1 .. Len(header) : Frame(m, header)[i] = FieldLine(header[i], m)
    <2> SUFFICES ASSUME NEW i \in 1 .. Len(header)
                 PROVE  Frame(m, header)[i] = FieldLine(header[i], m)
      OBVIOUS
    <2>1. i \in 1 .. Len(header) + 1
      BY <1>1
    <2>2. Frame(m, header)[i] = top[i] /\ top[i] = lines[i]
      BY <1>6, <1>8, <2>1
    <2> QED BY <2>2
  <1>10. \A i \in 1 .. Size[m] : Body(m)[i] = Byte(m, i)
    BY <1>1 DEF Body
  <1>11. Frame(m, header)[Len(header) + 1] = Blank
    BY <1>1, <1>6, <1>8, SMTT(30)
  <1>12. \A i \in 1 .. Size[m] : Frame(m, header)[Len(header) + 1 + i] = Byte(m, i)
    BY <1>8, <1>10
  <1>13. FrameLen(m, header) = Len(header) + 1 + Size[m] /\ FrameLen(m, header) \in Nat
    BY <1>1 DEF FrameLen
  <1> HIDE DEF top
  <1> QED BY <1>1, <1>2, <1>8, <1>9, <1>11, <1>12, <1>13

\* A header that was read to its end without an error gives the right length
\* exactly when it is good.
LEMMA HeaderEnds ==
  ASSUME NEW m \in Messages, NEW header \in Headers,
         LastLength(m, header, Len(header))
  PROVE  /\ ~content_len.given => ~Good(header)
         /\ content_len.given => (content_len.n = Size[m] <=> Good(header))
  <1>1. /\ Len(header) \in Nat
        /\ \A i \in 1 .. Len(header) : header[i] \in Fields \ {"nan", "bad"}
    BY FrameUnits DEF LastLength
  <1>2. CASE content_len = NoLength /\ \A i \in 1 .. Len(header) : header[i] \notin Lengths
    BY <1>1, <1>2 DEF NoLength, Good, Lengths
  <1>3. ASSUME NEW i \in 1 .. Len(header), header[i] \in Lengths,
               content_len = Length(FieldLine(header[i], m).n),
               \A j \in i + 1 .. Len(header) : header[j] \notin Lengths
        PROVE  content_len.given /\ (content_len.n = Size[m] <=> Good(header))
    <2>1. content_len.given /\ (content_len.n = Size[m] <=> header[i] = "exact")
      BY <1>1, <1>3, FieldLines DEF Length
    <2>2. \A j \in i + 1 .. Len(header) : header[j] = "other"
      BY <1>1, <1>3 DEF Fields, Lengths
    <2>3. ASSUME header[i] = "exact" PROVE Good(header)
      BY <1>1, <2>2, <2>3 DEF Good
    <2>4. ASSUME Good(header) PROVE header[i] = "exact"
      <3>1. PICK e \in 1 .. Len(header) :
                /\ header[e] = "exact"
                /\ \A j \in e + 1 .. Len(header) : header[j] \in {"exact", "other"}
        BY <2>4 DEF Good
      <3>2. CASE i < e
        <4>1. e \in i + 1 .. Len(header)
          BY <1>1, <3>2
        <4> QED BY <2>2, <3>1, <4>1
      <3>3. CASE i = e
        BY <3>1, <3>3
      <3>4. CASE i > e
        <4>1. i \in e + 1 .. Len(header)
          BY <1>1, <3>4
        <4> QED BY <1>3, <3>1, <4>1 DEF Lengths
      <3> QED BY <1>1, <3>2, <3>3, <3>4
    <2> QED BY <2>1, <2>3, <2>4
  <1> QED BY <1>2, <1>3 DEF LastLength, NoLength

\* One more header line was taken in.
LEMMA LineTaken ==
  ASSUME NEW m \in Messages, NEW header \in Headers, NEW o \in Nat,
         o < Len(header), LastLength(m, header, o),
         header[o + 1] \in Lengths \cup {"other"},
         content_len' = IF header[o + 1] = "other" THEN content_len
                        ELSE Length(FieldLine(header[o + 1], m).n)
  PROVE  LastLength(m, header, o + 1)'
  <1>1. Len(header) \in Nat /\ 1 .. o + 1 = (1 .. o) \cup {o + 1}
    BY FrameUnits
  <1>2. \A i \in 1 .. o + 1 : header[i] \notin {"nan", "bad"}
    BY <1>1 DEF LastLength, Lengths
  <1>3. CASE header[o + 1] = "other"
    <2>1. content_len' = content_len /\ header[o + 1] \notin Lengths
      BY <1>3 DEF Lengths
    <2>2. CASE content_len = NoLength /\ \A i \in 1 .. o : header[i] \notin Lengths
      BY <1>1, <1>2, <2>1, <2>2 DEF LastLength
    <2>3. ASSUME NEW i \in 1 .. o, header[i] \in Lengths,
                 content_len = Length(FieldLine(header[i], m).n),
                 \A j \in i + 1 .. o : header[j] \notin Lengths
          PROVE  LastLength(m, header, o + 1)'
      <3>1. i \in 1 .. o + 1 /\ \A j \in i + 1 .. o + 1 : header[j] \notin Lengths
        BY <2>1, <2>3
      <3> QED BY <1>2, <2>1, <2>3, <3>1 DEF LastLength
    <2> QED BY <2>2, <2>3 DEF LastLength
  <1>4. CASE header[o + 1] \in Lengths
    <2>1. content_len' = Length(FieldLine(header[o + 1], m).n)
      BY <1>4 DEF Lengths
    <2>2. o + 1 \in 1 .. o + 1 /\ \A j \in o + 1 + 1 .. o + 1 : header[j] \notin Lengths
      OBVIOUS
    <2> QED BY <1>2, <1>4, <2>1, <2>2 DEF LastLength
  <1> QED BY <1>3, <1>4

----------------------------------------------------------------------------
(***************************************************************************)
(* The reader.                                                             *)
(***************************************************************************)
\* What a read takes from the pipe it takes from what is not read yet.
LEMMA ComingRead ==
  ASSUME UnitTypes, pipe # <<>>, pipe' = Tail(pipe), todo' = todo
  PROVE  /\ Head(pipe) \in Units /\ Coming[1] = Head(pipe)
         /\ Len(pipe) \in Nat \ {0} /\ Len(pipe') = Len(pipe) - 1
         /\ Len(Coming) \in Nat \ {0} /\ Len(Coming') = Len(Coming) - 1
         /\ \A j \in 1 .. Len(Coming) - 1 : Coming'[j] = Coming[j + 1]
  <1>1. /\ pipe \in Seq(Units) /\ Len(pipe) \in Nat \ {0} /\ Head(pipe) \in Units
        /\ Head(pipe) = pipe[1] /\ Len(Tail(pipe)) = Len(pipe) - 1
    BY TailElements DEF UnitTypes
  <1>2. Coming \in Seq(Units) /\ Len(Coming) = Len(pipe) + Len(todo) /\ Len(todo) \in Nat
    BY <1>1, ConcatElements DEF UnitTypes, Coming
  <1>3. Head(Coming) = Head(pipe) /\ Coming' = Tail(Coming)
    BY <1>1, ConcatTail DEF UnitTypes, Coming
  <1>4. Len(Coming) \in Nat \ {0} /\ Coming # <<>>
    BY <1>1, <1>2
  <1>5. /\ Head(Coming) = Coming[1] /\ Len(Tail(Coming)) = Len(Coming) - 1
        /\ \A j \in 1 .. Len(Coming) - 1 : Tail(Coming)[j] = Coming[j + 1]
    BY <1>2, <1>4, TailElements
  <1> QED BY <1>1, <1>3, <1>4, <1>5

\* The facts about a layout that the steps below use.
LEMMA LayoutFacts ==
  ASSUME NEW ms, NEW hs, NEW start, Layout(ms, hs, start), NEW k \in 1 .. Len(ms)
  PROVE  /\ Len(ms) \in Nat /\ ms[k] \in Messages /\ hs[k] \in Headers
         /\ start[k] \in Nat /\ start[k + 1] \in Nat
         /\ start[k + 1] = start[k] + FrameLen(ms[k], hs[k])
         /\ Len(hs[k]) \in Nat /\ Size[ms[k]] \in Nat \ {0}
         /\ FrameLen(ms[k], hs[k]) = Len(hs[k]) + 1 + Size[ms[k]]
         /\ FrameLen(ms[k], hs[k]) \in Nat
         /\ \A j \in k + 1 .. Len(ms) + 1 : start[j] \in Nat /\ start[k + 1] <= start[j]
  <1>1. Len(ms) \in Nat /\ ms[k] \in Messages /\ hs[k] \in Headers
    BY DEF Layout
  <1>2. \A j \in 1 .. Len(ms) + 1 : start[j] \in Nat
    BY DEF Layout
  <1>3. k \in 1 .. Len(ms) + 1 /\ k + 1 \in 1 .. Len(ms) + 1
    BY <1>1
  <1>4. Len(hs[k]) \in Nat /\ Size[ms[k]] \in Nat \ {0}
    BY <1>1, FrameUnits
  <1>5. start[k + 1] = start[k] + FrameLen(ms[k], hs[k])
    BY DEF Layout
  <1>6. \A j \in k + 1 .. Len(ms) + 1 : start[j] \in Nat /\ start[k + 1] <= start[j]
    <2> SUFFICES ASSUME NEW j \in k + 1 .. Len(ms) + 1
                 PROVE  start[j] \in Nat /\ start[k + 1] <= start[j]
      OBVIOUS
    <2>1. j \in 1 .. Len(ms) + 1 /\ k + 1 <= j
      BY <1>1
    <2> QED BY <1>2, <1>3, <2>1 DEF Layout
  <1> QED BY <1>1, <1>2, <1>3, <1>4, <1>5, <1>6 DEF FrameLen

\* After a read the stream is known from the next unit on.
LEMMA Advance ==
  ASSUME NEW ms, NEW hs, NEW start, NEW R, NEW W, UnitTypes,
         Layout(ms, hs, start), Ahead(ms, hs, start, R, W), Written(ms, hs, start, R, W),
         pipe # <<>>, pipe' = Tail(pipe), UNCHANGED writer, R < W
  PROVE  Ahead(ms, hs, start, R + 1, W)' /\ Written(ms, hs, start, R + 1, W)'
  <1>1. UNCHANGED <<todo, closed, broken, sent>>
    BY DEF writer
  <1>2. /\ Len(pipe) \in Nat \ {0} /\ Len(pipe') = Len(pipe) - 1
        /\ Len(Coming) \in Nat \ {0} /\ Len(Coming') = Len(Coming) - 1
        /\ \A j \in 1 .. Len(Coming) - 1 : Coming'[j] = Coming[j + 1]
    BY <1>1, ComingRead
  <1>3. R \in Nat /\ W \in Nat /\ W <= R + Len(Coming)
    BY DEF Ahead
  <1>4. Ahead(ms, hs, start, R + 1, W)'
    <2>1. R + 1 \in Nat /\ R + 1 <= W /\ W <= R + 1 + Len(Coming')
      BY <1>2, <1>3
    <2>2. ASSUME NEW k \in 1 .. Len(ms), NEW i \in 1 .. FrameLen(ms[k], hs[k]),
                 R + 1 < start[k] + i, start[k] + i <= W
          PROVE  Coming'[start[k] + i - (R + 1)] = Frame(ms[k], hs[k])[i]
      <3>1. start[k] \in Nat /\ FrameLen(ms[k], hs[k]) \in Nat
        BY LayoutFacts
      <3>2. /\ start[k] + i - (R + 1) \in 1 .. Len(Coming) - 1
            /\ start[k] + i - (R + 1) + 1 = start[k] + i - R
        <4>1. i \in Nat /\ Len(Coming) \in Nat
          BY <1>2, <3>1
        <4>2. R \in Nat /\ W \in Nat /\ W <= R + Len(Coming) /\ start[k] \in Nat
          BY <1>3, <3>1
        <4>3. start[k] + i - (R + 1) >= 1
          BY <2>2, <4>1, <4>2
        <4>4. start[k] + i - (R + 1) <= Len(Coming) - 1
          BY <2>2, <4>1, <4>2
        <4>5. start[k] + i - (R + 1) + 1 = start[k] + i - R
          BY <4>1, <4>2
        <4> QED BY <4>1, <4>2, <4>3, <4>4, <4>5
      <3>3. Coming[start[k] + i - R] = Frame(ms[k], hs[k])[i]
        BY <1>3, <2>2, <3>1 DEF Ahead
      <3> QED BY <1>2, <3>2, <3>3
    <2> QED BY <1>3, <2>1, <2>2 DEF Ahead
  <1>5. Written(ms, hs, start, R + 1, W)'
    <2>1. CASE Intact(ms, hs, start, R, W)
      <3>1. R + 1 + Len(Coming') = R + Len(Coming) /\ R + 1 + Len(pipe') = R + Len(pipe)
        BY <1>2, <1>3
      <3>2. Intact(ms, hs, start, R + 1, W)'
        BY <1>1, <2>1, <3>1 DEF Intact
      <3> QED BY <1>1, <3>2 DEF Written
    <2>2. CASE Spoiled(ms, hs, start, R, W)
      <3>1. R + 1 + Len(pipe') = R + Len(pipe)
        BY <1>2, <1>3
      <3>2. Spoiled(ms, hs, start, R + 1, W)'
        BY <1>1, <2>2, <3>1 DEF Spoiled
      <3> QED BY <1>1, <3>2 DEF Written
    <2>3. CASE Cut(ms, hs, start, R, W)
      <3>1. R + 1 + Len(Coming') = R + Len(Coming)
        BY <1>2, <1>3
      <3>2. CASE R + Len(Coming) = W
        <4>1. Cut(ms, hs, start, R + 1, W)'
          BY <1>1, <2>3, <3>1, <3>2 DEF Cut
        <4> QED BY <1>1, <4>1 DEF Written
      <3>3. CASE R + Len(Coming) # W
        <4>1. R + Len(Coming) = W + 1 /\ Coming[Len(Coming)] = Half
          BY <2>3, <3>3 DEF Cut
        <4>2. Coming'[Len(Coming')] = Half
          <5>1. Len(Coming') \in 1 .. Len(Coming) - 1 /\ Len(Coming') + 1 = Len(Coming)
            BY <1>2, <1>3, <4>1
          <5> QED BY <1>2, <4>1, <5>1
        <4>3. Cut(ms, hs, start, R + 1, W)'
          BY <1>1, <2>3, <3>1, <3>3, <4>1, <4>2 DEF Cut
        <4> QED BY <1>1, <4>3 DEF Written
      <3> QED BY <3>2, <3>3
    <2> QED BY <2>1, <2>2, <2>3 DEF Written
  <1> QED BY <1>4, <1>5

\* The frame of the reader is bad only if it is the last one.
LEMMA BadIsLast ==
  ASSUME NEW ms, NEW hs, NEW start, NEW R, NEW W, TypeOK, Prefix,
         Layout(ms, hs, start), Written(ms, hs, start, R, W),
         Len(got) + 1 <= Len(ms), ~Good(hs[Len(got) + 1])
  PROVE  broken /\ Len(got) = Len(sent)
  <1>1. Len(got) \in Nat /\ Len(sent) \in Nat /\ Len(ms) \in Nat /\ Len(got) <= Len(sent)
    BY SMTT(30) DEF TypeOK, Prefix, Layout
  <1>2. Len(got) + 1 \in 1 .. Len(ms)
    BY <1>1
  <1>3. Len(got) + 1 \notin 1 .. Len(sent)
    BY DEF Written
  <1>4. ~Intact(ms, hs, start, R, W)
    BY <1>2 DEF Intact
  <1> QED BY <1>1, <1>3, <1>4 DEF Written, Spoiled, Cut

\* A reader that follows the stream and finds a unit is inside a frame.
LEMMA Placed ==
  ASSUME NEW ms, NEW hs, NEW start, NEW R, NEW W, TypeOK, UnitTypes, Prefix,
         Layout(ms, hs, start), Ahead(ms, hs, start, R, W), Written(ms, hs, start, R, W),
         Place(ms, hs, start, R), Len(Coming) > 0 \/ Len(got) + 1 <= Len(ms)
  PROVE  LET g == Len(got) + 1
         IN  /\ g \in 1 .. Len(ms) /\ start[g] <= R
             /\ \/ InHeader(ms[g], hs[g], R - start[g])
                \/ InBody(ms[g], hs[g], R - start[g])
  <1> DEFINE g == Len(got) + 1
  <1>1. Len(got) \in Nat /\ Len(sent) \in Nat /\ Len(got) <= Len(sent) /\ Len(ms) \in Nat
    BY DEF TypeOK, Prefix, Layout
  <1>2. R \in Nat /\ W \in Nat /\ R <= W
    BY DEF Ahead
  <1>3. Len(Coming) \in Nat
    BY ConcatElements DEF UnitTypes, Coming
  <1>4. g <= Len(ms)
    <2> SUFFICES ASSUME g > Len(ms) PROVE FALSE
      BY <1>1
    <2>1. Fresh /\ R = start[g]
      BY <1>1 DEF Place
    <2>2. g = Len(ms) + 1 /\ Len(ms) = Len(sent)
      BY <1>1 DEF Written
    <2>3. Intact(ms, hs, start, R, W)
      BY <1>1, <2>2 DEF Written, Spoiled, Cut
    <2>4. R = R + Len(Coming)
      BY <2>1, <2>2, <2>3 DEF Intact
    <2> QED BY <1>1, <1>2, <1>3, <2>4
  <1>5. g \in 1 .. Len(ms)
    BY <1>1, <1>4
  <1>6. CASE Fresh /\ R = start[g]
    <2>1. start[g] \in Nat /\ hs[g] \in Headers /\ Len(hs[g]) \in Nat
      BY <1>5, LayoutFacts
    <2>2. R - start[g] = 0
      BY <1>6, <2>1
    <2>3. LastLength(ms[g], hs[g], 0)
      BY <1>6 DEF Fresh, LastLength
    <2>4. InHeader(ms[g], hs[g], R - start[g])
      BY <1>6, <2>1, <2>2, <2>3 DEF InHeader, Fresh
    <2> QED BY <1>2, <1>5, <1>6, <2>4
  <1> QED BY <1>5, <1>6 DEF Place

\* The reader is o units into the frame g.
At(ms, start, R, g, o) ==
    /\ g = Len(got) + 1 /\ g \in 1 .. Len(ms)
    /\ R \in Nat /\ o \in Nat /\ R = start[g] + o

\* It expects another unit of the frame, and one has arrived.
Inside(ms, hs, start, R, g, o) ==
    /\ At(ms, start, R, g, o)
    /\ o < FrameLen(ms[g], hs[g])
    /\ pipe # <<>>

\* A reader that finds a unit, or whose frame has begun, has a place in it.
LEMMA Located ==
  ASSUME NEW ms, NEW hs, NEW start, NEW R, NEW W, TypeOK, UnitTypes, Prefix,
         Layout(ms, hs, start), Ahead(ms, hs, start, R, W), Written(ms, hs, start, R, W),
         Place(ms, hs, start, R), pipe # <<>> \/ Len(got) + 1 <= Len(ms)
  PROVE  \E g, o : /\ At(ms, start, R, g, o)
                   /\ InHeader(ms[g], hs[g], o) \/ InBody(ms[g], hs[g], o)
  <1> DEFINE g == Len(got) + 1
             o == R - start[g]
  <1>1. Len(Coming) > 0 \/ g <= Len(ms)
    <2>1. ASSUME pipe # <<>> PROVE Len(Coming) > 0
      <3>1. pipe \in Seq(Units) /\ todo \in Seq(Units)
        BY DEF UnitTypes
      <3>2. Len(pipe) \in Nat \ {0} /\ Len(todo) \in Nat
        BY <2>1, <3>1, TailElements
      <3>3. Len(Coming) = Len(pipe) + Len(todo)
        BY <3>1 DEF Coming
      <3> QED BY <3>2, <3>3
    <2> QED BY <2>1
  <1>2. /\ g \in 1 .. Len(ms) /\ start[g] <= R
        /\ InHeader(ms[g], hs[g], o) \/ InBody(ms[g], hs[g], o)
    BY <1>1, Placed
  <1>3. start[g] \in Nat /\ R \in Nat
    BY <1>2, LayoutFacts DEF Ahead
  <1>4. o \in Nat /\ R = start[g] + o
    BY <1>2, <1>3
  <1>5. At(ms, start, R, g, o)
    BY <1>2, <1>3, <1>4 DEF At
  <1> HIDE DEF g, o
  <1> QED BY <1>2, <1>5

\* What such a reader finds is the next unit of its frame, or half a line
\* where the writer stopped.
LEMMA Arriving ==
  ASSUME NEW ms, NEW hs, NEW start, NEW R, NEW W, TypeOK, UnitTypes, Prefix,
         Layout(ms, hs, start), Ahead(ms, hs, start, R, W), Written(ms, hs, start, R, W),
         NEW g, NEW o, Inside(ms, hs, start, R, g, o)
  PROVE  \/ R < W /\ Head(pipe) = Frame(ms[g], hs[g])[o + 1]
         \/ /\ Head(pipe) = Half /\ o <= Len(hs[g])
            /\ broken /\ Len(got) = Len(sent)
  <1>1. Len(got) \in Nat /\ Len(sent) \in Nat /\ Len(got) <= Len(sent) /\ Len(ms) \in Nat
    BY DEF TypeOK, Prefix, Layout
  <1>2. R \in Nat /\ W \in Nat /\ R <= W
    BY DEF Ahead
  <1>g. g \in 1 .. Len(ms) /\ g = Len(got) + 1
    BY DEF Inside, At
  <1>3. /\ start[g] \in Nat /\ start[g + 1] \in Nat /\ FrameLen(ms[g], hs[g]) \in Nat
        /\ start[g + 1] = start[g] + FrameLen(ms[g], hs[g])
    BY <1>g, LayoutFacts
  <1>o. o \in Nat /\ R = start[g] + o /\ o < FrameLen(ms[g], hs[g])
    BY DEF Inside, At
  <1>4. R < start[g + 1]
    BY <1>o, <1>3
  <1>c. Coming[1] = Head(pipe) /\ Len(Coming) \in Nat \ {0}
    <2>1. pipe \in Seq(Units) /\ todo \in Seq(Units)
      BY DEF UnitTypes
    <2>2. Len(pipe) \in Nat \ {0} /\ Head(pipe) = pipe[1]
      BY <2>1, TailElements DEF Inside
    <2> QED BY <2>1, <2>2, ConcatElements DEF Coming
  <1>5. Len(Coming) \in Nat \ {0}
    BY <1>c
  <1>6. CASE R < W
    <2>1. o + 1 \in 1 .. FrameLen(ms[g], hs[g])
      BY <1>3, <1>o
    <2>2. start[g] + (o + 1) - R = 1 /\ R < start[g] + (o + 1) /\ start[g] + (o + 1) <= W
      <3> DEFINE a == start[g]
      <3>1. a \in Nat /\ R = a + o
        BY <1>3, <1>o
      <3>2. a + (o + 1) - R = 1 /\ R < a + (o + 1) /\ a + (o + 1) <= W
        <4> HIDE DEF a
        <4> QED BY <1>2, <1>o, <1>6, <3>1
      <3> QED BY <3>2
    <2>3. Coming[start[g] + (o + 1) - R] = Frame(ms[g], hs[g])[o + 1]
      BY <1>g, <2>1, <2>2 DEF Ahead
    <2> QED BY <1>c, <1>6, <2>2, <2>3
  <1>7. CASE R = W
    <2>1. start[Len(ms) + 1] \in Nat /\ start[g + 1] <= start[Len(ms) + 1]
      <3>1. Len(ms) + 1 \in g + 1 .. Len(ms) + 1
        BY <1>1, <1>g
      <3> QED BY <1>g, <3>1, LayoutFacts
    <2>2. R < start[Len(ms) + 1]
      BY <1>2, <1>3, <1>4, <2>1
    <2>3. Cut(ms, hs, start, R, W)
      <3>1. W # start[Len(ms) + 1]
        BY <1>2, <1>7, <2>1, <2>2
      <3> QED BY <3>1 DEF Written, Intact, Spoiled
    <2>4. Len(ms) = Len(sent) + 1 /\ broken /\ start[Len(ms)] <= W
      BY <2>3 DEF Cut
    <2>5. g = Len(ms)
      <3> SUFFICES ASSUME g # Len(ms) PROVE FALSE
        OBVIOUS
      <3>1. Len(ms) \in g + 1 .. Len(ms) + 1
        BY <1>1, <1>g
      <3>2. start[g + 1] <= start[Len(ms)] /\ start[Len(ms)] \in Nat
        BY <1>g, <3>1, LayoutFacts
      <3>3. start[g + 1] <= R
        BY <1>2, <1>3, <1>7, <2>4, <3>2
      <3> QED BY <1>2, <1>3, <1>4, <3>3
    <2>6. R + Len(Coming) # W
      BY <1>2, <1>5, <1>7
    <2>7. /\ R + Len(Coming) = W + 1 /\ Coming[Len(Coming)] = Half
          /\ W <= start[Len(ms)] + Len(hs[Len(ms)])
      BY <2>3, <2>6 DEF Cut
    <2>8. Coming[1] = Half
      <3> DEFINE n == Len(Coming)
      <3>1. n \in Nat /\ R + n = W + 1 /\ Coming[n] = Half
        BY <1>5, <2>7
      <3> HIDE DEF n
      <3>2. n = 1
        BY <1>2, <1>7, <3>1
      <3> QED BY <3>1, <3>2
    <2>9. o <= Len(hs[g])
      <3>1. Len(hs[g]) \in Nat
        BY <1>g, LayoutFacts
      <3>2. start[g] + o <= start[g] + Len(hs[g])
        BY <1>o, <1>7, <2>5, <2>7
      <3> QED BY <1>3, <1>o, <3>1, <3>2
    <2>10. Len(got) = Len(sent)
      BY <1>1, <1>g, <2>4, <2>5
    <2> QED BY <1>c, <2>4, <2>8, <2>9, <2>10
  <1> QED BY <1>2, <1>6, <1>7

\* The reader is one unit further.
LEMMA StillFollowing ==
  ASSUME NEW ms, NEW hs, NEW start, NEW R, NEW W, NEW g, NEW o,
         Layout(ms, hs, start), Ahead(ms, hs, start, R + 1, W)',
         Written(ms, hs, start, R + 1, W)', At(ms, start, R, g, o), got' = got,
         (InHeader(ms[g], hs[g], o + 1) \/ InBody(ms[g], hs[g], o + 1))'
  PROVE  Following'
  <1>1. g = Len(got') + 1 /\ g \in 1 .. Len(ms) /\ g <= Len(ms)
    BY DEF At, Layout
  <1>2. R \in Nat /\ o \in Nat /\ R = start[g] + o /\ start[g] \in Nat
    BY <1>1, LayoutFacts DEF At
  <1>3. start[g] <= R + 1 /\ (R + 1) - start[g] = o + 1
    <2> DEFINE a == start[g]
    <2>1. a \in Nat /\ R = a + o
      BY <1>2
    <2>2. a <= R + 1 /\ (R + 1) - a = o + 1
      <3> HIDE DEF a
      <3> QED BY <1>2, <2>1
    <2> QED BY <2>2
  <1>4. Place(ms, hs, start, R + 1)'
    BY <1>1, <1>3 DEF Place
  <1> QED BY <1>4 DEF Following, Layout

\* Message::read with its next header line goes on in the frame, or ends
\* at the place where the stream is broken.
LEMMA ReadLineStep ==
  ASSUME TypeOK, UnitTypes, Prefix, Following, ReadLine
  PROVE  \/ verdict' = "reading" /\ Following'
         \/ verdict' = "error" /\ broken /\ Len(got) = Len(sent)
  <1>1. PICK ms, hs, start, R, W :
            /\ Layout(ms, hs, start) /\ Ahead(ms, hs, start, R, W)
            /\ Written(ms, hs, start, R, W) /\ Place(ms, hs, start, R)
    BY DEF Following
  <1>2. /\ verdict = "reading" /\ in_header /\ pipe # <<>>
        /\ pipe' = Tail(pipe) /\ UNCHANGED writer
    BY DEF ReadLine
  <1>3. PICK g, o : /\ At(ms, start, R, g, o)
                    /\ InHeader(ms[g], hs[g], o) \/ InBody(ms[g], hs[g], o)
    BY <1>1, <1>2, Located
  <1> DEFINE m == ms[g]
             header == hs[g]
  <1>4. InHeader(m, header, o)
    BY <1>2, <1>3 DEF InBody
  <1>5. g \in 1 .. Len(ms) /\ g = Len(got) + 1 /\ o \in Nat
    BY <1>3 DEF At
  <1>6. m \in Messages /\ header \in Headers /\ g <= Len(ms)
    BY <1>1, <1>5, LayoutFacts
  <1>7. Len(header) \in Nat /\ o <= Len(header) /\ o < FrameLen(m, header)
    <2>1. /\ Len(header) \in Nat /\ o <= Len(header)
          /\ Size[m] \in Nat \ {0} /\ FrameLen(m, header) = Len(header) + 1 + Size[m]
      BY <1>1, <1>4, <1>5, LayoutFacts DEF InHeader
    <2> QED BY <1>5, <2>1
  <1>8. Inside(ms, hs, start, R, g, o)
    BY <1>2, <1>3, <1>7 DEF Inside
  <1>9. \/ R < W /\ Head(pipe) = Frame(m, header)[o + 1]
        \/ Head(pipe) = Half /\ broken /\ Len(got) = Len(sent)
    BY <1>1, <1>8, Arriving
  <1>10. ASSUME ~Good(header)
         PROVE  broken /\ Len(got) = Len(sent)
    BY <1>1, <1>5, <1>6, <1>10, BadIsLast
  <1>11. CASE Head(pipe) = Half /\ broken /\ Len(got) = Len(sent)
    <2>1. IsLine(Half) /\ Half.kind = "bad"
      BY LinesAndBytes DEF Half, Line
    <2>2. verdict' = "error"
      BY <1>11, <2>1 DEF ReadLine, Fail
    <2> QED BY <1>11, <2>2
  <1>12. CASE R < W /\ Head(pipe) = Frame(m, header)[o + 1]
    <2>1. Ahead(ms, hs, start, R + 1, W)' /\ Written(ms, hs, start, R + 1, W)'
      BY <1>1, <1>2, <1>12, Advance
    <2>2. ASSUME got' = got, InHeader(m, header, o + 1)' \/ InBody(m, header, o + 1)'
          PROVE  Following'
      BY <1>1, <1>3, <2>1, <2>2, StillFollowing
    <2>3. CASE o < Len(header)
      <3> DEFINE f == header[o + 1]
                 unit == FieldLine(f, m)
      <3>1. Head(pipe) = unit /\ f \in Fields
        <4>1. o + 1 \in 1 .. Len(header)
          BY <1>5, <1>7, <2>3
        <4> QED BY <1>6, <1>12, <4>1, FrameUnits
      <3>2. IsLine(unit) /\ unit.kind = (IF f \in Lengths THEN "length" ELSE f)
        BY <1>6, <3>1, FieldLines
      <3>3. CASE f \in Lengths
        <4>1. content_len' = Length(unit.n) /\ UNCHANGED <<in_header, buf, got, verdict>>
          <5> HIDE DEF unit, f
          <5> QED BY <3>1, <3>2, <3>3 DEF ReadLine
        <4>2. LastLength(m, header, o + 1)'
          <5>1. f # "other"
            BY <3>3 DEF Lengths
          <5> QED BY <1>4, <1>5, <1>6, <2>3, <3>3, <4>1, <5>1, LineTaken DEF InHeader
        <4>3. InHeader(m, header, o + 1)'
          BY <1>2, <1>5, <1>7, <2>3, <4>1, <4>2 DEF InHeader
        <4> QED BY <1>2, <2>2, <4>1, <4>3
      <3>4. CASE f = "other"
        <4>1. UNCHANGED <<in_header, content_len, buf, got, verdict>>
          <5>1. f \notin Lengths
            BY <3>4 DEF Lengths
          <5> HIDE DEF unit, f
          <5> QED BY <3>1, <3>2, <3>4, <5>1 DEF ReadLine, reader
        <4>2. LastLength(m, header, o + 1)'
          BY <1>4, <1>5, <1>6, <2>3, <3>4, <4>1, LineTaken DEF InHeader
        <4>3. InHeader(m, header, o + 1)'
          BY <1>2, <1>5, <1>7, <2>3, <4>1, <4>2 DEF InHeader
        <4> QED BY <1>2, <2>2, <4>1, <4>3
      <3>5. CASE f \in {"nan", "bad"}
        <4>1. verdict' = "error"
          <5>1. f \notin Lengths /\ f # "length" /\ f # "other" /\ f # "blank"
            BY <3>5 DEF Lengths
          <5> HIDE DEF unit, f
          <5> QED BY <3>1, <3>2, <3>5, <5>1 DEF ReadLine, Fail
        <4>2. ~Good(header)
          <5>1. o + 1 \in 1 .. Len(header)
            BY <1>5, <1>7, <2>3
          <5> QED BY <3>5, <5>1 DEF Good
        <4> QED BY <1>10, <4>1, <4>2
      <3> QED BY <3>1, <3>3, <3>4, <3>5 DEF Fields, Lengths
    <2>4. CASE o = Len(header)
      <3>1. Head(pipe) = Blank
        BY <1>6, <1>12, <2>4, FrameUnits
      <3>2. IsLine(Blank) /\ Blank.kind = "blank"
        BY LinesAndBytes DEF Blank, Line
      <3>3. LastLength(m, header, Len(header))
        BY <1>4, <2>4 DEF InHeader
      <3>4. CASE content_len.given
        <4>1. in_header' = FALSE /\ UNCHANGED <<content_len, buf, got, verdict>>
          BY <3>1, <3>2, <3>4 DEF ReadLine
        <4>2. buf' = <<>>
          BY <1>2, <4>1 DEF TypeOK
        <4>3. LastLength(m, header, Len(header))'
          BY <3>3, <4>1 DEF LastLength
        <4>4. Size[m] \in Nat \ {0}
          BY <1>6, FrameUnits
        <4>5. InBody(m, header, o + 1)'
          BY <1>7, <2>4, <3>4, <4>1, <4>2, <4>3, <4>4 DEF InBody
        <4> QED BY <1>2, <2>2, <4>1, <4>5
      <3>5. CASE ~content_len.given
        <4>1. verdict' = "error"
          BY <3>1, <3>2, <3>5 DEF ReadLine, Fail
        <4>2. ~Good(header)
          BY <1>6, <3>3, <3>5, HeaderEnds
        <4> QED BY <1>10, <4>1, <4>2
      <3> QED BY <3>4, <3>5
    <2> QED BY <1>5, <1>7, <2>3, <2>4
  <1> QED BY <1>9, <1>11, <1>12

\* Message::read with another byte of a body goes on in the frame, or beyond the
\* body of a bad one.
LEMMA ReadBodyStep ==
  ASSUME TypeOK, UnitTypes, Prefix, Following, ReadBody
  PROVE  Following' \/ Doomed'
  <1>1. PICK ms, hs, start, R, W :
            /\ Layout(ms, hs, start) /\ Ahead(ms, hs, start, R, W)
            /\ Written(ms, hs, start, R, W) /\ Place(ms, hs, start, R)
    BY DEF Following
  <1>2. /\ ~in_header /\ Len(buf) # content_len.n /\ pipe # <<>>
        /\ pipe' = Tail(pipe) /\ buf' = Append(buf, Head(pipe))
        /\ UNCHANGED writer /\ UNCHANGED <<in_header, content_len, got>>
    BY DEF ReadBody, Full
  <1>3. PICK g, o : /\ At(ms, start, R, g, o)
                    /\ InHeader(ms[g], hs[g], o) \/ InBody(ms[g], hs[g], o)
    BY <1>1, <1>2, Located
  <1> DEFINE m == ms[g]
             header == hs[g]
  <1>4. InBody(m, header, o)
    BY <1>2, <1>3 DEF InHeader
  <1>5. g \in 1 .. Len(ms) /\ g = Len(got) + 1 /\ o \in Nat
    BY <1>3 DEF At
  <1>6. m \in Messages /\ header \in Headers /\ g <= Len(ms)
    BY <1>1, <1>5, LayoutFacts
  <1>7. /\ Len(header) \in Nat /\ Size[m] \in Nat \ {0}
        /\ FrameLen(m, header) = Len(header) + 1 + Size[m]
    BY <1>1, <1>5, LayoutFacts
  <1>8. /\ Head(pipe) \in Units /\ buf' \in Seq(Units) /\ Len(buf') = Len(buf) + 1
        /\ Len(buf) \in Nat
        /\ \A i \in 1 .. Len(buf) : buf'[i] = buf[i]
        /\ buf'[Len(buf) + 1] = Head(pipe)
    <2>1. Head(pipe) \in Units
      BY <1>2, TailElements DEF UnitTypes
    <2> QED BY <1>2, <2>1, AppendElements DEF UnitTypes
  <1>9. /\ o = Len(header) + 1 + Len(buf) /\ Len(buf) <= Size[m]
        /\ \A i \in 1 .. Len(buf) : buf[i] = Byte(m, i)
        /\ content_len.given /\ LastLength(m, header, Len(header))
    BY <1>4 DEF InBody
  <1>10. CASE Len(buf) < Size[m]
    <2>a. /\ Len(buf) \in Nat /\ Len(buf') = Len(buf) + 1
          /\ o = Len(header) + 1 + Len(buf)
      BY <1>8, <1>9
    <2>1. o < FrameLen(m, header) /\ ~(o <= Len(header))
      BY <1>7, <1>10, <2>a
    <2>2. Inside(ms, hs, start, R, g, o)
      BY <1>2, <1>3, <2>1 DEF Inside
    <2>3. R < W /\ Head(pipe) = Frame(m, header)[o + 1]
      BY <1>1, <2>1, <2>2, Arriving
    <2>4. Head(pipe) = Byte(m, Len(buf) + 1)
      <3>1. Len(buf) + 1 \in 1 .. Size[m] /\ o + 1 = Len(header) + 1 + (Len(buf) + 1)
        <4> DEFINE lines == Len(header)
                   bytes == Size[m]
                   n == Len(buf)
        <4>1. /\ bytes \in Nat /\ n \in Nat /\ lines \in Nat
              /\ n < bytes /\ o = lines + 1 + n
          BY <1>7, <1>10, <2>a
        <4>2. n + 1 \in 1 .. bytes /\ o + 1 = lines + 1 + (n + 1)
          <5> HIDE DEF lines, bytes, n
          <5> QED BY <4>1
        <4> QED BY <4>2
      <3>2. Frame(m, header)[Len(header) + 1 + (Len(buf) + 1)] = Byte(m, Len(buf) + 1)
        BY <1>6, <3>1, FrameUnits
      <3> QED BY <2>3, <3>1, <3>2
    <2>5. InBody(m, header, o + 1)'
      <3>1. o + 1 = Len(header) + 1 + Len(buf') /\ Len(buf') <= Size[m]
        <4> DEFINE lines == Len(header)
                   bytes == Size[m]
                   n == Len(buf)
                   after == Len(buf')
        <4>1. /\ bytes \in Nat /\ n \in Nat /\ lines \in Nat
              /\ n < bytes /\ o = lines + 1 + n /\ after = n + 1
          BY <1>7, <1>10, <2>a
        <4>2. o + 1 = lines + 1 + after /\ after <= bytes
          <5> HIDE DEF lines, bytes, n, after
          <5> QED BY <4>1
        <4> QED BY <4>2
      <3>2. \A i \in 1 .. Len(buf') : buf'[i] = Byte(m, i)
        <4>1. 1 .. Len(buf') = (1 .. Len(buf)) \cup {Len(buf) + 1}
          BY <1>8
        <4> QED BY <1>8, <1>9, <2>4, <4>1
      <3>3. LastLength(m, header, Len(header))'
        BY <1>2, <1>9 DEF LastLength
      <3> QED BY <1>2, <1>9, <3>1, <3>2, <3>3 DEF InBody
    <2>6. Ahead(ms, hs, start, R + 1, W)' /\ Written(ms, hs, start, R + 1, W)'
      BY <1>1, <1>2, <2>3, Advance
    <2> QED BY <1>1, <1>2, <1>3, <2>5, <2>6, StillFollowing
  <1>11. CASE Len(buf) = Size[m]
    <2>1. content_len.n # Size[m] /\ ~Good(header)
      BY <1>2, <1>6, <1>9, <1>11, HeaderEnds
    <2>2. broken /\ Len(got) = Len(sent)
      BY <1>1, <1>5, <1>6, <2>1, BadIsLast
    <2>3. 1 \in 1 .. Len(buf)
      BY <1>7, <1>11
    <2>4. buf'[1] = Byte(m, 1) /\ buf' # <<>>
      <3>1. buf'[1] = Byte(m, 1)
        BY <1>8, <1>9, <2>3
      <3>2. buf' # <<>>
        BY <1>8
      <3> QED BY <3>1, <3>2
    <2>5. UNCHANGED <<broken, sent, got, in_header, content_len>>
      BY <1>2 DEF writer
    <2> HIDE DEF m
    <2> QED BY <1>2, <1>6, <2>1, <2>2, <2>4, <2>5 DEF Doomed
  <1> QED BY <1>7, <1>8, <1>9, <1>10, <1>11

\* A reader beyond the body of a bad frame stays there.
LEMMA DoomedRead ==
  ASSUME TypeOK, UnitTypes, Doomed, ReadBody
  PROVE  Doomed'
  <1>1. /\ Head(pipe) \in Units /\ buf' = Append(buf, Head(pipe))
        /\ UNCHANGED <<broken, sent, got, in_header, content_len>>
    BY TailElements DEF UnitTypes, ReadBody, writer
  <1>2. buf \in Seq(Units) /\ buf # <<>>
    BY DEF UnitTypes, Doomed
  <1>3. 1 \in 1 .. Len(buf)
    BY <1>2, TailElements
  <1>4. buf'[1] = buf[1] /\ Len(buf') = Len(buf) + 1 /\ Len(buf) \in Nat
    BY <1>1, <1>2, <1>3, AppendElements
  <1>5. buf' # <<>>
    BY <1>4
  <1> QED BY <1>1, <1>4, <1>5 DEF Doomed

\* Bodies of two messages differ in their first bytes.
LEMMA BodyStarts ==
  ASSUME NEW m \in Messages, NEW n \in Messages, buf = Body(n), buf[1] = Byte(m, 1)
  PROVE  m = n /\ Len(buf) = Size[m] /\ buf[1].of = m
  <1>1. Size[n] \in Nat \ {0} /\ Len(Body(n)) = Size[n]
    BY FramingAssumption DEF Body
  <1>2. Body(n)[1] = Byte(n, 1)
    BY <1>1 DEF Body
  <1>3. Byte(m, 1).of = m /\ Byte(n, 1).of = n
    BY DEF Byte
  <1> QED BY <1>1, <1>2, <1>3

\* A decoded body is the next message that was written; one that cannot be
\* decoded is the place where the stream is broken.
LEMMA DecodeStep ==
  ASSUME TypeOK, UnitTypes, Prefix, Following, Decode
  PROVE  \/ /\ verdict' = verdict /\ Len(got) < Len(sent)
            /\ got' = Append(got, sent[Len(got) + 1])
            /\ Following'
         \/ /\ verdict' = "error" /\ got' = got
            /\ broken /\ Len(got) = Len(sent)
  <1>1. PICK ms, hs, start, R, W :
            /\ Layout(ms, hs, start) /\ Ahead(ms, hs, start, R, W)
            /\ Written(ms, hs, start, R, W) /\ Place(ms, hs, start, R)
    BY DEF Following
  <1>2. ~in_header /\ Len(buf) = content_len.n /\ UNCHANGED <<writer, pipe>>
    BY DEF Decode, Full
  <1>t. /\ Len(got) \in Nat /\ Len(sent) \in Nat /\ Len(ms) \in Nat
        /\ got \in Seq(Messages) /\ sent \in Seq(Messages)
    BY <1>1 DEF TypeOK, Layout
  <1>3. PICK g, o : /\ At(ms, start, R, g, o)
                    /\ InHeader(ms[g], hs[g], o) \/ InBody(ms[g], hs[g], o)
    <2>1. Len(got) + 1 <= Len(ms)
      BY <1>1, <1>2 DEF Place, Fresh
    <2> QED BY <1>1, <2>1, Located
  <1> DEFINE m == ms[g]
             header == hs[g]
  <1>4. InBody(m, header, o)
    BY <1>2, <1>3 DEF InHeader
  <1>5. g \in 1 .. Len(ms) /\ g = Len(got) + 1 /\ o \in Nat /\ R \in Nat /\ R = start[g] + o
    BY <1>3 DEF At
  <1>6. m \in Messages /\ header \in Headers /\ g <= Len(ms)
    BY <1>1, <1>5, LayoutFacts
  <1>7. /\ Len(header) \in Nat /\ Size[m] \in Nat \ {0}
        /\ FrameLen(m, header) = Len(header) + 1 + Size[m]
        /\ start[g] \in Nat /\ start[g + 1] = start[g] + FrameLen(m, header)
    BY <1>1, <1>5, LayoutFacts
  <1>8. /\ o = Len(header) + 1 + Len(buf) /\ Len(buf) <= Size[m]
        /\ content_len.given /\ LastLength(m, header, Len(header))
    BY <1>4 DEF InBody
  <1>9. \A i \in 1 .. Len(buf) : buf[i] = Byte(m, i)
    BY <1>4 DEF InBody
  <1>10. content_len.n = Size[m] <=> Good(header)
    BY <1>6, <1>8, HeaderEnds
  <1>11. CASE \E n \in Messages : buf = Body(n)
    <2>1. PICK n \in Messages : buf = Body(n)
      BY <1>11
    <2>2. buf[1] = Byte(m, 1)
      <3>1. Size[n] \in Nat \ {0} /\ Len(buf) = Size[n]
        BY <2>1, FramingAssumption DEF Body
      <3>2. 1 \in 1 .. Len(buf)
        BY <3>1
      <3> QED BY <1>9, <3>2
    <2>3. Len(buf) = Size[m] /\ buf[1].of = m
      BY <1>6, <2>1, <2>2, BodyStarts
    <2>4. Good(header)
      BY <1>2, <1>10, <2>3
    <2>5. o = FrameLen(m, header) /\ R = start[g + 1]
      BY <1>5, <1>7, <1>8, <2>3
    <2>6. g \in 1 .. Len(sent)
      <3>1. Len(ms) <= Len(sent) + 1 /\ Len(sent) <= Len(ms)
        BY <1>1, <1>t DEF Written, Intact, Spoiled, Cut
      <3>2. SUFFICES ASSUME g = Len(ms), Len(ms) = Len(sent) + 1
                     PROVE  FALSE
        BY <1>5, <1>6, <1>t, <3>1
      <3>3. start[g + 1] = start[Len(ms) + 1] /\ hs[Len(ms)] = header
        BY <3>2
      <3>4. R = start[Len(ms) + 1] /\ R \in Nat /\ W \in Nat /\ R <= W
        BY <1>1, <2>5, <3>3 DEF Ahead
      <3>5. CASE Intact(ms, hs, start, R, W)
        <4>1. todo # <<>> /\ R = R + Len(Coming)
          BY <1>t, <3>2, <3>4, <3>5 DEF Intact
        <4>2. pipe \in Seq(Units) /\ todo \in Seq(Units)
          BY DEF UnitTypes
        <4>3. Len(pipe) \in Nat /\ Len(todo) \in Nat \ {0}
          BY <4>1, <4>2, TailElements
        <4>4. Len(Coming) = Len(pipe) + Len(todo)
          BY <4>2 DEF Coming
        <4> QED BY <3>4, <4>1, <4>3, <4>4
      <3>6. CASE Spoiled(ms, hs, start, R, W)
        BY <2>4, <3>3, <3>6 DEF Spoiled
      <3>7. CASE Cut(ms, hs, start, R, W)
        BY <3>4, <3>7 DEF Cut
      <3> QED BY <1>1, <3>5, <3>6, <3>7 DEF Written
    <2>7. /\ got' = Append(got, m) /\ verdict' = verdict
          /\ in_header' = TRUE /\ content_len' = NoLength
      BY <1>11, <2>3 DEF Decode
    <2>8. m = sent[Len(got) + 1] /\ Len(got) < Len(sent)
      BY <1>1, <1>5, <1>t, <2>6 DEF Written
    <2>9. Following'
      <3>1. Len(got') + 1 = g + 1
        BY <1>5, <1>6, <1>t, <2>7, AppendElements
      <3>2. Place(ms, hs, start, R)'
        BY <2>5, <2>7, <3>1 DEF Place, Fresh
      <3>3. UNCHANGED <<todo, pipe, closed, broken, sent>>
        BY <1>2 DEF writer
      <3>4. Ahead(ms, hs, start, R, W)' /\ Written(ms, hs, start, R, W)'
        BY <1>1, <3>3 DEF Ahead, Written, Intact, Spoiled, Cut, Coming
      <3> QED BY <1>1, <3>2, <3>4 DEF Following, Layout
    <2> QED BY <2>7, <2>8, <2>9
  <1>12. CASE ~\E n \in Messages : buf = Body(n)
    <2>1. verdict' = "error" /\ got' = got
      BY <1>12 DEF Decode, Fail
    <2>2. ~Good(header)
      <3> SUFFICES ASSUME Good(header) PROVE buf = Body(m)
        BY <1>6, <1>12
      <3>1. Len(buf) = Size[m] /\ buf \in Seq(Units)
        BY <1>2, <1>10 DEF UnitTypes
      <3> QED BY <1>7, <1>9, <3>1 DEF Body
    <2> QED BY <1>1, <1>5, <1>6, <2>1, <2>2, BadIsLast
  <1> QED BY <1>11, <1>12

\* A reader beyond the body of a bad frame cannot decode it.
LEMMA DoomedDecode ==
  ASSUME TypeOK, Doomed, Decode
  PROVE  verdict' = "error" /\ got' = got /\ broken /\ Len(got) = Len(sent)
  <1>1. PICK m \in Messages : buf[1] = Byte(m, 1) /\ content_len.n # Size[m]
    BY DEF Doomed
  <1>2. ~\E n \in Messages : buf = Body(n)
    BY <1>1, BodyStarts DEF Decode, Full
  <1> QED BY <1>2 DEF Doomed, Decode, Fail

\* Nothing is left to read, and no whole body is waiting to be decoded: all
\* that was written was returned, and an intact stream ends between frames.
LEMMA EndReached ==
  ASSUME TypeOK, UnitTypes, Prefix, Following,
         pipe = <<>>, todo = <<>>, in_header \/ ~Full
  PROVE  Len(got) = Len(sent) /\ (~broken => in_header)
  <1>1. PICK ms, hs, start, R, W :
            /\ Layout(ms, hs, start) /\ Ahead(ms, hs, start, R, W)
            /\ Written(ms, hs, start, R, W) /\ Place(ms, hs, start, R)
    BY DEF Following
  <1>2. /\ Len(got) \in Nat /\ Len(sent) \in Nat /\ Len(ms) \in Nat
        /\ Len(got) <= Len(sent) /\ Len(sent) <= Len(ms)
    BY <1>1 DEF TypeOK, Prefix, Layout, Written
  <1>3. Len(pipe) = 0 /\ Len(Coming) = 0
    BY DEF Coming
  <1>4. R \in Nat /\ W \in Nat /\ R <= W /\ W <= R
    BY <1>1, <1>3 DEF Ahead
  <1>5. start[Len(sent) + 1] <= R
    <2>1. CASE Intact(ms, hs, start, R, W)
      <3>1. Len(ms) = Len(sent) /\ W = start[Len(ms) + 1]
        BY <2>1 DEF Intact
      <3>2. W = start[Len(sent) + 1]
        BY <3>1
      <3> QED BY <1>4, <3>2
    <2>2. CASE Spoiled(ms, hs, start, R, W)
      <3>1. Len(ms) = Len(sent) + 1 /\ start[Len(ms)] <= R + 0
        BY <1>3, <2>2 DEF Spoiled
      <3> QED BY <1>4, <3>1
    <2>3. CASE Cut(ms, hs, start, R, W)
      <3>1. Len(ms) = Len(sent) + 1 /\ start[Len(ms)] <= W /\ W = R
        BY <1>4, <2>3 DEF Cut
      <3> QED BY <3>1
    <2> QED BY <1>1, <2>1, <2>2, <2>3 DEF Written
  <1>6. Len(got) = Len(sent)
    <2> SUFFICES ASSUME Len(got) # Len(sent) PROVE FALSE
      OBVIOUS
    <2>1. Len(got) + 1 \in 1 .. Len(sent) /\ Len(got) + 1 <= Len(ms)
      BY <1>2
    <2>2. PICK g, o : /\ At(ms, start, R, g, o)
                      /\ InHeader(ms[g], hs[g], o) \/ InBody(ms[g], hs[g], o)
      BY <1>1, <2>1, Located
    <2> DEFINE m == ms[g]
               header == hs[g]
    <2>3. g \in 1 .. Len(ms) /\ g = Len(got) + 1 /\ o \in Nat /\ R = start[g] + o
      BY <2>2 DEF At
    <2>4. /\ m \in Messages /\ header \in Headers
          /\ Len(header) \in Nat /\ Size[m] \in Nat \ {0}
          /\ FrameLen(m, header) = Len(header) + 1 + Size[m]
          /\ FrameLen(m, header) \in Nat /\ start[g] \in Nat /\ start[g + 1] \in Nat
          /\ start[g + 1] = start[g] + FrameLen(m, header)
      <3>1. g \in 1 .. Len(ms)
        BY <2>3
      <3> QED BY <1>1, <3>1, LayoutFacts
    <2>5. Good(header)
      BY <1>1, <2>1, <2>3 DEF Written
    <2>6. start[Len(sent) + 1] \in Nat /\ start[g + 1] <= start[Len(sent) + 1]
      <3>1. Len(sent) + 1 \in g + 1 .. Len(ms) + 1
        BY <1>2, <2>1, <2>3
      <3> QED BY <1>1, <2>3, <3>1, LayoutFacts
    <2>7. o >= FrameLen(m, header)
      <3> DEFINE a == start[g]
                 b == start[g + 1]
                 c == start[Len(sent) + 1]
                 l == FrameLen(m, header)
      <3>1. /\ a \in Nat /\ b \in Nat /\ c \in Nat /\ l \in Nat
            /\ R = a + o /\ b = a + l /\ b <= c /\ c <= R
        <4>1. a \in Nat /\ b \in Nat /\ c \in Nat /\ l \in Nat
          BY <2>4, <2>6
        <4>2. R = a + o /\ b = a + l
          BY <2>3, <2>4
        <4>3. b <= c /\ c <= R
          BY <1>5, <2>6
        <4> QED BY <4>1, <4>2, <4>3
      <3>2. o >= l
        <4> HIDE DEF a, b, c, l
        <4> QED BY <1>4, <2>3, <3>1
      <3> QED BY <3>2
    <2>8. CASE InHeader(m, header, o)
      BY <2>3, <2>4, <2>7, <2>8, SMTT(30) DEF InHeader
    <2>9. CASE InBody(m, header, o)
      <3>1. /\ ~in_header /\ content_len.given /\ LastLength(m, header, Len(header))
            /\ o = Len(header) + 1 + Len(buf) /\ Len(buf) <= Size[m] /\ Len(buf) \in Nat
        BY <2>9 DEF InBody, UnitTypes
      <3>2. content_len.n = Size[m]
        BY <2>4, <2>5, <3>1, HeaderEnds
      <3>3. Len(buf) = Size[m]
        BY <2>4, <2>7, <3>1
      <3> QED BY <3>1, <3>2, <3>3 DEF Full
    <2> QED BY <2>2, <2>8, <2>9
  <1>7. ASSUME ~broken PROVE in_header
    <2>1. Len(ms) = Len(sent)
      BY <1>1, <1>7 DEF Written, Intact, Spoiled, Cut
    <2>2. ~(Len(got) + 1 <= Len(ms))
      BY <1>2, <1>6, <2>1
    <2> QED BY <1>1, <2>2 DEF Place, Fresh
  <1> QED BY <1>6, <1>7

----------------------------------------------------------------------------
(***************************************************************************)
(* The writer.                                                             *)
(***************************************************************************)
\* The stream before W stays as it was when the writer adds to it or goes.
LEMMA AheadKept ==
  ASSUME NEW ms, NEW hs, NEW start, NEW R, NEW W, NEW V \in Nat, UnitTypes,
         Layout(ms, hs, start), Ahead(ms, hs, start, R, W),
         R <= V, V <= W, V <= R + Len(Coming), V <= R + Len(Coming'),
         \A j \in 1 .. Len(Coming) : R + j <= V => Coming'[j] = Coming[j]
  PROVE  Ahead(ms, hs, start, R, V)'
  <1>1. R \in Nat /\ W \in Nat /\ Len(Coming) \in Nat
    BY DEF Ahead, UnitTypes, Coming
  <1>2. ASSUME NEW k \in 1 .. Len(ms), NEW i \in 1 .. FrameLen(ms[k], hs[k]),
               R < start[k] + i, start[k] + i <= V
        PROVE  Coming'[start[k] + i - R] = Frame(ms[k], hs[k])[i]
    <2>1. start[k] \in Nat /\ i \in Nat
      BY LayoutFacts
    <2> DEFINE a == start[k]
               n == Len(Coming)
               j == a + i - R
    <2>2. R < a + i /\ a + i <= W
      BY <1>1, <1>2, <2>1
    <2>3. Coming[j] = Frame(ms[k], hs[k])[i]
      BY <2>2 DEF Ahead
    <2>4. j \in 1 .. n /\ R + j <= V
      <3>1. a \in Nat /\ n \in Nat /\ R < a + i /\ a + i <= V /\ V <= R + n
        BY <1>1, <1>2, <2>1
      <3> HIDE DEF a, n
      <3> QED BY <1>1, <2>1, <3>1
    <2> QED BY <2>3, <2>4
  <1> QED BY <1>1, <1>2 DEF Ahead

\* The writer begins another frame, which ends the known stream when it is bad.
LEMMA BeginStep ==
  ASSUME TypeOK, UnitTypes, Prefix, Following,
         NEW m \in Messages, NEW header \in Headers, Begin(m, header)
  PROVE  Following'
  <1>1. PICK ms, hs, start, R, W :
            /\ Layout(ms, hs, start) /\ Ahead(ms, hs, start, R, W)
            /\ Written(ms, hs, start, R, W) /\ Place(ms, hs, start, R)
    BY DEF Following
  <1>2. /\ ~closed /\ todo = <<>> /\ todo' = Frame(m, header)
        /\ broken' = (broken \/ ~Good(header))
        /\ UNCHANGED <<pipe, closed, sent, reader>>
        /\ UNCHANGED <<in_header, content_len, buf, got, verdict>>
    BY DEF Begin, reader
  <1>3. /\ R \in Nat /\ W \in Nat /\ R <= W /\ W <= R + Len(Coming)
        /\ Len(ms) \in Nat /\ Len(sent) \in Nat /\ Len(got) \in Nat /\ Len(got) <= Len(sent)
    BY <1>1 DEF Ahead, Layout, TypeOK, Prefix
  <1> DEFINE l == FrameLen(m, header)
  <1>4. /\ l \in Nat \ {0} /\ Frame(m, header) \in Seq(Units) /\ Len(Frame(m, header)) = l
        /\ Frame(m, header) # <<>>
    <2>1. /\ Frame(m, header) \in Seq(Units) /\ Len(Frame(m, header)) = l
          /\ Len(header) \in Nat /\ Size[m] \in Nat \ {0}
      BY FrameUnits
    <2>2. l \in Nat \ {0}
      BY <2>1 DEF FrameLen
    <2> HIDE DEF l
    <2> QED BY <2>1, <2>2
  <1>5. Coming = pipe /\ Len(Coming) = Len(pipe) /\ Len(pipe) \in Nat
    BY <1>2 DEF UnitTypes, Coming
  <1>6. /\ Len(Coming') = Len(pipe) + l
        /\ \A j \in 1 .. Len(pipe) : Coming'[j] = pipe[j]
        /\ \A j \in 1 .. l : Coming'[Len(pipe) + j] = Frame(m, header)[j]
    <2>1. Coming' = pipe \o Frame(m, header)
      BY <1>2 DEF Coming
    <2> DEFINE f == Frame(m, header)
    <2>2. f \in Seq(Units) /\ pipe \in Seq(Units) /\ Len(f) = l
      BY <1>4 DEF UnitTypes
    <2> HIDE DEF l, f
    <2>3. /\ Len(pipe \o f) = Len(pipe) + Len(f)
          /\ \A j \in 1 .. Len(pipe) : (pipe \o f)[j] = pipe[j]
          /\ \A j \in 1 .. Len(f) : (pipe \o f)[Len(pipe) + j] = f[j]
      BY <2>2
    <2>4. Coming' = pipe \o f
      BY <2>1 DEF f
    <2> QED BY <2>2, <2>3, <2>4 DEF f
  <1> HIDE DEF l
  <1>7. CASE broken
    <2>1. Spoiled(ms, hs, start, R, W)
      BY <1>1, <1>2, <1>7 DEF Written, Intact, Cut
    <2>2. Written(ms, hs, start, R, W)'
      BY <1>1, <1>2, <1>7, <2>1 DEF Written, Spoiled
    <2>3. Ahead(ms, hs, start, R, W)'
      <3>1. W <= R + Len(Coming')
        BY <1>3, <1>4, <1>5, <1>6
      <3> QED BY <1>1, <1>3, <1>5, <1>6, <3>1, AheadKept, SMTT(30)
    <2>4. Place(ms, hs, start, R)'
      BY <1>1, <1>2 DEF Place, Fresh, InHeader, InBody, LastLength
    <2> QED BY <1>1, <2>2, <2>3, <2>4 DEF Following, Layout
  <1>8. CASE ~broken
    <2>1. /\ Len(ms) = Len(sent) /\ W = start[Len(ms) + 1] /\ W = R + Len(pipe)
          /\ \A k \in 1 .. Len(ms) : Good(hs[k])
      BY <1>1, <1>2, <1>5, <1>8 DEF Written, Intact, Spoiled, Cut
    <2> DEFINE n == Len(ms) + 1
               ms1 == Append(ms, m)
               hs1 == Append(hs, header)
               start1 == Append(start, W + l)
               W1 == W + l
    <2>2. /\ ms1 \in Seq(Messages) /\ Len(ms1) = n /\ ms1[n] = m
          /\ \A k \in 1 .. Len(ms) : ms1[k] = ms[k]
      BY <1>1, AppendElements DEF Layout
    <2>3. /\ hs1 \in Seq(Headers) /\ Len(hs1) = n /\ hs1[n] = header
          /\ \A k \in 1 .. Len(ms) : hs1[k] = hs[k]
      BY <1>1, AppendElements DEF Layout
    <2>4. /\ start1 \in Seq(Nat) /\ Len(start1) = n + 1 /\ start1[n + 1] = W1
          /\ \A k \in 1 .. n : start1[k] = start[k]
      <3>1. start \in Seq(Nat) /\ Len(start) = n /\ W + l \in Nat
        BY <1>1, <1>3, <1>4 DEF Layout
      <3> QED BY <3>1, AppendElements
    <2>5. n \in Nat \ {0} /\ n \in 1 .. n /\ W1 \in Nat
      BY <1>3, <1>4
    <2>n. start1[n] = W
      BY <2>1, <2>4, <2>5
    <2>o. \A k \in 1 .. n : k \in 1 .. Len(ms) \/ k = n
      BY <1>3
    <2> HIDE DEF ms1, hs1, start1
    <2>6. Layout(ms1, hs1, start1)
      <3>1. ASSUME NEW k \in 1 .. n
            PROVE  start1[k + 1] = start1[k] + FrameLen(ms1[k], hs1[k])
        <4>1. CASE k \in 1 .. Len(ms)
          <5>1. k + 1 \in 1 .. n
            BY <1>3, <4>1
          <5>2. start[k + 1] = start[k] + FrameLen(ms[k], hs[k])
            BY <1>1, <4>1 DEF Layout
          <5> QED BY <2>2, <2>3, <2>4, <3>1, <4>1, <5>1, <5>2
        <4>2. CASE k = n
          BY <2>2, <2>3, <2>4, <2>n, <4>2 DEF l
        <4> QED BY <2>o, <4>1, <4>2
      <3>2. ASSUME NEW j \in 1 .. n + 1, NEW k \in 1 .. n + 1, j <= k
            PROVE  start1[j] <= start1[k]
        <4>1. ASSUME NEW i \in 1 .. n PROVE start[i] \in Nat /\ start[i] <= W
          <5>1. start[i] \in Nat
            BY <1>1, <4>1 DEF Layout
          <5>2. start[i] <= start[n]
            BY <1>1, <2>5, <4>1 DEF Layout
          <5> QED BY <2>1, <5>1, <5>2
        <4>2. CASE k \in 1 .. n
          <5>1. j \in 1 .. n
            BY <2>5, <3>2, <4>2
          <5>2. start[j] <= start[k]
            BY <1>1, <3>2, <4>2, <5>1 DEF Layout
          <5> QED BY <2>4, <4>2, <5>1, <5>2
        <4>3. CASE k = n + 1 /\ j \in 1 .. n
          <5>1. start1[k] = W + l /\ start1[j] = start[j]
            BY <2>4, <4>3
          <5>2. start[j] \in Nat /\ start[j] <= W
            BY <4>1, <4>3
          <5>3. start[j] <= W + l
            BY <1>3, <1>4, <5>2
          <5> QED BY <5>1, <5>3
        <4>4. CASE k = n + 1 /\ j = n + 1
          BY <2>4, <2>5, <4>4
        <4> QED BY <2>5, <3>2, <4>2, <4>3, <4>4
      <3> QED BY <2>2, <2>3, <2>4, <3>1, <3>2 DEF Layout
    <2>7. Ahead(ms1, hs1, start1, R, W1)'
      <3>1. Ahead(ms, hs, start, R, W)'
        <4>1. W <= R + Len(Coming')
          BY <1>3, <1>4, <1>5, <1>6
        <4> QED BY <1>1, <1>3, <1>5, <1>6, <4>1, AheadKept, SMTT(30)
      <3>2. ASSUME NEW k \in 1 .. n, NEW i \in 1 .. FrameLen(ms1[k], hs1[k]),
                   R < start1[k] + i, start1[k] + i <= W1
            PROVE  Coming'[start1[k] + i - R] = Frame(ms1[k], hs1[k])[i]
        <4>1. CASE k \in 1 .. Len(ms)
          <5>1. ms1[k] = ms[k] /\ hs1[k] = hs[k] /\ start1[k] = start[k]
            BY <2>2, <2>3, <2>4, <3>2, <4>1
          <5>2. i \in 1 .. FrameLen(ms[k], hs[k]) /\ R < start[k] + i
            BY <3>2, <5>1
          <5>3. start[k] + i <= W
            <6> DEFINE a == start[k]
                       b == start[k + 1]
                       c == start[n]
                       len == FrameLen(ms[k], hs[k])
            <6>1. a \in Nat /\ b \in Nat /\ len \in Nat /\ b = a + len
              BY <1>1, <4>1, LayoutFacts
            <6>2. c \in Nat /\ b <= c /\ c = W
              <7>1. n \in k + 1 .. Len(ms) + 1
                BY <1>3, <4>1
              <7> QED BY <1>1, <2>1, <4>1, <7>1, LayoutFacts
            <6>3. i \in 1 .. len
              BY <5>2
            <6>4. a + i <= W
              <7> HIDE DEF a, b, c, len
              <7> QED BY <6>1, <6>2, <6>3
            <6> QED BY <6>4
          <5> QED BY <3>1, <4>1, <5>1, <5>2, <5>3 DEF Ahead
        <4>2. CASE k = n
          <5>1. i \in 1 .. l /\ Frame(ms1[k], hs1[k]) = Frame(m, header)
            BY <2>2, <2>3, <3>2, <4>2 DEF l
          <5>2. start1[k] + i - R = Len(pipe) + i
            <6> DEFINE a == start1[k]
                       c == Len(pipe)
            <6>1. a = R + c /\ c \in Nat /\ i \in Nat
              BY <1>4, <1>5, <2>1, <2>n, <4>2, <5>1
            <6>2. a + i - R = c + i
              <7> HIDE DEF a, c
              <7> QED BY <1>3, <6>1
            <6> QED BY <6>2
          <5>3. Coming'[Len(pipe) + i] = Frame(m, header)[i]
            BY <1>6, <5>1
          <5> QED BY <5>1, <5>2, <5>3
        <4> QED BY <2>o, <4>1, <4>2
      <3>3. R <= W1 /\ W1 <= R + Len(Coming')
        BY <1>3, <1>4, <1>5, <1>6, <2>1
      <3> QED BY <1>3, <2>2, <2>5, <3>2, <3>3 DEF Ahead
    <2>8. Written(ms1, hs1, start1, R, W1)'
      <3>1. /\ Len(sent) <= Len(ms1)
            /\ \A k \in 1 .. Len(sent) : sent[k] = ms1[k] /\ Good(hs1[k])
        BY <1>1, <1>3, <2>1, <2>2, <2>3 DEF Written
      <3>2. Len(ms1) = Len(sent) + 1 /\ start1[Len(ms1)] = W /\ W1 = start1[Len(ms1) + 1]
        BY <2>1, <2>2, <2>4, <2>n
      <3>3. CASE Good(header)
        <4>1. \A k \in 1 .. Len(ms1) : Good(hs1[k])
          BY <2>1, <2>2, <2>3, <2>o, <3>3
        <4>2. W1 = R + Len(Coming')
          BY <1>3, <1>4, <1>5, <1>6, <2>1
        <4>3. ~broken' /\ todo' # <<>> /\ sent' = sent /\ pipe' = pipe
          BY <1>2, <1>4, <1>8, <3>3
        <4>4. start1[Len(ms1)] <= R + Len(pipe)
          BY <1>3, <2>1, <3>2
        <4>5. Intact(ms1, hs1, start1, R, W1)'
          BY <3>2, <4>1, <4>2, <4>3, <4>4 DEF Intact
        <4> QED BY <3>1, <4>3, <4>5 DEF Written
      <3>4. CASE ~Good(header)
        <4>1. broken' /\ sent' = sent /\ pipe' = pipe /\ ~Good(hs1[Len(ms1)])
          BY <1>2, <2>2, <2>3, <3>4
        <4>2. start1[Len(ms1)] <= R + Len(pipe)
          BY <1>3, <2>1, <3>2
        <4>3. Spoiled(ms1, hs1, start1, R, W1)'
          BY <3>2, <4>1, <4>2 DEF Spoiled
        <4> QED BY <3>1, <4>1, <4>3 DEF Written
      <3> QED BY <3>3, <3>4
    <2>9. Place(ms1, hs1, start1, R)'
      <3>1. Len(got) + 1 \in 1 .. n /\ start1[Len(got) + 1] = start[Len(got) + 1]
        BY <1>3, <2>1, <2>4
      <3>2. ASSUME Len(got) + 1 <= Len(ms)
            PROVE  /\ Len(got) + 1 <= Len(ms1)
                   /\ ms1[Len(got) + 1] = ms[Len(got) + 1]
                   /\ hs1[Len(got) + 1] = hs[Len(got) + 1]
        BY <1>3, <2>2, <2>3, <3>2
      <3>3. Place(ms1, hs1, start1, R)
        <4>1. CASE Fresh /\ R = start[Len(got) + 1]
          BY <3>1, <4>1 DEF Place
        <4>2. CASE ~(Fresh /\ R = start[Len(got) + 1])
          BY <1>1, <3>1, <3>2, <4>2 DEF Place
        <4> QED BY <4>1, <4>2
      <3> QED BY <1>2, <3>3 DEF Place, Fresh, InHeader, InBody, LastLength
    <2> QED BY <2>6, <2>7, <2>8, <2>9 DEF Following, Layout
  <1> QED BY <1>7, <1>8

\* What the writer pushes leaves Coming as it is; the last byte of a good frame
\* is that of the next message.
LEMMA PushStep ==
  ASSUME TypeOK, UnitTypes, WriterType, Prefix, Following, Push
  PROVE  Following'
  <1>1. PICK ms, hs, start, R, W :
            /\ Layout(ms, hs, start) /\ Ahead(ms, hs, start, R, W)
            /\ Written(ms, hs, start, R, W) /\ Place(ms, hs, start, R)
    BY DEF Following
  <1>2. /\ todo # <<>> /\ pipe' = Append(pipe, Head(todo)) /\ todo' = Tail(todo)
        /\ sent' = IF Len(todo) = 1 /\ ~broken
                   THEN Append(sent, Head(todo).of) ELSE sent
        /\ UNCHANGED <<closed, broken>>
        /\ UNCHANGED <<in_header, content_len, buf, got, verdict>>
    BY DEF Push, reader
  <1>3. /\ R \in Nat /\ W \in Nat /\ R <= W /\ W <= R + Len(Coming)
        /\ Len(ms) \in Nat /\ Len(sent) \in Nat
    BY <1>1 DEF Ahead, Layout, TypeOK
  <1>4. /\ pipe \in Seq(Units) /\ todo \in Seq(Units) /\ Head(todo) \in Units
        /\ Len(pipe) \in Nat /\ Len(todo) \in Nat \ {0} /\ Len(pipe') = Len(pipe) + 1
        /\ todo' \in Seq(Units) /\ Len(todo') = Len(todo) - 1
    <2>1. pipe \in Seq(Units) /\ todo \in Seq(Units)
      BY DEF UnitTypes
    <2>2. /\ Len(todo) \in Nat \ {0} /\ Head(todo) \in Units
          /\ Tail(todo) \in Seq(Units) /\ Len(Tail(todo)) = Len(todo) - 1
      BY <1>2, <2>1, TailElements
    <2> QED BY <1>2, <2>1, <2>2, AppendElements
  <1>5. Coming' = Coming
    BY <1>2, <1>4, MoveElement DEF Coming
  <1>6. Ahead(ms, hs, start, R, W)'
    BY <1>1, <1>5 DEF Ahead
  <1>7. Place(ms, hs, start, R)'
    BY <1>1, <1>2 DEF Place, Fresh, InHeader, InBody, LastLength
  <1>8. ~closed
    BY <1>2 DEF WriterType
  <1>9. CASE broken
    <2>1. Spoiled(ms, hs, start, R, W)
      BY <1>1, <1>8, <1>9 DEF Written, Intact, Cut
    <2>2. sent' = sent /\ broken'
      BY <1>2, <1>9
    <2>3. start[Len(ms)] <= R + Len(pipe')
      <3> DEFINE a == start[Len(ms)]
                 c == Len(pipe)
                 d == Len(pipe')
      <3>1. a <= R + c /\ c \in Nat /\ d = c + 1 /\ a \in Nat
        <4>1. Len(ms) \in 1 .. Len(ms)
          BY <1>3, <2>1 DEF Spoiled
        <4> QED BY <1>1, <1>4, <2>1, <4>1, LayoutFacts DEF Spoiled
      <3>2. a <= R + d
        <4> HIDE DEF a, c, d
        <4> QED BY <1>3, <3>1
      <3> QED BY <3>2
    <2>4. Spoiled(ms, hs, start, R, W)'
      BY <2>1, <2>2, <2>3 DEF Spoiled
    <2>5. Written(ms, hs, start, R, W)'
      BY <1>1, <2>2, <2>4 DEF Written
    <2> QED BY <1>1, <1>6, <1>7, <1>9, <2>5 DEF Following, Layout
  <1>10. CASE ~broken
    <2> DEFINE n == Len(ms)
    <2>1. /\ n = Len(sent) + 1 /\ start[n] <= R + Len(pipe)
          /\ W = start[n + 1] /\ W = R + Len(Coming)
          /\ \A k \in 1 .. n : Good(hs[k])
      BY <1>1, <1>2, <1>10 DEF Written, Intact, Spoiled, Cut
    <2>2. n \in 1 .. n /\ n \in Nat
      BY <1>3, <2>1
    <2>3. start[n] <= R + Len(pipe')
      <3> DEFINE a == start[n]
                 c == Len(pipe)
                 d == Len(pipe')
      <3>1. a <= R + c /\ c \in Nat /\ d = c + 1 /\ a \in Nat
        BY <1>1, <1>4, <2>1, <2>2, LayoutFacts
      <3>2. a <= R + d
        <4> HIDE DEF a, c, d
        <4> QED BY <1>3, <3>1
      <3> QED BY <3>2
    <2>4. CASE Len(todo) # 1
      <3>1. sent' = sent /\ todo' # <<>>
        BY <1>2, <1>4, <2>4
      <3>2. Intact(ms, hs, start, R, W)'
        BY <1>2, <1>5, <1>10, <2>1, <2>3, <3>1 DEF Intact
      <3> QED BY <1>1, <1>6, <1>7, <2>4, <3>1, <3>2 DEF Following, Layout, Written
    <2>5. CASE Len(todo) = 1
      <3>1. Head(todo) = Byte(ms[n], Size[ms[n]])
        <4> DEFINE l == FrameLen(ms[n], hs[n])
        <4>1. /\ l \in Nat /\ l = Len(hs[n]) + 1 + Size[ms[n]]
              /\ Size[ms[n]] \in Nat \ {0} /\ Len(hs[n]) \in Nat
              /\ ms[n] \in Messages /\ hs[n] \in Headers
          BY <1>1, <2>2, LayoutFacts
        <4>2. l \in 1 .. l
          BY <4>1
        <4>3. Frame(ms[n], hs[n])[l] = Byte(ms[n], Size[ms[n]])
          <5>1. Size[ms[n]] \in 1 .. Size[ms[n]]
            BY <4>1
          <5>2. Frame(ms[n], hs[n])[Len(hs[n]) + 1 + Size[ms[n]]] = Byte(ms[n], Size[ms[n]])
            BY <4>1, <5>1, FrameUnits
          <5> QED BY <4>1, <5>2
        <4>4. Len(Coming) \in Nat \ {0} /\ Coming[Len(Coming)] = Head(todo)
          <5>1. /\ Len(Coming) = Len(pipe) + Len(todo)
                /\ \A k \in 1 .. Len(todo) : Coming[Len(pipe) + k] = todo[k]
            BY <1>4, ConcatElements DEF Coming
          <5>2. 1 \in 1 .. Len(todo) /\ Len(Coming) = Len(pipe) + 1
            BY <2>5, <5>1
          <5>3. Coming[Len(Coming)] = todo[1]
            BY <5>1, <5>2
          <5>4. Head(todo) = todo[1]
            BY <1>2, <1>4, TailElements
          <5> QED BY <1>4, <5>2, <5>3, <5>4
        <4>5. /\ start[n] + l - R = Len(Coming) /\ R < start[n] + l
              /\ start[n] + l <= W
          <5> DEFINE a == start[n]
                     c == Len(Coming)
          <5>1. /\ a \in Nat /\ a + l = W /\ W = R + c /\ c \in Nat \ {0}
            <6>1. c \in Nat \ {0}
              BY <4>4
            <6>2. a \in Nat /\ a + l = W
              <7>1. a \in Nat /\ start[n + 1] = a + l
                BY <1>1, <2>2, LayoutFacts
              <7>2. W = start[n + 1]
                BY <2>1
              <7> HIDE DEF a, l
              <7> QED BY <7>1, <7>2
            <6> QED BY <2>1, <6>1, <6>2
          <5>2. a + l - R = c /\ R < a + l /\ a + l <= W
            <6> HIDE DEF a, c, l
            <6> QED BY <1>3, <4>1, <5>1, SMTT(30)
          <5> QED BY <5>2
        <4>6. Coming[start[n] + l - R] = Frame(ms[n], hs[n])[l]
          BY <1>1, <2>2, <4>2, <4>5 DEF Ahead
        <4> QED BY <4>3, <4>4, <4>5, <4>6
      <3>2. ms[n] \in Messages /\ Head(todo).of = ms[n]
        BY <1>1, <2>2, <3>1, LayoutFacts DEF Byte
      <3>3. /\ sent' = Append(sent, ms[n]) /\ todo' = <<>>
        <4>1. todo' = <<>>
          BY <1>4, <2>5, EmptySeq
        <4> QED BY <1>2, <1>10, <2>5, <3>2, <4>1
      <3>4. /\ Len(sent') = n /\ sent'[n] = ms[n]
            /\ \A k \in 1 .. Len(sent) : sent'[k] = sent[k]
        BY <2>1, <3>2, <3>3, AppendElements DEF TypeOK
      <3>5. \A k \in 1 .. n : sent'[k] = ms[k] /\ Good(hs[k])
        <4>1. \A k \in 1 .. n : k \in 1 .. Len(sent) \/ k = n
          BY <1>3, <2>1
        <4>2. \A k \in 1 .. Len(sent) : sent[k] = ms[k]
          BY <1>1 DEF Written
        <4> QED BY <2>1, <3>4, <4>1, <4>2
      <3>6. Intact(ms, hs, start, R, W)'
        BY <1>2, <1>5, <1>10, <2>1, <3>3, <3>4 DEF Intact
      <3>7. Written(ms, hs, start, R, W)'
        BY <2>2, <3>4, <3>5, <3>6 DEF Written
      <3> QED BY <1>1, <1>6, <1>7, <3>7 DEF Following, Layout
    <2> QED BY <2>4, <2>5
  <1> QED BY <1>9, <1>10

\* The writer goes.  The known stream ends where it stopped, unless a bad frame
\* had already been pushed to its end.
LEMMA CloseStep ==
  ASSUME TypeOK, UnitTypes, Prefix, Following, Close
  PROVE  Following'
  <1>1. PICK ms, hs, start, R, W :
            /\ Layout(ms, hs, start) /\ Ahead(ms, hs, start, R, W)
            /\ Written(ms, hs, start, R, W) /\ Place(ms, hs, start, R)
    BY DEF Following
  <1>2. /\ ~closed /\ closed' = TRUE /\ broken' = (broken \/ todo # <<>>) /\ todo' = <<>>
        /\ \/ pipe' = pipe
           \/ todo # <<>> /\ IsLine(Head(todo)) /\ pipe' = Append(pipe, Half)
        /\ UNCHANGED <<sent, in_header, content_len, buf, got, verdict>>
    BY DEF Close, reader
  <1>3. /\ R \in Nat /\ W \in Nat /\ R <= W /\ W <= R + Len(Coming)
        /\ Len(ms) \in Nat /\ Len(sent) \in Nat
    BY <1>1 DEF Ahead, Layout, TypeOK
  <1>4. /\ pipe \in Seq(Units) /\ todo \in Seq(Units)
        /\ Len(pipe) \in Nat /\ Len(todo) \in Nat /\ Half \in Units
    BY DEF UnitTypes, Half, Line, Units
  <1>5. Len(Coming) = Len(pipe) + Len(todo)
    BY <1>4 DEF Coming
  <1>6. \A j \in 1 .. Len(pipe) : Coming[j] = pipe[j]
    BY <1>4 DEF Coming
  <1>7. Coming' = pipe'
    BY <1>2, <1>4, AppendElements DEF Coming
  <1>8. Place(ms, hs, start, R)'
    BY <1>1, <1>2 DEF Place, Fresh, InHeader, InBody, LastLength
  <1> DEFINE n == Len(ms)
  <1>v. PICK V : V = R + Len(pipe)
    OBVIOUS
  <1>9. V \in Nat /\ R <= V /\ V <= R + Len(Coming)
    BY <1>v, <1>3, <1>4, <1>5
  <1>10. Len(pipe) <= Len(pipe') /\ \A j \in 1 .. Len(pipe) : pipe'[j] = pipe[j]
    BY <1>2, <1>4, AppendElements
  <1>11. ASSUME NEW U \in Nat, R <= U, U <= W, U <= V
         PROVE  Ahead(ms, hs, start, R, U)'
    <2>1. ASSUME NEW j \in 1 .. Len(Coming), R + j <= U
          PROVE  Coming'[j] = Coming[j]
      <3>1. j \in 1 .. Len(pipe)
        BY <1>v, <1>3, <1>4, <1>5, <1>11, <2>1
      <3> QED BY <1>6, <1>7, <1>10, <3>1
    <2>2. U <= R + Len(Coming) /\ U <= R + Len(Coming')
      <3>1. Len(pipe') \in Nat /\ Len(pipe) <= Len(pipe')
        BY <1>2, <1>4, <1>10, AppendElements
      <3> QED BY <1>v, <1>3, <1>4, <1>5, <1>7, <1>11, <3>1
    <2> QED BY <1>1, <1>11, <2>1, <2>2, AheadKept
  <1>12. CASE ~broken /\ todo = <<>>
    <2>1. pipe' = pipe /\ todo' = todo /\ broken' = broken /\ sent' = sent
      <3>1. broken \in BOOLEAN
        BY DEF TypeOK
      <3> QED BY <1>2, <1>12, <3>1
    <2>2. Len(todo) = 0 /\ W = V
      <3>1. W = R + Len(Coming)
        BY <1>1, <1>12 DEF Written, Intact, Spoiled, Cut
      <3>2. Len(todo) = 0
        BY <1>12
      <3> QED BY <1>v, <1>3, <1>4, <1>5, <3>1, <3>2
    <2>3. Ahead(ms, hs, start, R, W)'
      BY <1>3, <1>11, <2>2
    <2>4. Intact(ms, hs, start, R, W)'
      BY <1>1, <1>12, <2>1 DEF Written, Intact, Spoiled, Cut, Coming
    <2> QED BY <1>1, <1>8, <2>1, <2>3, <2>4 DEF Following, Layout, Written
  <1>13. CASE broken /\ W <= V
    <2>1. Spoiled(ms, hs, start, R, W)
      BY <1>1, <1>2, <1>13 DEF Written, Intact, Cut
    <2>2. Len(ms) \in 1 .. Len(ms)
      BY <1>3, <2>1 DEF Spoiled
    <2>3. start[n] \in Nat /\ start[n] <= R + Len(pipe)
      BY <1>1, <2>1, <2>2, LayoutFacts DEF Spoiled
    <2>4. start[n] <= R + Len(pipe')
      <3> DEFINE a == start[n]
                 c == Len(pipe)
                 d == Len(pipe')
      <3>1. a \in Nat /\ a <= R + c /\ c \in Nat /\ d \in Nat /\ c <= d
        BY <1>2, <1>4, <1>10, <2>3, AppendElements
      <3>2. a <= R + d
        <4> HIDE DEF a, c, d
        <4> QED BY <1>3, <3>1
      <3> QED BY <3>2
    <2>5. Spoiled(ms, hs, start, R, W)'
      BY <1>2, <1>13, <2>1, <2>4 DEF Spoiled
    <2>6. Ahead(ms, hs, start, R, W)'
      BY <1>3, <1>11, <1>13
    <2> QED BY <1>1, <1>2, <1>8, <2>5, <2>6 DEF Following, Layout, Written
  <1>14. CASE V < W /\ (broken \/ todo # <<>>)
    <2>1. /\ Len(ms) = Len(sent) + 1 /\ start[n] <= V /\ W = start[n + 1]
      BY <1>v, <1>1, <1>2, <1>14 DEF Written, Intact, Spoiled, Cut
    <2>2. n \in 1 .. n /\ n \in Nat
      BY <1>3, <2>1
    <2>3. V <= W /\ V < start[n + 1]
      BY <1>3, <1>9, <1>14, <2>1
    <2>4. Ahead(ms, hs, start, R, V)'
      <3>1. V <= V
        BY <1>9
      <3> QED BY <1>9, <1>11, <2>3, <3>1
    <2>b. broken' /\ closed' /\ sent' = sent
      BY <1>2, <1>14
    <2>5. ASSUME todo # <<>>, IsLine(Head(todo)) PROVE V <= start[n] + Len(hs[n])
      <3> DEFINE m == ms[n]
                 header == hs[n]
                 a == start[n]
                 c == Len(header)
                 d == Len(pipe)
                 i == V - a - c
      <3>1. /\ m \in Messages /\ header \in Headers
            /\ a \in Nat /\ c \in Nat /\ Size[m] \in Nat \ {0}
            /\ FrameLen(m, header) = c + 1 + Size[m]
            /\ start[n + 1] = a + FrameLen(m, header)
        BY <1>1, <2>2, LayoutFacts
      <3>2. SUFFICES ASSUME V > a + c PROVE FALSE
        BY <1>9, <3>1
      <3>3. /\ i \in 1 .. Size[m] /\ c + 1 + i \in 1 .. FrameLen(m, header)
            /\ R < a + (c + 1 + i) /\ a + (c + 1 + i) <= W
            /\ a + (c + 1 + i) - R = d + 1
        <4> DEFINE bytes == Size[m]
                   l == FrameLen(m, header)
        <4>1. /\ a \in Nat /\ c \in Nat /\ d \in Nat /\ bytes \in Nat /\ R \in Nat
              /\ l = c + 1 + bytes
          BY <1>3, <1>4, <3>1
        <4>2. V = R + d /\ V > a + c /\ V < a + l
          BY <1>v, <2>3, <3>1, <3>2
        <4>3. W = a + l
          BY <2>1, <3>1
        <4> HIDE DEF a, c, d, bytes, l, m, header
        <4>4. i \in 1 .. bytes
          BY <4>1, <4>2
        <4>5. c + 1 + i \in 1 .. l
          BY <4>1, <4>4
        <4>6. a + (c + 1 + i) = V + 1
          BY <4>1, <4>2
        <4>7. R < V + 1 /\ V + 1 <= a + l /\ V + 1 - R = d + 1
          BY <4>1, <4>2
        <4>8. a + (c + 1 + i) - R = d + 1
          BY <4>1, <4>2
        <4> QED BY <4>3, <4>4, <4>5, <4>6, <4>7, <4>8 DEF l, bytes
      <3>4. Coming[d + 1] = Frame(m, header)[c + 1 + i]
        BY <1>1, <2>2, <3>3 DEF Ahead
      <3>5. Frame(m, header)[c + 1 + i] = Byte(m, i)
        BY <3>1, <3>3, FrameUnits
      <3>6. Coming[d + 1] = Head(todo)
        <4>1. Head(todo) = todo[1] /\ 1 \in 1 .. Len(todo)
          BY <1>4, <2>5, TailElements
        <4>2. Coming[d + 1] = todo[1]
          BY <1>4, <4>1, ConcatElements DEF Coming
        <4> QED BY <4>1, <4>2
      <3> QED BY <2>5, <3>4, <3>5, <3>6, LinesAndBytes
    <2>6. CASE pipe' = pipe
      <3>1. R + Len(Coming') = V
        BY <1>v, <1>7, <2>6
      <3>2. Cut(ms, hs, start, R, V)'
        <4> QED BY <2>b, <2>1, <2>3, <3>1 DEF Cut
      <3> QED BY <1>1, <1>2, <1>8, <2>4, <3>2 DEF Following, Layout, Written
    <2>7. CASE todo # <<>> /\ IsLine(Head(todo)) /\ pipe' = Append(pipe, Half)
      <3>1. Len(Coming') = Len(pipe) + 1 /\ Coming'[Len(pipe) + 1] = Half
        BY <1>4, <1>7, <2>7, AppendElements
      <3>2. R + Len(Coming') = V + 1 /\ Coming'[Len(Coming')] = Half
        <4>1. R + (Len(pipe) + 1) = V + 1
          BY <1>v, <1>3, <1>4
        <4> QED BY <3>1, <4>1
      <3>3. V <= start[n] + Len(hs[n])
        BY <2>5, <2>7
      <3>4. Cut(ms, hs, start, R, V)'
        <4> QED BY <2>b, <2>1, <2>3, <3>2, <3>3 DEF Cut
      <3> QED BY <1>1, <1>2, <1>8, <2>4, <3>4 DEF Following, Layout, Written
    <2> QED BY <1>2, <2>6, <2>7
  <1>15. ASSUME ~broken, todo # <<>> PROVE V < W
    <2>1. W = R + Len(Coming)
      BY <1>1, <1>2, <1>15 DEF Written, Intact, Spoiled, Cut
    <2>2. Len(todo) \in Nat \ {0}
      BY <1>4, <1>15, TailElements
    <2> QED BY <1>v, <1>3, <1>4, <1>5, <2>1, <2>2
  <1>16. W <= V \/ V < W
    BY <1>3, <1>9
  <1> QED BY <1>12, <1>13, <1>14, <1>15, <1>16

----------------------------------------------------------------------------
(***************************************************************************)
(* Types.                                                                  *)
(***************************************************************************)
Types == TypeOK /\ UnitTypes /\ WriterType

\* A frame ends with the last byte of its body.
LEMMA BeginTypes ==
  ASSUME Types, NEW m \in Messages, NEW header \in Headers, Begin(m, header)
  PROVE  Types'
  <1>1. /\ todo' = Frame(m, header) /\ ~closed /\ UNCHANGED <<pipe, closed, sent>>
        /\ UNCHANGED <<in_header, content_len, buf, got, verdict>>
        /\ frames < MaxFrames /\ frames' = frames + 1
        /\ broken' = (broken \/ ~Good(header))
    BY DEF Begin, reader
  <1>2. /\ Frame(m, header) \in Seq(Units)
        /\ Frame(m, header)[Len(Frame(m, header))] = Byte(m, Size[m])
    <2>1. /\ Frame(m, header) \in Seq(Units)
          /\ Len(Frame(m, header)) = Len(header) + 1 + Size[m]
          /\ Size[m] \in Nat \ {0}
      BY FrameUnits DEF FrameLen
    <2>2. Size[m] \in 1 .. Size[m]
      BY <2>1
    <2>3. Frame(m, header)[Len(header) + 1 + Size[m]] = Byte(m, Size[m])
      BY <2>2, FrameUnits
    <2> QED BY <2>1, <2>3
  <1>3. frames' \in 0 .. MaxFrames
    BY <1>1, FramingAssumption DEF Types, TypeOK
  <1>4. broken' \in BOOLEAN
    BY <1>1 DEF Types, TypeOK
  <1>5. TypeOK'
    BY <1>1, <1>3, <1>4 DEF Types, TypeOK
  <1>6. UnitTypes'
    BY <1>1, <1>2 DEF Types, UnitTypes
  <1>7. WriterType'
    BY <1>1, <1>2 DEF WriterType
  <1> QED BY <1>5, <1>6, <1>7 DEF Types

\* The rest of a frame ends as the frame does.
LEMMA PushTypes ==
  ASSUME Types, Push
  PROVE  Types'
  <1>1. /\ todo # <<>> /\ Len(pipe) < Capacity
        /\ pipe' = Append(pipe, Head(todo)) /\ todo' = Tail(todo)
        /\ sent' = IF Len(todo) = 1 /\ ~broken
                   THEN Append(sent, Head(todo).of) ELSE sent
        /\ UNCHANGED <<closed, broken, frames>>
        /\ UNCHANGED <<in_header, content_len, buf, got, verdict>>
    BY DEF Push, reader
  <1>2. /\ Len(todo) \in Nat \ {0} /\ Head(todo) \in Units /\ Head(todo) = todo[1]
        /\ Tail(todo) \in Seq(Units) /\ Len(Tail(todo)) = Len(todo) - 1
        /\ \A k \in 1 .. Len(todo) - 1 : Tail(todo)[k] = todo[k + 1]
    <2>1. todo \in Seq(Units)
      BY DEF Types, UnitTypes
    <2> QED BY <1>1, <2>1, TailElements
  <1>3. ~closed /\ \E m \in Messages : todo[Len(todo)] = Byte(m, Size[m])
    BY <1>1 DEF Types, WriterType
  <1>4. /\ pipe' \in Seq(Units) /\ Len(pipe') = Len(pipe) + 1 /\ Len(pipe) \in Nat
    BY <1>1, <1>2, AppendElements DEF Types, UnitTypes
  <1>5. sent' \in Seq(Messages)
    <2>1. CASE Len(todo) = 1 /\ ~broken
      <3>1. PICK m \in Messages : Head(todo) = Byte(m, Size[m])
        BY <1>2, <1>3, <2>1
      <3>2. Head(todo).of \in Messages
        BY <3>1 DEF Byte
      <3> QED BY <1>1, <2>1, <3>2, AppendElements DEF Types, TypeOK
    <2>2. CASE ~(Len(todo) = 1 /\ ~broken)
      BY <1>1, <2>2 DEF Types, TypeOK
    <2> QED BY <2>1, <2>2
  <1>6. Len(pipe') <= Capacity
    <2>1. Capacity \in Nat
      BY FramingAssumption
    <2> QED BY <1>1, <1>4, <2>1
  <1>7. TypeOK'
    BY <1>1, <1>5, <1>6 DEF Types, TypeOK
  <1>8. UnitTypes'
    BY <1>1, <1>2, <1>4 DEF Types, UnitTypes
  <1>9. WriterType'
    <2> SUFFICES ASSUME todo' # <<>>
                 PROVE  \E m \in Messages : todo'[Len(todo')] = Byte(m, Size[m])
      BY <1>1, <1>3 DEF WriterType
    <2>1. Len(todo') \in 1 .. Len(todo) - 1 /\ Len(todo') + 1 = Len(todo)
      <3>1. Len(todo') # 0
        BY <1>1, <1>2, EmptySeq
      <3>2. Len(todo') = Len(todo) - 1
        BY <1>1, <1>2
      <3> QED BY <1>2, <3>1, <3>2
    <2>2. todo'[Len(todo')] = todo[Len(todo)]
      BY <1>1, <1>2, <2>1
    <2> QED BY <1>3, <2>2
  <1> QED BY <1>7, <1>8, <1>9 DEF Types

\* Of the writer that is gone at most half a line is left.
LEMMA CloseTypes ==
  ASSUME Types, Close
  PROVE  Types'
  <1>1. /\ closed' = TRUE /\ broken' = (broken \/ todo # <<>>) /\ todo' = <<>>
        /\ \/ pipe' = pipe
           \/ Len(pipe) < Capacity /\ pipe' = Append(pipe, Half)
        /\ UNCHANGED <<frames, sent, in_header, content_len, buf, got, verdict>>
    BY DEF Close, reader
  <1>2. Half \in Units
    BY DEF Half, Line, Units
  <1>3. pipe' \in Seq(Units) /\ Len(pipe') <= Capacity
    <2>1. pipe \in Seq(Units) /\ Len(pipe) \in Nat /\ Capacity \in Nat /\ Len(pipe) <= Capacity
      BY FramingAssumption DEF Types, UnitTypes, TypeOK
    <2>2. CASE pipe' = pipe
      BY <2>1, <2>2
    <2>3. CASE Len(pipe) < Capacity /\ pipe' = Append(pipe, Half)
      <3>1. pipe' \in Seq(Units) /\ Len(pipe') = Len(pipe) + 1
        BY <1>2, <2>1, <2>3, AppendElements
      <3> QED BY <2>1, <2>3, <3>1
    <2> QED BY <1>1, <2>2, <2>3
  <1>4. broken' \in BOOLEAN
    BY <1>1 DEF Types, TypeOK
  <1>5. TypeOK'
    BY <1>1, <1>3, <1>4 DEF Types, TypeOK
  <1>6. UnitTypes'
    BY <1>1, <1>3 DEF Types, UnitTypes
  <1> QED BY <1>1, <1>5, <1>6 DEF Types, WriterType

\* What is read from the pipe is a unit and leaves it shorter.
LEMMA ReadTypes ==
  ASSUME Types, pipe # <<>>, pipe' = Tail(pipe)
  PROVE  pipe' \in Seq(Units) /\ Len(pipe') <= Capacity /\ Head(pipe) \in Units
  <1>1. pipe \in Seq(Units) /\ Len(pipe) <= Capacity /\ Capacity \in Nat
    BY FramingAssumption DEF Types, UnitTypes, TypeOK
  <1>2. /\ Len(pipe) \in Nat \ {0} /\ Head(pipe) \in Units
        /\ Tail(pipe) \in Seq(Units) /\ Len(Tail(pipe)) = Len(pipe) - 1
    BY <1>1, TailElements
  <1>3. Len(pipe') <= Capacity
    BY <1>1, <1>2
  <1> QED BY <1>2, <1>3

\* The length of a header is a number, and a body begins only after one.
LEMMA ReadLineTypes ==
  ASSUME Types, ReadLine
  PROVE  Types'
  <1>1. in_header /\ pipe # <<>> /\ pipe' = Tail(pipe) /\ UNCHANGED writer
    BY DEF ReadLine
  <1>2. UNCHANGED <<todo, closed, broken, frames, sent>>
    BY <1>1 DEF writer
  <1>3. pipe' \in Seq(Units) /\ Len(pipe') <= Capacity /\ Head(pipe) \in Units
    BY <1>1, ReadTypes
  <1>4. buf' = buf /\ got' = got /\ buf = <<>>
    BY <1>1 DEF ReadLine, Fail, reader, Types, TypeOK
  <1>5. /\ content_len' \in [given : BOOLEAN, n : Nat]
        /\ in_header' \in BOOLEAN /\ verdict' \in {"reading", "eof", "error"}
        /\ ~in_header' => content_len'.given
    <2>1. /\ content_len \in [given : BOOLEAN, n : Nat]
          /\ in_header \in BOOLEAN /\ verdict \in {"reading", "eof", "error"}
      BY DEF Types, TypeOK, UnitTypes
    <2>2. CASE /\ IsLine(Head(pipe))
               /\ content_len' = Length(Head(pipe).n)
               /\ UNCHANGED <<in_header, verdict>>
      <3>1. Head(pipe).n \in Nat
        BY <1>3, <2>2 DEF Units, IsLine
      <3> QED BY <1>1, <2>1, <2>2, <3>1 DEF Length
    <2>3. CASE UNCHANGED <<content_len, in_header, verdict>>
      BY <1>1, <2>1, <2>3
    <2>4. CASE content_len.given /\ in_header' = FALSE /\ UNCHANGED <<content_len, verdict>>
      BY <2>1, <2>4
    <2>5. CASE verdict' = "error" /\ UNCHANGED <<content_len, in_header>>
      BY <1>1, <2>1, <2>5
    <2> QED BY <2>2, <2>3, <2>4, <2>5 DEF ReadLine, Fail, reader
  <1>6. Len(buf') <= content_len'.n
    BY <1>4, <1>5
  <1>7. TypeOK'
    BY <1>2, <1>3, <1>4, <1>5, <1>6 DEF Types, TypeOK
  <1>8. UnitTypes'
    BY <1>2, <1>3, <1>4, <1>5 DEF Types, UnitTypes
  <1> QED BY <1>2, <1>7, <1>8 DEF Types, WriterType

\* A body is read up to its length.
LEMMA ReadBodyTypes ==
  ASSUME Types, ReadBody
  PROVE  Types'
  <1>1. /\ ~in_header /\ Len(buf) # content_len.n /\ pipe # <<>> /\ pipe' = Tail(pipe)
        /\ buf' = Append(buf, Head(pipe))
        /\ UNCHANGED <<todo, closed, broken, frames, sent>>
        /\ UNCHANGED <<in_header, content_len, got, verdict>>
    BY DEF ReadBody, Full, writer
  <1>2. pipe' \in Seq(Units) /\ Len(pipe') <= Capacity /\ Head(pipe) \in Units
    BY <1>1, ReadTypes
  <1>3. buf' \in Seq(Units) /\ Len(buf') = Len(buf) + 1 /\ Len(buf) \in Nat
    BY <1>1, <1>2, AppendElements DEF Types, UnitTypes
  <1>4. content_len.n \in Nat /\ Len(buf) <= content_len.n
    BY <1>1 DEF Types, TypeOK
  <1>5. Len(buf') <= content_len.n
    BY <1>1, <1>3, <1>4
  <1>6. TypeOK'
    BY <1>1, <1>2, <1>5 DEF Types, TypeOK
  <1>7. UnitTypes'
    BY <1>1, <1>2, <1>3 DEF Types, UnitTypes
  <1> QED BY <1>1, <1>6, <1>7 DEF Types, WriterType

\* What is decoded is a message.
LEMMA DecodeTypes ==
  ASSUME Types, Decode
  PROVE  Types'
  <1>1. UNCHANGED <<todo, closed, broken, frames, sent, pipe>> /\ ~in_header
    BY DEF Decode, writer
  <1>2. CASE \E m \in Messages : buf = Body(m)
    <2>1. /\ got' = Append(got, buf[1].of) /\ in_header' = TRUE
          /\ content_len' = NoLength /\ buf' = <<>> /\ verdict' = verdict
      BY <1>2 DEF Decode
    <2>2. buf[1].of \in Messages
      <3>1. PICK m \in Messages : buf = Body(m)
        BY <1>2
      <3>2. buf[1] = Byte(m, 1)
        <4>1. Size[m] \in Nat \ {0}
          BY FramingAssumption
        <4> QED BY <3>1, <4>1 DEF Body
      <3> QED BY <3>2 DEF Byte
    <2>3. got' \in Seq(Messages)
      BY <2>1, <2>2, AppendElements DEF Types, TypeOK
    <2>4. content_len' \in [given : BOOLEAN, n : Nat]
      BY <2>1 DEF NoLength
    <2>5. TypeOK'
      BY <1>1, <2>1, <2>3, <2>4 DEF Types, TypeOK
    <2>6. UnitTypes'
      BY <1>1, <2>1, <2>4 DEF Types, UnitTypes
    <2> QED BY <1>1, <2>5, <2>6 DEF Types, WriterType
  <1>3. CASE ~\E m \in Messages : buf = Body(m)
    <2>1. verdict' = "error" /\ UNCHANGED <<in_header, content_len, buf, got>>
      BY <1>3 DEF Decode, Fail
    <2> QED BY <1>1, <2>1 DEF Types, TypeOK, UnitTypes, WriterType
  <1> QED BY <1>2, <1>3

\* Every step keeps the types.
LEMMA TypesKept ==
  ASSUME Types, [Next]_vars
  PROVE  Types'
  <1>1. CASE Read
    <2>1. CASE ReadEnd
      <3>1. /\ verdict' \in {"eof", "error"} /\ UNCHANGED <<in_header, content_len, buf, got>>
            /\ UNCHANGED <<todo, closed, broken, frames, sent, pipe>>
        BY <2>1 DEF ReadEnd, Fail, writer
      <3> QED BY <3>1 DEF Types, TypeOK, UnitTypes, WriterType
    <2> QED BY <1>1, <2>1, ReadLineTypes, ReadBodyTypes, DecodeTypes DEF Read
  <1>2. CASE UNCHANGED vars
    BY <1>2 DEF vars, writer, reader, Types, TypeOK, UnitTypes, WriterType
  <1> QED BY <1>1, <1>2, BeginTypes, PushTypes, CloseTypes DEF Next

----------------------------------------------------------------------------
(***************************************************************************)
(* The invariant.                                                          *)
(***************************************************************************)
\* What a read does to the messages and to the verdict: it returns the next
\* message, or ends where all was returned, with an error only where the
\* stream is broken.
LEMMA ReadStep ==
  ASSUME IInv, Read
  PROVE  /\ verdict = "reading" /\ UNCHANGED <<closed, broken, sent>>
         /\ \/ verdict' = "reading" /\ got' = got /\ (Doomed \/ Following)'
            \/ /\ verdict' = "reading" /\ Len(got) < Len(sent)
               /\ got' = Append(got, sent[Len(got) + 1])
               /\ Following'
            \/ /\ verdict' = "error" /\ got' = got
               /\ broken /\ Len(got) = Len(sent)
            \/ /\ verdict' = "eof" /\ got' = got
               /\ closed /\ Len(got) = Len(sent)
  <1>1. verdict = "reading" /\ UNCHANGED <<closed, broken, sent>>
    BY DEF Read, ReadLine, ReadBody, Decode, ReadEnd, writer
  <1>2. TypeOK /\ UnitTypes /\ WriterType /\ Prefix /\ (Doomed \/ Following)
    BY <1>1 DEF IInv
  <1>3. CASE ReadLine
    <2>1. in_header /\ got' = got
      BY <1>3 DEF ReadLine, Fail, reader
    <2>2. Following
      BY <1>2, <2>1 DEF Doomed
    <2> QED BY <1>1, <1>2, <1>3, <2>1, <2>2, ReadLineStep
  <1>4. CASE ReadBody
    <2>1. got' = got /\ verdict' = verdict
      BY <1>4 DEF ReadBody
    <2> QED BY <1>1, <1>2, <1>4, <2>1, ReadBodyStep, DoomedRead
  <1>5. CASE Decode
    <2>1. CASE Following
      BY <1>1, <1>2, <1>5, <2>1, DecodeStep
    <2>2. CASE Doomed
      BY <1>1, <1>2, <1>5, <2>2, DoomedDecode
    <2> QED BY <1>2, <2>1, <2>2
  <1>6. CASE ReadEnd
    <2>1. /\ closed /\ pipe = <<>> /\ got' = got
          /\ \/ in_header /\ verdict' = "eof"
             \/ ~in_header /\ ~Full /\ verdict' = "error"
      BY <1>6 DEF ReadEnd, Fail
    <2>2. todo = <<>>
      BY <1>2, <2>1 DEF WriterType
    <2>3. CASE Following
      BY <1>1, <1>2, <2>1, <2>2, <2>3, EndReached
    <2>4. CASE Doomed
      BY <1>1, <2>1, <2>4 DEF Doomed
    <2> QED BY <1>2, <2>3, <2>4
  <1> QED BY <1>1, <1>3, <1>4, <1>5, <1>6 DEF Read

\* What the writer does leaves the reader where it is.
LEMMA WriteStep ==
  ASSUME IInv, (\E m \in Messages, header \in Headers : Begin(m, header)) \/ Push \/ Close
  PROVE  /\ UNCHANGED <<got, verdict>>
         /\ verdict = "reading" => (Doomed \/ Following)'
  <1>1. UNCHANGED <<in_header, content_len, buf, got, verdict>>
    BY DEF Begin, Push, Close, reader
  <1>2. CASE Following
    BY <1>1, <1>2, BeginStep, PushStep, CloseStep DEF IInv
  <1>3. CASE Doomed
    <2>1. broken /\ broken \in BOOLEAN
      BY <1>3 DEF Doomed, IInv, TypeOK
    <2>2. broken' /\ sent' = sent
      BY <2>1 DEF Begin, Push, Close
    <2> QED BY <1>1, <1>3, <2>2 DEF Doomed
  <1> QED BY <1>1, <1>2, <1>3 DEF IInv

\* What was returned stays what was written.
LEMMA PrefixKept ==
  ASSUME IInv, [Next]_vars
  PROVE  Prefix'
  <1>1. /\ got \in Seq(Messages) /\ sent \in Seq(Messages)
        /\ Len(got) \in Nat /\ Len(sent) \in Nat /\ Len(got) <= Len(sent)
        /\ \A k \in 1 .. Len(got) : got[k] = sent[k]
    BY DEF IInv, TypeOK, Prefix
  <1>2. CASE Read
    <2>1. CASE got' = got
      BY <1>1, <1>2, <2>1, ReadStep DEF Prefix
    <2>2. CASE Len(got) < Len(sent) /\ got' = Append(got, sent[Len(got) + 1])
      <3>1. sent' = sent /\ sent[Len(got) + 1] \in Messages
        BY <1>1, <1>2, <2>2, ReadStep
      <3>2. /\ Len(got') = Len(got) + 1 /\ got'[Len(got) + 1] = sent[Len(got) + 1]
            /\ \A k \in 1 .. Len(got) : got'[k] = got[k]
        BY <1>1, <2>2, <3>1, AppendElements
      <3>3. \A k \in 1 .. Len(got) + 1 : k \in 1 .. Len(got) \/ k = Len(got) + 1
        BY <1>1
      <3>4. \A k \in 1 .. Len(got') : got'[k] = sent'[k]
        BY <1>1, <3>1, <3>2, <3>3
      <3>5. Len(got') <= Len(sent')
        BY <1>1, <2>2, <3>1, <3>2
      <3> QED BY <3>4, <3>5 DEF Prefix
    <2> QED BY <1>2, <2>1, <2>2, ReadStep
  <1>3. CASE Push
    <2>1. got' = got
      BY <1>3 DEF Push, reader
    <2>2. CASE sent' = sent
      BY <1>1, <2>1, <2>2 DEF Prefix
    <2>3. CASE sent' = Append(sent, Head(todo).of)
      <3>1. sent' \in Seq(Messages)
        BY TypesKept DEF IInv, Types, TypeOK
      <3>2. Len(sent') = Len(sent) + 1 /\ \A k \in 1 .. Len(sent) : sent'[k] = sent[k]
        BY <1>1, <2>3
      <3> QED BY <1>1, <2>1, <3>2 DEF Prefix
    <2> QED BY <1>3, <2>2, <2>3 DEF Push
  <1>4. CASE Close \/ \E m \in Messages, header \in Headers : Begin(m, header)
    <2>1. got' = got /\ sent' = sent
      BY <1>4 DEF Close, Begin, reader
    <2> QED BY <1>1, <2>1 DEF Prefix
  <1>5. CASE UNCHANGED vars
    BY <1>1, <1>5 DEF Prefix, vars, writer, reader
  <1> QED BY <1>2, <1>3, <1>4, <1>5 DEF Next

\* Every step keeps the invariant.
LEMMA StepHolds ==
  ASSUME IInv, [Next]_vars
  PROVE  IInv'
  <1>1. Types'
    BY TypesKept DEF IInv, Types
  <1>2. Prefix'
    BY PrefixKept
  <1>3. verdict' = "reading" => (Doomed \/ Following)'
    <2>1. CASE Read
      BY <2>1, ReadStep
    <2>2. CASE UNCHANGED vars
      <3>1. /\ UNCHANGED <<todo, closed, broken, frames, sent, pipe>>
            /\ UNCHANGED <<in_header, content_len, buf, got, verdict>>
        BY <2>2 DEF vars, writer, reader
      <3>2. Doomed => Doomed'
        BY <3>1 DEF Doomed
      <3>3. Following => Following'
        <4>1. ASSUME NEW ms, NEW hs, NEW start, NEW R, NEW W
              PROVE  /\ Layout(ms, hs, start)' = Layout(ms, hs, start)
                     /\ Ahead(ms, hs, start, R, W)' = Ahead(ms, hs, start, R, W)
                     /\ Written(ms, hs, start, R, W)' = Written(ms, hs, start, R, W)
                     /\ Place(ms, hs, start, R)' = Place(ms, hs, start, R)
          BY <3>1 DEF Layout, Ahead, Written, Intact, Spoiled, Cut, Coming,
                      Place, Fresh, InHeader, InBody, LastLength
        <4> QED BY <4>1 DEF Following
      <3> QED BY <3>1, <3>2, <3>3 DEF IInv
    <2>3. CASE (\E m \in Messages, header \in Headers : Begin(m, header)) \/ Push \/ Close
      <3>1. UNCHANGED <<got, verdict>> /\ (verdict = "reading" => (Doomed \/ Following)')
        BY <2>3, WriteStep
      <3> QED BY <3>1
    <2> QED BY <2>1, <2>2, <2>3 DEF Next
  <1> QED BY <1>1, <1>2, <1>3 DEF IInv, Types

\* At first nothing is written and the reader waits for the first frame.
LEMMA InitHolds == Init => IInv
  <1> SUFFICES ASSUME Init PROVE IInv
    OBVIOUS
  <1>1. TypeOK
    <2>1. Len(pipe) = 0 /\ Len(pipe) <= Capacity
      BY FramingAssumption DEF Init
    <2>2. frames \in 0 .. MaxFrames
      BY FramingAssumption DEF Init
    <2>3. content_len \in [given : BOOLEAN, n : Nat]
      BY DEF Init, NoLength
    <2>4. sent \in Seq(Messages) /\ got \in Seq(Messages)
      BY DEF Init
    <2>5. closed \in BOOLEAN /\ broken \in BOOLEAN /\ in_header \in BOOLEAN
      BY DEF Init
    <2>6. content_len.given \in BOOLEAN /\ content_len.n \in Nat
      BY <2>3
    <2>7. (in_header => buf = <<>>) /\ in_header /\ verdict = "reading"
      BY DEF Init
    <2> QED BY <2>1, <2>2, <2>4, <2>5, <2>6, <2>7 DEF TypeOK
  <1>2. UnitTypes /\ WriterType /\ Prefix
    BY DEF Init, UnitTypes, WriterType, Prefix, NoLength
  <1>3. Following
    <2> DEFINE start == <<0>>
    <2>1. Layout(<<>>, <<>>, start)
      BY DEF Layout
    <2>2. Len(Coming) = 0
      BY DEF Init, Coming
    <2>3. Ahead(<<>>, <<>>, start, 0, 0)
      BY <2>2 DEF Ahead
    <2>4. Written(<<>>, <<>>, start, 0, 0)
      BY <2>2 DEF Init, Written, Intact
    <2>5. Place(<<>>, <<>>, start, 0)
      BY DEF Init, Place, Fresh
    <2> HIDE DEF start
    <2> QED BY <2>1, <2>3, <2>4, <2>5 DEF Following
  <1> QED BY <1>1, <1>2, <1>3 DEF IInv

\* Wherever the writer and the reader are suspended, however the header of a
\* frame is filled and wherever the writer stops, the unread part of the stream
\* is the rest of the frames that were begun, and Message::read stands where
\* its state says, in the first of them that it has not returned.
THEOREM Invariant == Spec => []IInv
  <1>1. IInv /\ [Next]_vars => IInv'
    BY StepHolds
  <1> QED BY InitHolds, <1>1, PTL DEF Spec

\* The pipe keeps its capacity, a body is read only after a length and never
\* beyond it, and only messages are read and written.
THEOREM TypeCorrect == Spec => []TypeOK
  <1>1. IInv => TypeOK
    BY DEF IInv
  <1> QED BY Invariant, <1>1, PTL

\* Every step of the framing is one of the channel, or none.
LEMMA ChannelStep ==
  ASSUME IInv, [Next]_vars
  PROVE  [Whole!Next]_Whole!vars
  <1>1. broken \in BOOLEAN /\ closed \in BOOLEAN
    BY DEF IInv, TypeOK
  <1>2. CASE \E m \in Messages, header \in Headers : Begin(m, header)
    <2>1. /\ ~closed /\ closed' = closed /\ UNCHANGED <<sent, got, verdict>>
          /\ broken => broken'
      BY <1>2 DEF Begin, reader
    <2>2. CASE broken \/ ~broken'
      BY <1>1, <2>1, <2>2 DEF Whole!vars, Stream
    <2>3. CASE ~broken /\ broken'
      BY <1>1, <2>1, <2>3 DEF Whole!Next, Whole!Close, Stream
    <2> QED BY <2>2, <2>3
  <1>3. CASE Push
    <2>1. UNCHANGED <<closed, broken, got, verdict>> /\ todo # <<>>
      BY <1>3 DEF Push, reader
    <2>2. CASE Len(todo) = 1 /\ ~broken
      <3>1. PICK m \in Messages : todo[Len(todo)] = Byte(m, Size[m])
        BY <2>1 DEF IInv, WriterType
      <3>2. Head(todo) = todo[1]
        BY <2>1, TailElements DEF IInv, UnitTypes
      <3>3. sent' = Append(sent, m)
        BY <1>3, <2>2, <3>1, <3>2 DEF Push, Byte
      <3>4. Stream = "open" /\ Stream' = Stream
        BY <2>1, <2>2 DEF Stream, IInv, WriterType
      <3>5. Whole!Put(m)
        BY <2>1, <3>3, <3>4 DEF Whole!Put
      <3> QED BY <3>5 DEF Whole!Next
    <2>3. CASE ~(Len(todo) = 1 /\ ~broken)
      <3>1. sent' = sent
        BY <1>3, <2>3 DEF Push
      <3> QED BY <2>1, <3>1 DEF Whole!vars, Stream
    <2> QED BY <2>2, <2>3
  <1>4. CASE Close
    <2>1. /\ ~closed /\ closed' = TRUE /\ UNCHANGED <<sent, got, verdict>>
          /\ broken => broken'
      BY <1>4 DEF Close, reader
    <2>2. CASE broken
      <3>1. Stream = "broken" /\ Stream' = "broken"
        BY <2>1, <2>2 DEF Stream
      <3> QED BY <2>1, <3>1 DEF Whole!vars
    <2>3. CASE ~broken
      <3>1. Stream = "open" /\ Stream' \in {"closed", "broken"}
        BY <2>1, <2>3 DEF Stream
      <3> QED BY <2>1, <3>1 DEF Whole!Next, Whole!Close
    <2> QED BY <2>2, <2>3
  <1>5. CASE Read
    <2>1. verdict = "reading" /\ UNCHANGED <<closed, broken, sent>>
      BY <1>5, ReadStep
    <2>2. Stream' = Stream
      BY <2>1 DEF Stream
    <2>3. CASE verdict' = "reading" /\ got' = got
      BY <2>1, <2>2, <2>3 DEF Whole!vars
    <2>4. CASE /\ verdict' = "reading" /\ Len(got) < Len(sent)
               /\ got' = Append(got, sent[Len(got) + 1])
      <3>1. Whole!Take
        BY <2>1, <2>2, <2>4 DEF Whole!Take
      <3> QED BY <3>1 DEF Whole!Next
    <2>5. CASE /\ got' = got /\ Len(got) = Len(sent)
               /\ \/ verdict' = "error" /\ broken
                  \/ verdict' = "eof" /\ closed
      <3>1. got = sent
        <4>1. /\ got \in Seq(Messages) /\ sent \in Seq(Messages)
              /\ \A k \in 1 .. Len(got) : got[k] = sent[k]
          BY DEF IInv, TypeOK, Prefix
        <4> QED BY <2>5, <4>1, SeqEqual
      <3>2. \/ Stream = "closed" /\ verdict' = "eof"
            \/ Stream = "broken" /\ verdict' \in {"eof", "error"}
        BY <2>5 DEF Stream
      <3>3. Whole!End
        BY <2>1, <2>2, <2>5, <3>1, <3>2 DEF Whole!End
      <3> QED BY <3>3 DEF Whole!Next
    <2>6. \/ verdict' = "reading" /\ got' = got
          \/ /\ verdict' = "reading" /\ Len(got) < Len(sent)
             /\ got' = Append(got, sent[Len(got) + 1])
          \/ verdict' = "error" /\ got' = got /\ broken /\ Len(got) = Len(sent)
          \/ verdict' = "eof" /\ got' = got /\ closed /\ Len(got) = Len(sent)
      BY <1>5, ReadStep, Zenon
    <2> QED BY <2>3, <2>4, <2>5, <2>6, Zenon
  <1>6. CASE UNCHANGED vars
    BY <1>6 DEF vars, writer, reader, Whole!vars, Stream
  <1> QED BY <1>2, <1>3, <1>4, <1>5, <1>6 DEF Next

\* However frames are cut into reads and writes and however the peer breaks off
\* or spoils one, Message::read yields the messages that were written whole
\* before that, each once and in order, ends where all of them are read, and
\* gives an error only on a broken stream.
THEOREM ChannelIsImplemented == Spec => ChannelSpec
  <1>1. Init => Whole!Init
    BY DEF Init, Whole!Init, Stream
  <1>2. IInv /\ [Next]_vars => [Whole!Next]_Whole!vars
    BY ChannelStep
  <1> QED BY <1>1, <1>2, Invariant, PTL DEF Spec, ChannelSpec, Whole!Spec
=============================================================================
