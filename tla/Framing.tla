------------------------------ MODULE Framing ------------------------------
(***************************************************************************)
(* One direction of a stream at the level of its bytes: Message::write on  *)
(* one side, or a foreign peer that frames in its own way, a pipe of       *)
(* bounded capacity, and Message::read on the other (lib.rs).  The pipe    *)
(* carries header lines and single bytes of bodies; either side may be     *)
(* suspended between any two of these.  The writer may stop anywhere, in   *)
(* the middle of a line too.                                               *)
(*                                                                         *)
(* A body is JSON and so parses exactly when it is the whole text of one   *)
(* message and nothing more.                                               *)
(***************************************************************************)
EXTENDS Naturals, Sequences

CONSTANTS
    Messages,
    Size,        \* the bytes of each message's body
    Headers,     \* how the peer fills the header of a frame
    Capacity,    \* of the pipe
    MaxFrames    \* frames the peer writes

\* Header fields: a Content-Length that is right, too small or too large for
\* the body, or no number; any other field; a line that is no field.
Fields == {"exact", "short", "long", "nan", "other", "bad"}

ASSUME FramingAssumption ==
    /\ Size \in [Messages -> Nat \ {0}]
    /\ Headers \subseteq Seq(Fields)
    /\ Capacity \in Nat \ {0} /\ MaxFrames \in Nat

VARIABLES
    todo,          \* what is left to write of the current frame
    pipe,
    closed,        \* whether the writer is gone
    broken,        \* history: it wrote a bad frame, or stopped inside one
    frames,        \* frames begun
    sent,          \* history: messages written, up to the first bad frame
    in_header,     \* whether Message::read is at the header, not the body
    content_len,
    buf,
    got,           \* messages read
    verdict        \* "reading", or the error that ended the reader

writer == <<todo, closed, broken, frames, sent>>
reader == <<in_header, content_len, buf, got, verdict>>
vars == <<writer, pipe, reader>>

NoLength == [given |-> FALSE, n |-> 0]
Length(n) == [given |-> TRUE, n |-> n]

Line(kind, n) == [kind |-> kind, n |-> n]
Byte(m, i) == [of |-> m, at |-> i]
Blank == Line("blank", 0)
Half == Line("bad", 0)    \* has no CRLF

IsLine(unit) == DOMAIN unit = {"kind", "n"}

FieldLine(field, m) ==
    CASE field = "exact" -> Line("length", Size[m])
      [] field = "short" -> Line("length", Size[m] - 1)
      [] field = "long" -> Line("length", Size[m] + 1)
      [] OTHER -> Line(field, 0)

Body(m) == [i \in 1 .. Size[m] |-> Byte(m, i)]

\* Message::write has the header <<"exact">>.
Frame(m, header) ==
    [i \in 1 .. Len(header) |-> FieldLine(header[i], m)] \o <<Blank>> \o Body(m)

\* A good header: fields only, and the length given last is right.
Good(header) ==
    /\ \A i \in 1 .. Len(header) : header[i] \notin {"nan", "bad"}
    /\ \E i \in 1 .. Len(header) :
          /\ header[i] = "exact"
          /\ \A j \in i + 1 .. Len(header) : header[j] \in {"exact", "other"}

TypeOK ==
    /\ Len(pipe) <= Capacity
    /\ closed \in BOOLEAN /\ broken \in BOOLEAN
    /\ frames \in 0 .. MaxFrames
    /\ sent \in Seq(Messages) /\ got \in Seq(Messages)
    /\ in_header \in BOOLEAN
    /\ content_len.given \in BOOLEAN /\ content_len.n \in Nat
    /\ in_header => buf = <<>>
    /\ ~in_header => content_len.given /\ Len(buf) <= content_len.n
    /\ verdict \in {"reading", "eof", "error"}

----------------------------------------------------------------------------
\* The writer begins a frame; MainLoop's sink begins no second one before.
Begin(m, header) ==
    /\ ~closed /\ todo = <<>> /\ frames < MaxFrames
    /\ frames' = frames + 1
    /\ todo' = Frame(m, header)
    /\ broken' = (broken \/ ~Good(header))
    /\ UNCHANGED <<pipe, closed, sent, reader>>

PushBlindly ==  \* faulty: does not wait for room
    /\ todo # <<>>
    /\ pipe' = Append(pipe, Head(todo))
    /\ todo' = Tail(todo)
    /\ sent' = IF Len(todo) = 1 /\ ~broken THEN Append(sent, Head(todo).of) ELSE sent
    /\ UNCHANGED <<closed, broken, frames, reader>>

\* The write goes on as far as there is room.
Push ==
    /\ todo # <<>> /\ Len(pipe) < Capacity
    /\ pipe' = Append(pipe, Head(todo))
    /\ todo' = Tail(todo)
    /\ sent' = IF Len(todo) = 1 /\ ~broken THEN Append(sent, Head(todo).of) ELSE sent
    /\ UNCHANGED <<closed, broken, frames, reader>>

\* The writer goes, perhaps inside a frame or even inside a header line.
Close ==
    /\ ~closed
    /\ closed' = TRUE
    /\ broken' = (broken \/ todo # <<>>)
    /\ todo' = <<>>
    /\ \/ UNCHANGED pipe
       \/ /\ todo # <<>> /\ IsLine(Head(todo)) /\ Len(pipe) < Capacity
          /\ pipe' = Append(pipe, Half)
    /\ UNCHANGED <<frames, sent, reader>>

----------------------------------------------------------------------------
Fail(why) ==
    /\ verdict' = why
    /\ UNCHANGED <<in_header, content_len, buf, got>>

\* Message::read, its loop over the header lines.  A line that is no field,
\* or a length that is no number, is a protocol error, and so is a header
\* that ends without a length.
ReadLine ==
    /\ verdict = "reading" /\ in_header /\ pipe # <<>>
    /\ pipe' = Tail(pipe)
    /\ LET unit == Head(pipe)
           kind == IF IsLine(unit) THEN unit.kind ELSE "bad"
       IN  \/ kind = "length"
              /\ content_len' = Length(unit.n)
              /\ UNCHANGED <<in_header, buf, got, verdict>>
           \/ kind = "other" /\ UNCHANGED reader
           \/ kind = "blank" /\ content_len.given
              /\ in_header' = FALSE
              /\ UNCHANGED <<content_len, buf, got, verdict>>
           \/ kind = "blank" /\ ~content_len.given /\ Fail("error")
           \/ kind \in {"nan", "bad"} /\ Fail("error")
    /\ UNCHANGED writer

FullLate == Len(buf) > content_len.n  \* faulty: one byte too many

Full == Len(buf) = content_len.n

\* Message::read, its read_exact.
ReadBody ==
    /\ verdict = "reading" /\ ~in_header /\ ~Full /\ pipe # <<>>
    /\ pipe' = Tail(pipe)
    /\ buf' = Append(buf, Head(pipe))
    /\ UNCHANGED <<writer, in_header, content_len, got, verdict>>

DecodeKeepingLength ==  \* faulty: content_len outlives its message
    /\ verdict = "reading" /\ ~in_header /\ Full
    /\ IF \E m \in Messages : buf = Body(m)
       THEN /\ got' = Append(got, buf[1].of)
            /\ in_header' = TRUE /\ buf' = <<>>
            /\ UNCHANGED <<content_len, verdict>>
       ELSE Fail("error")
    /\ UNCHANGED <<writer, pipe>>

\* Message::read returns, and is called again for the next message.
Decode ==
    /\ verdict = "reading" /\ ~in_header /\ Full
    /\ IF \E m \in Messages : buf = Body(m)
       THEN /\ got' = Append(got, buf[1].of)
            /\ in_header' = TRUE /\ content_len' = NoLength /\ buf' = <<>>
            /\ UNCHANGED verdict
       ELSE Fail("error")
    /\ UNCHANGED <<writer, pipe>>

ReadEndInHeader ==  \* faulty: a body that is cut short is waited for
    /\ verdict = "reading" /\ closed /\ pipe = <<>> /\ in_header
    /\ Fail("eof")
    /\ UNCHANGED <<writer, pipe>>

\* The end of the input: between two lines, or in the middle of a body.
ReadEnd ==
    /\ verdict = "reading" /\ closed /\ pipe = <<>>
    /\ \/ in_header /\ Fail("eof")
       \/ ~in_header /\ ~Full /\ Fail("error")
    /\ UNCHANGED <<writer, pipe>>

Read == ReadLine \/ ReadBody \/ Decode \/ ReadEnd

Init ==
    /\ todo = <<>> /\ pipe = <<>>
    /\ closed = FALSE /\ broken = FALSE
    /\ frames = 0
    /\ sent = <<>> /\ got = <<>>
    /\ in_header = TRUE /\ content_len = NoLength /\ buf = <<>>
    /\ verdict = "reading"

Next ==
    \/ \E m \in Messages, header \in Headers : Begin(m, header)
    \/ Push \/ Close \/ Read

Spec == Init /\ [][Next]_vars

\* Who reads is polled whenever something has arrived.
FairSpec == Spec /\ WF_vars(Read)

----------------------------------------------------------------------------
\* However the frames are cut into reads and writes, and however the peer
\* breaks off or spoils a frame, the reader yields the good messages before
\* that, whole and in order, and nothing else; and a stream that is not
\* broken gives no error.
Stream == IF broken THEN "broken" ELSE IF closed THEN "closed" ELSE "open"
Whole == INSTANCE Channel WITH stream <- Stream
ChannelSpec == Whole!Spec

\* A message that was written is read, with nothing written after it.
Delivered == \A k \in 1 .. MaxFrames : Len(sent) >= k ~> Len(got) >= k

\* The end of the input is noticed wherever it comes.
EndNoticed == closed ~> verdict # "reading"
============================================================================
