------------------------------ MODULE Channel ------------------------------
(***************************************************************************)
(* What one direction of a message stream promises: whole messages arrive  *)
(* once and in order; the reader sees the end only when all has arrived    *)
(* or when the stream was broken, and an error only when it was broken.    *)
(* MainLoop takes its streams to be of this kind; Framing implements it.   *)
(***************************************************************************)
EXTENDS Naturals, Sequences

CONSTANT Messages

VARIABLES
    sent,      \* messages written so far
    got,       \* messages read so far
    stream,    \* whether the writer goes on, has closed or has broken off
    verdict    \* what ended the reader, if it has ended

vars == <<sent, got, stream, verdict>>

TypeOK ==
    /\ sent \in Seq(Messages) /\ got \in Seq(Messages)
    /\ stream \in {"open", "closed", "broken"}
    /\ verdict \in {"reading", "eof", "error"}

Init ==
    /\ sent = <<>> /\ got = <<>>
    /\ stream = "open"
    /\ verdict = "reading"

Put(m) ==
    /\ stream = "open"
    /\ sent' = Append(sent, m)
    /\ UNCHANGED <<got, stream, verdict>>

Take ==
    /\ verdict = "reading" /\ Len(got) < Len(sent)
    /\ got' = Append(got, sent[Len(got) + 1])
    /\ UNCHANGED <<sent, stream, verdict>>

Close ==
    /\ stream = "open"
    /\ stream' \in {"closed", "broken"}
    /\ UNCHANGED <<sent, got, verdict>>

End ==
    /\ verdict = "reading" /\ got = sent
    /\ \/ stream = "closed" /\ verdict' = "eof"
       \/ stream = "broken" /\ verdict' \in {"eof", "error"}
    /\ UNCHANGED <<sent, got, stream>>

Next == (\E m \in Messages : Put(m)) \/ Take \/ Close \/ End

Spec == Init /\ [][Next]_vars
============================================================================
