------------------------------- MODULE Framing -------------------------------
(***************************************************************************)
(* send_framed and recv_framed of turns_alloc.rs at the two ends of a TCP  *)
(* connection: a message is preceded by its length in two octets, most     *)
(* significant first, and the stream hands octets over in pieces of any    *)
(* size.  The writer may fail between its writes; the reader's future is   *)
(* dropped when its timeout strikes, wherever it is.                       *)
(***************************************************************************)
EXTENDS Naturals, Sequences

CONSTANTS Base,      \* values of an octet; 256 in the code
          Messages,  \* messages the ends may frame, of fewer than Base * Base
                     \* octets: msg.len() as u16 does not check
          MaxSent    \* bound: messages written

VARIABLES sent,      \* history: messages given to send_framed
          body,      \* what send_framed still has to write
          writer,    \* "idle", "body", "closed"
          stream,    \* octets written and not read
          reader,    \* "len", "body", "failed", "dropped"
          buf,       \* octets read_exact has so far
          need,      \* octets it wants in all
          received   \* messages recv_framed returned

vars == <<sent, body, writer, stream, reader, buf, need, received>>

Init ==
    /\ sent = <<>> /\ body = <<>> /\ writer = "idle"
    /\ stream = <<>>
    /\ reader = "len" /\ buf = <<>> /\ need = 2
    /\ received = <<>>

-----------------------------------------------------------------------------
\* (msg.len() as u16).to_be_bytes(), and back.
LengthOctets(n) == <<(n \div Base) % Base, n % Base>>
LengthOf(octets) == octets[1] * Base + octets[2]

\* What send_framed takes for granted of a message.
Fits ==
    /\ Base \in Nat /\ Base >= 2
    /\ Messages \subseteq Seq(0..Base - 1)
    /\ \A m \in Messages : Len(m) < Base * Base

\* send_framed: write_all of the length, then of the message.
SendLength ==
    /\ writer = "idle"
    /\ Len(sent) < MaxSent
    /\ \E msg \in Messages :
          /\ sent' = Append(sent, msg)
          /\ body' = msg
          /\ stream' = stream \o LengthOctets(Len(msg))
    /\ writer' = "body"
    /\ UNCHANGED <<reader, buf, need, received>>

SendBody ==
    /\ writer = "body"
    /\ stream' = stream \o body
    /\ body' = <<>>
    /\ writer' = "idle"
    /\ UNCHANGED <<sent, reader, buf, need, received>>

\* The connection goes away, possibly within a frame: part of what was being
\* written, a length or a message, may have left.
Close ==
    /\ writer # "closed"
    /\ \/ \E k \in 0..Len(body) : stream' = stream \o SubSeq(body, 1, k)
       \/ writer = "idle" /\ \E octet \in 0..Base - 1 : stream' = Append(stream, octet)
    /\ body' = <<>>
    /\ writer' = "closed"
    /\ UNCHANGED <<sent, reader, buf, need, received>>

-----------------------------------------------------------------------------
\* recv_framed begins again.
Restart == reader' = "len" /\ buf' = <<>> /\ need' = 2

Reading == reader \in {"len", "body"}

\* One poll_read of read_exact: some of the octets there are, no more than
\* wanted.
\* Mutant: whatever there is, as a read into a large buffer does.
FillGreedy ==
    /\ Reading /\ Len(buf) < need
    /\ stream # <<>>
    /\ buf' = buf \o stream
    /\ stream' = <<>>
    /\ UNCHANGED <<sent, body, writer, reader, need, received>>

Fill ==
    /\ Reading /\ Len(buf) < need
    /\ \E k \in 1..Len(stream) :
          /\ k <= need - Len(buf)
          /\ buf' = buf \o SubSeq(stream, 1, k)
          /\ stream' = SubSeq(stream, k + 1, Len(stream))
    /\ UNCHANGED <<sent, body, writer, reader, need, received>>

\* Mutant: one octet is awaited at least.
GotLengthOfSome ==
    /\ reader = "len" /\ Len(buf) = need
    /\ reader' = "body" /\ buf' = <<>>
    /\ need' = IF LengthOf(buf) = 0 THEN 1 ELSE LengthOf(buf)
    /\ UNCHANGED <<sent, body, writer, stream, received>>

GotLength ==
    /\ reader = "len" /\ Len(buf) = need
    /\ reader' = "body" /\ buf' = <<>> /\ need' = LengthOf(buf)
    /\ UNCHANGED <<sent, body, writer, stream, received>>

GotBody ==
    /\ reader = "body" /\ Len(buf) = need
    /\ received' = Append(received, buf)
    /\ Restart
    /\ UNCHANGED <<sent, body, writer, stream>>

\* read_exact at the end of the stream: UnexpectedEof.
Eof ==
    /\ Reading /\ Len(buf) < need
    /\ stream = <<>> /\ writer = "closed"
    /\ reader' = "failed" /\ need' = 0 /\ buf' = <<>>
    /\ UNCHANGED <<sent, body, writer, stream, received>>

\* The timeout drops the future, and with it what it had read; the check
\* returns and nothing reads the connection again.
\* Mutant: the read is tried once more.
DropRetries ==
    /\ Reading /\ Len(buf) < need
    /\ Restart
    /\ UNCHANGED <<sent, body, writer, stream, received>>

Drop ==
    /\ Reading /\ Len(buf) < need
    /\ reader' = "dropped" /\ need' = 0 /\ buf' = <<>>
    /\ UNCHANGED <<sent, body, writer, stream, received>>

\* What takes a reader on that has octets to read or their end to notice.
Progress == Fill \/ GotLength \/ GotBody \/ Eof

\* Nobody reads any more.
Over == ~Reading /\ UNCHANGED vars

Next == \/ SendLength \/ SendBody \/ Close
        \/ Progress \/ Drop
        \/ Over

Spec == Init /\ [][Next]_vars

\* The octets written arrive and the reader is polled; neither the writer nor
\* the timer owes anything.
FairSpec == Spec /\ WF_vars(Progress)

-----------------------------------------------------------------------------
(* Properties *)

TypeOK ==
    /\ writer \in {"idle", "body", "closed"}
    /\ reader \in {"len", "body", "failed", "dropped"}
    /\ Len(sent) <= MaxSent
    /\ body \in Messages \cup {<<>>}
    /\ \A k \in 1..Len(stream) : stream[k] \in 0..Base - 1
    /\ Len(buf) <= need /\ need < Base * Base

(* Framing does what it is for: whatever pieces the stream hands over, and *)
(* wherever writer or reader stop, whole messages come out in order.       *)
Abstract == INSTANCE Channel

ImplementsChannel == Abstract!Spec

Written(n) == Len(sent) >= n /\ writer = "idle"
Read(n) == Len(received) >= n \/ ~Reading

(* A reader that is neither cut off nor dropped gets every message written *)
(* completely: no octet is left over that a frame does not account for.    *)
AllArrive == \A n \in 1..MaxSent : Written(n) ~> Read(n)
=============================================================================
