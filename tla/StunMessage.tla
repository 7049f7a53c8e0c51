----------------------------- MODULE StunMessage -----------------------------
(***************************************************************************)
(* Building, sending and parsing a STUN/TURN message, octet by octet where *)
(* lengths are concerned: the builders of turn_codec.rs, turn_echo.rs and  *)
(* stun.rs, parse_header and walk_attrs of stun_codec.rs, and the walker   *)
(* parse_data_indication (turn_echo.rs) has for itself.  A 16-bit field    *)
(* is two octets; the header is a record, the digest a record of what it   *)
(* covers.                                                                 *)
(***************************************************************************)
EXTENDS Naturals, Sequences, SequencesExt

CONSTANTS Base,       \* values of an octet; 256 in the code
          AttrTypes,  \* attribute types of a server's messages
          DATA,       \* attr::DATA, one of them
          Values,     \* attribute values
          PeerValue,  \* build_xor_address of the peer
          Digest,     \* the octets of an HMAC-SHA1; 20 in the code
          MaxAttrs    \* bound: attributes of a server's message

VARIABLES kind,    \* which builder runs
          attrs,   \* history: the attributes appended
          msg,     \* the message being built
          signed,  \* what the digest was computed over
          got,     \* the datagram at the receiver
          phase    \* "building", "sent", "received", "distorted"

vars == <<kind, attrs, msg, signed, got, phase>>

-----------------------------------------------------------------------------
(* Building *)

W16 == Base * Base

\* Octets, types that fit their field, and a digest that needs no padding.
Digital ==
    /\ Base \in Nat /\ Base >= 3
    /\ AttrTypes \subseteq 0..W16 - 1
    /\ Values \cup {PeerValue, Digest} \subseteq Seq(0..Base - 1)
    /\ Len(Digest) % 4 = 0

Octets16(n) == <<(n % W16) \div Base, n % Base>>
Number(hi, lo) == hi * Base + lo

\* The types of the attributes each builder appends, in order.  The numbers
\* are smaller than the protocol's, and different from each other as those are.
MESSAGE_INTEGRITY == 0
REQUESTED_TRANSPORT == 1
XOR_PEER_ADDRESS == 2
USERNAME == 3
REALM == 4
NONCE == 5

Requests ==
    [binding    |-> <<>>,
     allocate   |-> <<REQUESTED_TRANSPORT>>,
     authed     |-> <<REQUESTED_TRANSPORT, USERNAME, REALM, NONCE>>,
     permission |-> <<XOR_PEER_ADDRESS, USERNAME, REALM, NONCE>>]

\* What a TURN server sends: responses, and Data Indications.
ServerKinds == {"response", "indication"}

Authenticates(k) == k \in {"authed", "permission"}

ValuesOf(type) ==
    CASE type = REQUESTED_TRANSPORT -> {<<1, 0, 0, 0>>}
      [] type = XOR_PEER_ADDRESS -> {PeerValue}
      [] OTHER -> Values

NotSigned == [method |-> "none", length |-> 0, txid |-> 0, body |-> <<>>]

\* stun_header: the length is fixed up later.
StunHeader(method, txid) ==
    [method |-> method, length |-> 0, cookie |-> TRUE, txid |-> txid, body |-> <<>>]

Pad(value) == (4 - (Len(value) % 4)) % 4

\* append_attr, with the value's length as u16.
\* Mutants: no padding; the padding is counted.
AppendAttrBare(m, type, value) ==
    [m EXCEPT !.body = @ \o Octets16(type) \o Octets16(Len(value)) \o value]

AppendAttrPadded(m, type, value) ==
    LET padded == value \o [k \in 1..Pad(value) |-> 0]
    IN [m EXCEPT !.body = @ \o Octets16(type) \o Octets16(Len(padded)) \o padded]

AppendAttr(m, type, value) ==
    [m EXCEPT !.body = @ \o Octets16(type) \o Octets16(Len(value)) \o value
                         \o [k \in 1..Pad(value) |-> 0]]

SetAttrsLength(m) == [m EXCEPT !.length = Len(m.body) % W16]

\* attach_message_integrity: the length already counts the attribute, the
\* digest covers what precedes it.
\* Mutant: the length is set afterwards.
WithIntegrityLengthBefore(m) == [m EXCEPT !.length = Len(m.body) % W16]

WithIntegrityLength(m) == [m EXCEPT !.length = (Len(m.body) + 4 + Len(Digest)) % W16]

Init ==
    /\ kind \in DOMAIN Requests \cup ServerKinds
    /\ attrs = <<>>
    /\ msg = StunHeader(kind, 1)
    /\ signed = NotSigned
    /\ got = StunHeader("none", 0)
    /\ phase = "building"

NextTypes ==
    IF kind \in ServerKinds THEN (IF Len(attrs) < MaxAttrs THEN AttrTypes ELSE {})
    ELSE IF Len(attrs) < Len(Requests[kind]) THEN {Requests[kind][Len(attrs) + 1]} ELSE {}

AppendNext ==
    /\ phase = "building"
    /\ \E type \in NextTypes : \E value \in ValuesOf(type) :
          /\ attrs' = Append(attrs, [type |-> type, value |-> value])
          /\ msg' = AppendAttr(msg, type, value)
    /\ UNCHANGED <<kind, signed, got, phase>>

Complete == kind \notin ServerKinds => Len(attrs) = Len(Requests[kind])

\* build_binding_request, build_allocate_unauth, and a server that does not
\* sign.
SendPlain ==
    /\ phase = "building" /\ Complete /\ ~Authenticates(kind)
    /\ msg' = SetAttrsLength(msg)
    /\ phase' = "sent"
    /\ UNCHANGED <<kind, attrs, signed, got>>

\* build_allocate_authed, build_create_permission.
SendSigned ==
    /\ phase = "building" /\ Complete /\ Authenticates(kind)
    /\ LET m == WithIntegrityLength(msg)
       IN /\ signed' = [method |-> m.method, length |-> m.length, txid |-> m.txid, body |-> m.body]
          /\ msg' = [m EXCEPT !.body = @ \o Octets16(MESSAGE_INTEGRITY) \o Octets16(Len(Digest)) \o Digest]
    /\ attrs' = Append(attrs, [type |-> MESSAGE_INTEGRITY, value |-> Digest])
    /\ phase' = "sent"
    /\ UNCHANGED <<kind, got>>

-----------------------------------------------------------------------------
(* The way *)

\* The receive buffer, 1500 octets in the checks, may be too small for it.
Deliver ==
    /\ phase = "sent"
    /\ \E k \in 0..Len(msg.body) : got' = [msg EXCEPT !.body = SubSeq(@, 1, k)]
    /\ phase' = "received"
    /\ UNCHANGED <<kind, attrs, msg, signed>>

\* A server's message can be anything at all; here one octet or field of it
\* is another.
Distort ==
    /\ phase = "received" /\ kind \in ServerKinds
    /\ \/ \E k \in 1..Len(got.body) : \E octet \in 0..Base - 1 :
             got' = [got EXCEPT !.body[k] = octet]
       \/ \E n \in 0..W16 - 1 : got' = [got EXCEPT !.length = n]
       \/ got' = [got EXCEPT !.cookie = FALSE]
       \/ got' = [got EXCEPT !.txid = 2]
    /\ phase' = "distorted"
    /\ UNCHANGED <<kind, attrs, msg, signed>>

-----------------------------------------------------------------------------
(* Parsing *)

\* parse_header; a datagram too short for a header fails like a bad cookie.
\* Mutant: the claimed length is not held against the buffer.
ParseHeaderTrusting(m, txid) ==
    IF ~m.cookie THEN "bad_cookie"
    ELSE IF m.txid # txid THEN "txid_mismatch"
    ELSE "ok"

ParseHeader(m, txid) ==
    IF ~m.cookie THEN "bad_cookie"
    ELSE IF m.txid # txid THEN "txid_mismatch"
    ELSE IF Len(m.body) < m.length THEN "truncated"
    ELSE "ok"

\* What stands at position i (from 0) of the attribute section.
TypeAt(body, i) == Number(body[i + 1], body[i + 2])
LengthAt(body, i) == Number(body[i + 3], body[i + 4])
ValueAt(body, i) == SubSeq(body, i + 5, i + 4 + LengthAt(body, i))
After(body, i) == i + 4 + LengthAt(body, i) + Pad(ValueAt(body, i))

\* walk_attrs from a position on: all attributes, or those before the one that
\* is too long and an error.
AttrsFrom(body, end) ==
    LET from[i \in 0..end + 3] ==
            IF i + 4 > end THEN [ok |-> TRUE, attrs |-> <<>>]
            ELSE IF i + 4 + LengthAt(body, i) > end THEN [ok |-> FALSE, attrs |-> <<>>]
            ELSE LET rest == from[After(body, i)]
                 IN [rest EXCEPT !.attrs =
                        <<[type |-> TypeAt(body, i), value |-> ValueAt(body, i)]>> \o @]
    IN from

WalkAttrs(body, end) == AttrsFrom(body, end)[0]

\* parse_data_indication: no transaction id to compare, and a walk of its own.
\* Mutant: which forgets the padding.
DataFromUnpadded(body, end) ==
    LET from[i \in 0..end] ==
            IF i + 4 > end THEN [is |-> "none", value |-> <<>>]
            ELSE IF i + 4 + LengthAt(body, i) > end THEN [is |-> "error", value |-> <<>>]
            ELSE IF TypeAt(body, i) = DATA THEN [is |-> "data", value |-> ValueAt(body, i)]
            ELSE from[i + 4 + LengthAt(body, i)]
    IN from

DataFrom(body, end) ==
    LET from[i \in 0..end + 3] ==
            IF i + 4 > end THEN [is |-> "none", value |-> <<>>]
            ELSE IF i + 4 + LengthAt(body, i) > end THEN [is |-> "error", value |-> <<>>]
            ELSE IF TypeAt(body, i) = DATA THEN [is |-> "data", value |-> ValueAt(body, i)]
            ELSE from[After(body, i)]
    IN from

WalkForData(body, end) == DataFrom(body, end)[0]

ParseDataIndication(m) ==
    IF m.method # "indication" THEN [is |-> "none", value |-> <<>>]
    ELSE IF ~m.cookie \/ Len(m.body) < m.length THEN [is |-> "error", value |-> <<>>]
    ELSE WalkForData(m.body, m.length)

Done == phase \in {"received", "distorted"} /\ UNCHANGED vars

Next == AppendNext \/ SendPlain \/ SendSigned \/ Deliver \/ Distort \/ Done

Spec == Init /\ [][Next]_vars

-----------------------------------------------------------------------------
(* Properties *)

TypeOK ==
    /\ kind \in DOMAIN Requests \cup ServerKinds
    /\ \A k \in 1..Len(msg.body) : msg.body[k] \in 0..Base - 1
    /\ Len(msg.body) % 4 = 0
    /\ msg.length \in 0..W16 - 1 /\ got.length \in 0..W16 - 1
    /\ phase \in {"building", "sent", "received", "distorted"}

\* All lengths fit their fields.
Fits == Len(msg.body) < W16

Arrived == phase = "received" /\ Len(got.body) = Len(msg.body)

(* Builder and walker agree on the format: what a builder appends is what  *)
(* the walker finds, for values of every length and content, those that    *)
(* look like attributes included.                                          *)
RoundTrip ==
    Arrived /\ Fits =>
        /\ ParseHeader(got, 1) = "ok"
        /\ WalkAttrs(got.body, got.length) = [ok |-> TRUE, attrs |-> attrs]

(* A datagram the receive buffer cut is never taken for a whole message,   *)
(* wherever it was cut: between two attributes as well.                    *)
TruncationNoticed ==
    phase = "received" /\ Fits /\ ~Arrived => ParseHeader(got, 1) = "truncated"

(* A receiver that checks the integrity of a request as RFC 5389 15.4 says *)
(* finds the digest over just what was signed: the header with the length  *)
(* up to the end of MESSAGE-INTEGRITY, and everything in front of it.      *)
IntegrityVerifies ==
    Arrived /\ Fits /\ Authenticates(kind) =>
        LET before == Len(got.body) - 4 - Len(Digest)
        IN signed = [method |-> got.method, length |-> before + 4 + Len(Digest),
                     txid |-> got.txid, body |-> SubSeq(got.body, 1, before)]

(* The echo's walker and the shared one agree, on whole, cut and distorted *)
(* messages: the payload is the first DATA attribute the shared walker     *)
(* comes by, and an error or nothing otherwise.                            *)
DataAgreesWithWalk ==
    phase \in {"received", "distorted"} /\ got.method = "indication" =>
        LET data == ParseDataIndication(got)
            header == ParseHeader(got, got.txid)
            walk == WalkAttrs(got.body, got.length)
            first == SelectInSeq(walk.attrs, LAMBDA a : a.type = DATA)
        IN IF header # "ok" THEN data.is = "error"
           ELSE IF first # 0 THEN data = [is |-> "data", value |-> walk.attrs[first].value]
           ELSE data.is = (IF walk.ok THEN "none" ELSE "error")
=============================================================================
