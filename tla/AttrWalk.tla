------------------------------- MODULE AttrWalk -------------------------------
(***************************************************************************)
(* parse_header and walk_attrs of probe-core/src/stun_codec.rs on a buffer *)
(* with any content at all: which octets they touch, which slices they     *)
(* hand out and that they come to an end.  No octet of a length is read    *)
(* twice, so reading one is a free choice.  Indexing a buffer at or past   *)
(* its end would be a panic.                                               *)
(***************************************************************************)
EXTENDS Integers

CONSTANTS MaxBuf,   \* longest datagram or frame
          MaxU16    \* largest value of a 16-bit field; 65535 in the code

ASSUME SizesAssumption == MaxBuf \in Nat /\ MaxU16 \in Nat

VARIABLES bufLen,    \* buf.len()
          attrsLen,  \* attrs_len, as the header claims
          i,         \* the walk's position
          touched,   \* history: highest index read so far
          slices,    \* the values handed out, as [from, to) in the buffer
          state      \* "header", "walking", "ok", "err"

vars == <<bufLen, attrsLen, i, touched, slices, state>>

Header == 20

Init ==
    /\ bufLen \in 0..MaxBuf
    /\ attrsLen = 0
    /\ i = 0
    /\ touched = -1
    /\ slices = {}
    /\ state = "header"

-----------------------------------------------------------------------------
End == Header + attrsLen

\* Octets to the next multiple of four.
\* Mutants: an aligned value is padded too; no value is.
PadAlways(len) == 4 - (len % 4)
PadNever(len) == 0

Pad(len) == (4 - (len % 4)) % 4

Short ==
    /\ state = "header" /\ bufLen < Header
    /\ state' = "err"
    /\ UNCHANGED <<bufLen, attrsLen, i, touched, slices>>

\* Another cookie or transaction id, or a length that the buffer does not
\* have.
BadHeader ==
    /\ state = "header" /\ bufLen >= Header
    /\ attrsLen' \in 0..MaxU16
    /\ touched' = Header - 1
    /\ state' = "err"
    /\ UNCHANGED <<bufLen, i, slices>>

\* Mutant: the claimed length is not held against the buffer.
GoodHeaderTrusting ==
    /\ state = "header" /\ bufLen >= Header
    /\ attrsLen' \in 0..MaxU16
    /\ touched' = Header - 1
    /\ i' = Header
    /\ state' = "walking"
    /\ UNCHANGED <<bufLen, slices>>

GoodHeader ==
    /\ state = "header" /\ bufLen >= Header
    /\ attrsLen' \in 0..MaxU16
    /\ bufLen >= Header + attrsLen'
    /\ touched' = Header - 1
    /\ i' = Header
    /\ state' = "walking"
    /\ UNCHANGED <<bufLen, slices>>

\* There is room for an attribute's type and length.
\* Mutant: there is some room.
MoreRagged == i < End

More == i + 4 <= End

\* Mutant: the attribute's own header is not passed over.
AttributeInPlace(len) ==
    /\ state = "walking" /\ More
    /\ i + 4 + len <= End
    /\ slices' = slices \cup {[from |-> i + 4, to |-> i + 4 + len]}
    /\ touched' = i + 3 + len
    /\ i' = i + len + Pad(len)
    /\ UNCHANGED <<bufLen, attrsLen, state>>

Attribute(len) ==
    /\ state = "walking" /\ More
    /\ i + 4 + len <= End
    /\ slices' = slices \cup {[from |-> i + 4, to |-> i + 4 + len]}
    /\ touched' = i + 3 + len
    /\ i' = i + 4 + len + Pad(len)
    /\ UNCHANGED <<bufLen, attrsLen, state>>

\* TruncatedAttr: the value would end behind the section.
Truncated(len) ==
    /\ state = "walking" /\ More
    /\ i + 4 + len > End
    /\ touched' = i + 3
    /\ state' = "err"
    /\ UNCHANGED <<bufLen, attrsLen, i, slices>>

Finish ==
    /\ state = "walking" /\ ~More
    /\ state' = "ok"
    /\ UNCHANGED <<bufLen, attrsLen, i, touched, slices>>

Step == \/ Short \/ BadHeader \/ GoodHeader
        \/ \E len \in 0..MaxU16 : Attribute(len) \/ Truncated(len)
        \/ Finish

Stopped == state \in {"ok", "err"} /\ UNCHANGED vars

Next == Step \/ Stopped

Spec == Init /\ [][Next]_vars

-----------------------------------------------------------------------------
(* Properties *)

TypeOK ==
    /\ bufLen \in 0..MaxBuf
    /\ attrsLen \in 0..MaxU16
    /\ i \in Nat
    /\ state = "walking" => i \in Header..End + 3   \* padding may be missing at the end
    /\ touched \in Int
    /\ slices \subseteq [from : Nat, to : Nat]
    /\ state \in {"header", "walking", "ok", "err"}

(* No datagram makes the parser read outside the buffer.                   *)
InBounds == touched < bufLen

(* The values handed out lie in the attribute section, behind a header of  *)
(* their own, start on a multiple of four and do not overlap: no octet is  *)
(* part of two attributes.                                                 *)
SlicesAreApart ==
    /\ \A s \in slices : /\ Header + 4 <= s.from /\ s.from <= s.to /\ s.to <= bufLen
                         /\ s.from % 4 = 0
    /\ \A s, t \in slices : s = t \/ s.to + 4 <= t.from \/ t.to + 4 <= s.from

(* The walk is safe: it reads nothing and hands out nothing but what is    *)
(* there, each octet to one attribute at most.                             *)
WalkStaysInside == InBounds /\ SlicesAreApart

(* Every attribute takes the walk on by its header at least, the empty     *)
(* ones included: a datagram cannot keep the walk in place, and as the     *)
(* section is finite it comes to an end.                                   *)
Advances == [][state = "walking" /\ state' = "walking" => i' >= i + 4]_vars
=============================================================================
