----------------------------- MODULE XorAddress -----------------------------
(***************************************************************************)
(* build_xor_address, parse_xor_address and parse_mapped_address of        *)
(* stun_codec.rs, octet by octet: a value is a reserved octet, the family, *)
(* two octets of port, and four or sixteen of address.  The port is masked *)
(* with the upper half of the magic cookie, an IPv4 address with the       *)
(* cookie, an IPv6 address with the cookie and the transaction id.  An     *)
(* octet is the set of its bits that are one, bit 0 the lowest.            *)
(***************************************************************************)
EXTENDS Naturals, Sequences

CONSTANTS Octets,   \* values the octets of addresses, ports and ids take
          Cookie    \* MAGIC_COOKIE, most significant octet first

VARIABLES addr,    \* the SocketAddr: family, port, ip
          txid,    \* 12 octets
          value,   \* the attribute's value
          phase    \* "chosen", "built", "cut"

vars == <<addr, txid, value, phase>>

Octet == SUBSET (0..7)

\* The octets 0, 1 and 2.
Zero == {}
V4 == {0}
V6 == {1}

\* The cookie has four octets.
Masks == Octets \subseteq Octet /\ Cookie \in [1..4 -> Octet]

\* Addresses and ids repeat one octet behind another one.
Pattern(n) == {[k \in 1..n |-> IF k = 1 THEN a ELSE b] : a, b \in Octets}

SocketAddr(f, n) == [family : {f}, port : Pattern(2), ip : Pattern(n)]

Init ==
    /\ addr \in SocketAddr(V4, 4) \cup SocketAddr(V6, 16)
    /\ txid \in Pattern(12)
    /\ value = <<>>
    /\ phase = "chosen"

-----------------------------------------------------------------------------
Xor(a, b) == (a \ b) \cup (b \ a)

XorOctets(s, mask) == [k \in 1..Len(s) |-> Xor(s[k], mask[k])]

\* Mutant: the transaction id is forgotten.
MaskCookieOnly(family, id) == Cookie \o Cookie \o Cookie \o Cookie

Mask(family, id) == IF family = V4 THEN Cookie ELSE Cookie \o id
PortMask == SubSeq(Cookie, 1, 2)

\* Mutant: the port takes the cookie's lower half, in this direction only.
BuildXorAddressLow(a, id) ==
    <<Zero, a.family>> \o XorOctets(a.port, SubSeq(Cookie, 3, 4))
    \o XorOctets(a.ip, Mask(a.family, id))

BuildXorAddress(a, id) ==
    <<Zero, a.family>> \o XorOctets(a.port, PortMask) \o XorOctets(a.ip, Mask(a.family, id))

\* Octets of a value that holds an address of the family.
Size(family) == IF family = V4 THEN 8 ELSE 20

Error == [family |-> Zero, port |-> <<>>, ip |-> <<>>]

\* The family, port and address a value holds; longer ones are cut.
\* Mutant: only the port is known to be there.
PartsTrusting(v) ==
    IF Len(v) < 4 \/ v[2] \notin {V4, V6} THEN Error
    ELSE [family |-> v[2], port |-> SubSeq(v, 3, 4),
          ip |-> SubSeq(v, 5, IF Len(v) < Size(v[2]) THEN Len(v) ELSE Size(v[2]))]

Parts(v) ==
    IF Len(v) < 4 \/ v[2] \notin {V4, V6} \/ Len(v) < Size(v[2]) THEN Error
    ELSE [family |-> v[2], port |-> SubSeq(v, 3, 4), ip |-> SubSeq(v, 5, Size(v[2]))]

ParseMappedAddress(v) == Parts(v)

ParseXorAddress(v, id) ==
    LET p == Parts(v)
    IN IF p = Error THEN Error
       ELSE [p EXCEPT !.port = XorOctets(@, PortMask),
                      !.ip = XorOctets(@, Mask(p.family, id))]

Build ==
    /\ phase = "chosen"
    /\ value' = BuildXorAddress(addr, txid)
    /\ phase' = "built"
    /\ UNCHANGED <<addr, txid>>

\* A server's value ends early, or names the other family.
Cut ==
    /\ phase = "built"
    /\ \/ \E k \in 0..Len(value) - 1 : value' = SubSeq(value, 1, k)
       \/ \E f \in (SUBSET {0, 1}) \ {addr.family} : value' = [value EXCEPT ![2] = f]
    /\ phase' = "cut"
    /\ UNCHANGED <<addr, txid>>

Done == phase = "cut" /\ UNCHANGED vars

Next == Build \/ Cut \/ Done

Spec == Init /\ [][Next]_vars

-----------------------------------------------------------------------------
(* Properties *)

(* The peer address a permission names and the addresses a server answers  *)
(* with survive the encoding, for both families.                           *)
RoundTrip == phase = "built" => ParseXorAddress(value, txid) = addr

(* An IPv6 address read with the id of another transaction is another      *)
(* address; port and IPv4 address do not depend on the id.                 *)
IdMatters ==
    phase = "built" =>
        \A id \in Pattern(12) \ {txid} :
            LET p == ParseXorAddress(value, id)
            IN p.port = addr.port /\ (p.ip = addr.ip <=> addr.family = V4)

(* No value makes the parsers read behind its end or answer with part of   *)
(* an address, and a value cut anywhere is an error.                       *)
WholeOrError ==
    \A p \in {ParseXorAddress(value, txid), ParseMappedAddress(value)} :
        \/ p = Error
        \/ /\ p.family \in {V4, V6} /\ Len(p.port) = 2
           /\ Len(p.ip) = (IF p.family = V4 THEN 4 ELSE 16)
           /\ phase = "cut" => value[2] # addr.family   \* IPv4 instead of IPv6
=============================================================================
