------------------------------ MODULE WireProofs ------------------------------
(***************************************************************************)
(* Theorems about the wire: the walk, for buffers of every length and      *)
(* content; addresses, for every family, mask and port; responses, for     *)
(* attributes in any number and order; messages, for attributes of every   *)
(* number, length and content; and the frames, by the lemmas of            *)
(* FramingProofs.                                                          *)
(***************************************************************************)
EXTENDS Wire, FiniteSetTheorems, SequenceTheorems, WellFoundedInduction, TLAPS

-----------------------------------------------------------------------------
(* The walk: padding *)

\* The pad brings a length to the next multiple of four and no further.
LEMMA PadAligns ==
    ASSUME NEW len \in Nat
    PROVE  Pad(len) \in 0..3 /\ (len + Pad(len)) % 4 = 0
<1>1. len % 4 \in 0..3
    BY Z3
<1>2. CASE len % 4 = 0
    <2>1. Pad(len) = 0
        BY <1>2, Z3 DEF Pad
    <2> QED BY <1>2, <2>1, Z3
<1>3. CASE len % 4 # 0
    <2>1. Pad(len) = 4 - (len % 4)
        BY <1>1, <1>3, Z3 DEF Pad
    <2> QED BY <1>1, <1>3, <2>1, Z3
<1> QED BY <1>2, <1>3

LEMMA AlignedSum ==
    ASSUME NEW at \in Nat, at % 4 = 0, NEW step \in Nat, step % 4 = 0
    PROVE  (at + 4 + step) % 4 = 0 /\ (at + 4) % 4 = 0
BY Z3

LEMMA HeaderIsAligned == Header \in Nat /\ Header % 4 = 0 /\ Header - 1 \in Nat
BY Z3 DEF Header

LEMMA SectionHasItsBegin ==
    ASSUME NEW from \in Nat, NEW len \in Nat
    PROVE  from \in from..(from + len) + 3
OBVIOUS

\* The attributes begin on a multiple of four, behind the header; what
\* follows an attribute and its padding is one again.
LEMMA NextIsAligned ==
    ASSUME NEW at \in Nat, at % 4 = 0, NEW len \in Nat
    PROVE  (at + 4 + len + Pad(len)) % 4 = 0 /\ (at + 4) % 4 = 0
<1>1. Pad(len) \in 0..3 /\ (len + Pad(len)) % 4 = 0
    BY PadAligns
<1>2. PICK pad \in 0..3 : pad = Pad(len)
    BY <1>1
<1>3. len + pad \in Nat
    OBVIOUS
<1>6. (len + pad) % 4 = 0
    BY <1>1, <1>2, Zenon
<1>4. (at + 4 + (len + pad)) % 4 = 0 /\ (at + 4) % 4 = 0
    BY <1>3, <1>6, AlignedSum
<1>5. at + 4 + (len + pad) = at + 4 + len + pad
    OBVIOUS
<1> QED BY <1>2, <1>4, <1>5

-----------------------------------------------------------------------------
(* The inductive invariant.  That slices do not overlap is no fact about   *)
(* two slices alone: it holds since all of them end before the walk's      *)
(* position, and the next one begins four octets behind it.                *)

PositionInv ==
    state = "walking" => /\ End <= bufLen
                         /\ i % 4 = 0
                         /\ \A s \in slices : s.to <= i

HeaderInv == state = "header" => slices = {}

WalkInv == /\ TypeOK
        /\ HeaderInv
        /\ PositionInv
        /\ WalkStaysInside

LEMMA InitWalk == Init => WalkInv
<1> SUFFICES ASSUME Init PROVE WalkInv
    OBVIOUS
<1> USE SizesAssumption
<1>1. TypeOK
    BY DEF Init, TypeOK
<1>2. HeaderInv /\ PositionInv
    BY DEF Init, HeaderInv, PositionInv
<1>3. WalkStaysInside
    BY DEF Init, WalkStaysInside, InBounds, SlicesAreApart
<1> QED BY <1>1, <1>2, <1>3 DEF WalkInv

\* The header is read whole and is all that is read.
LEMMA HeaderKeepsWalk ==
    ASSUME WalkInv, Short \/ BadHeader \/ GoodHeader
    PROVE  WalkInv'
<1> USE SizesAssumption, HeaderIsAligned
<1>1. CASE Short
    BY <1>1 DEF Short, WalkInv, TypeOK, HeaderInv, PositionInv, WalkStaysInside, InBounds, SlicesAreApart, End
<1>2. CASE BadHeader
    BY <1>2 DEF BadHeader, WalkInv, TypeOK, HeaderInv, PositionInv, WalkStaysInside, InBounds, SlicesAreApart, End
<1>3. CASE GoodHeader
    <2>1. /\ attrsLen' \in 0..MaxU16 /\ bufLen' = bufLen /\ touched' = Header - 1
          /\ i' = Header /\ state' = "walking" /\ slices' = slices
          /\ Header + attrsLen' <= bufLen
        BY <1>3 DEF GoodHeader, WalkInv, TypeOK
    <2>2. slices' = {} /\ attrsLen' \in Nat /\ End' = Header + attrsLen'
        BY <1>3, <2>1 DEF GoodHeader, WalkInv, HeaderInv, End
    <2>3. TypeOK'
        <3>1. i' \in Header..End' + 3
            BY <2>1, <2>2, SectionHasItsBegin
        <3>2. slices' \subseteq [from : Nat, to : Nat]
            BY <2>2
        <3>3. bufLen' \in 0..MaxBuf
            BY <2>1 DEF WalkInv, TypeOK
        <3>4. touched' \in Int /\ i' \in Nat
            BY <2>1
        <3> QED BY <2>1, <3>1, <3>2, <3>3, <3>4 DEF TypeOK
    <2>5. HeaderInv' /\ PositionInv'
        BY <2>1, <2>2 DEF HeaderInv, PositionInv
    <2>4. WalkStaysInside'
        BY <1>3, <2>2 DEF GoodHeader, WalkStaysInside, InBounds, SlicesAreApart, WalkInv, TypeOK
    <2> QED BY <2>3, <2>4, <2>5 DEF WalkInv
<1> QED BY <1>1, <1>2, <1>3

LEMMA AttributeKeepsWalk ==
    ASSUME WalkInv, NEW len \in 0..MaxU16, Attribute(len)
    PROVE  WalkInv'
<1> DEFINE slice == [from |-> i + 4, to |-> i + 4 + len]
<1> USE SizesAssumption, HeaderIsAligned
<1>1. /\ len \in Nat /\ Pad(len) \in 0..3
      /\ i \in Nat /\ i >= Header /\ i % 4 = 0
    BY PadAligns DEF Attribute, WalkInv, TypeOK, PositionInv, End
<1>2. /\ bufLen' = bufLen /\ attrsLen' = attrsLen /\ state' = state
      /\ state = "walking"
      /\ i + 4 + len <= End /\ End <= bufLen
      /\ i' = i + 4 + len + Pad(len)
      /\ touched' = i + 3 + len
      /\ slices' = slices \cup {slice}
    BY DEF Attribute, WalkInv, PositionInv
<1>3. bufLen \in Nat /\ attrsLen \in Nat /\ slices \subseteq [from : Nat, to : Nat]
    BY DEF WalkInv, TypeOK
<1>4. TypeOK'
    BY <1>1, <1>2 DEF WalkInv, TypeOK, End
<1>5. i' % 4 = 0 /\ (i + 4) % 4 = 0
    BY <1>1, <1>2, NextIsAligned
<1>6. \A s \in slices : s.from \in Nat /\ s.to \in Nat /\ s.to <= i
    BY <1>2, <1>3 DEF WalkInv, PositionInv
<1>7. HeaderInv'
    BY <1>2 DEF HeaderInv
<1>8. PositionInv'
    <2>1. \A s \in slices' : s.to <= i'
        BY <1>1, <1>2, <1>6
    <2> QED BY <1>2, <1>5, <2>1 DEF PositionInv, End
<1>9. InBounds'
    BY <1>1, <1>2, <1>3 DEF InBounds, End
<1>10. SlicesAreApart'
    <2>1. \A s \in slices : /\ Header + 4 <= s.from /\ s.from <= s.to /\ s.to <= bufLen
                            /\ s.from % 4 = 0
        BY DEF WalkInv, WalkStaysInside, SlicesAreApart
    <2>2. /\ Header + 4 <= slice.from /\ slice.from <= slice.to /\ slice.to <= bufLen
          /\ slice.from % 4 = 0
        BY <1>1, <1>2, <1>3, <1>5 DEF End
    <2>3. \A s, t \in slices : s = t \/ s.to + 4 <= t.from \/ t.to + 4 <= s.from
        BY DEF WalkInv, WalkStaysInside, SlicesAreApart
    <2>4. \A s \in slices : s.to + 4 <= slice.from
        BY <1>1, <1>6
    <2> HIDE DEF slice
    <2>5. \A s \in slices' : s \in slices \/ s = slice
        BY <1>2
    <2>6. \A s \in slices' : /\ Header + 4 <= s.from /\ s.from <= s.to /\ s.to <= bufLen'
                             /\ s.from % 4 = 0
        BY <1>2, <2>1, <2>2, <2>5
    <2>7. \A s, t \in slices' : s = t \/ s.to + 4 <= t.from \/ t.to + 4 <= s.from
        BY <2>3, <2>4, <2>5
    <2> QED BY <2>6, <2>7 DEF SlicesAreApart
<1> QED BY <1>4, <1>7, <1>8, <1>9, <1>10 DEF WalkInv, WalkStaysInside

LEMMA EndKeepsWalk ==
    ASSUME WalkInv, (\E len \in 0..MaxU16 : Truncated(len)) \/ Finish \/ UNCHANGED vars
    PROVE  WalkInv'
<1> USE SizesAssumption
<1>1. CASE \E len \in 0..MaxU16 : Truncated(len)
    BY <1>1 DEF Truncated, More, WalkInv, TypeOK, HeaderInv, PositionInv, WalkStaysInside, InBounds,
        SlicesAreApart, End, Header
<1>2. CASE Finish
    BY <1>2 DEF Finish, WalkInv, TypeOK, HeaderInv, PositionInv, WalkStaysInside, InBounds,
        SlicesAreApart, End
<1>3. CASE UNCHANGED vars
    BY <1>3 DEF vars, WalkInv, TypeOK, HeaderInv, PositionInv, WalkStaysInside, InBounds,
        SlicesAreApart, End
<1> QED BY <1>1, <1>2, <1>3

LEMMA NextWalk == WalkInv /\ [Next]_vars => WalkInv'
<1> SUFFICES ASSUME WalkInv, [Next]_vars PROVE WalkInv'
    OBVIOUS
<1>1. CASE Short \/ BadHeader \/ GoodHeader
    BY <1>1, HeaderKeepsWalk
<1>2. CASE \E len \in 0..MaxU16 : Attribute(len)
    BY <1>2, AttributeKeepsWalk
<1>3. CASE (\E len \in 0..MaxU16 : Truncated(len)) \/ Finish \/ UNCHANGED vars
    BY <1>3, EndKeepsWalk
<1> QED BY <1>1, <1>2, <1>3 DEF Next, Step, Stopped


-----------------------------------------------------------------------------
(* Lemmas on sequences *)

\* A part of a sequence, by positions.
LEMMA Part ==
    ASSUME NEW S, NEW s \in Seq(S), NEW a \in Nat \ {0}, NEW b \in 0..Len(s), a <= b + 1
    PROVE  /\ SubSeq(s, a, b) \in Seq(S) /\ Len(SubSeq(s, a, b)) = b - a + 1
           /\ Len(s) \in Nat /\ b \in Nat
           /\ \A k \in 1..(b - a + 1) : SubSeq(s, a, b)[k] = s[a + k - 1] /\ a + k - 1 \in 1..Len(s)
<1>1. Len(s) \in Nat /\ b \in Nat
    OBVIOUS
<1>2. \A k \in a..b : s[k] \in S
    BY <1>1
<1>3. SubSeq(s, a, b) \in Seq(S)
    BY <1>1, <1>2, SubSeqProperties
<1>4. /\ Len(SubSeq(s, a, b)) = IF a <= b THEN b - a + 1 ELSE 0
      /\ \A k \in 1..(b - a + 1) : SubSeq(s, a, b)[k] = s[a + k - 1]
    BY <1>1, <1>3, SubSeqProperties
<1> QED BY <1>1, <1>3, <1>4

LEMMA ConcatMeans ==
    ASSUME NEW S, NEW s \in Seq(S), NEW t \in Seq(S)
    PROVE  /\ s \o t \in Seq(S) /\ Len(s) \in Nat /\ Len(t) \in Nat
           /\ Len(s \o t) = Len(s) + Len(t)
           /\ \A k \in 1..Len(s) : (s \o t)[k] = s[k]
           /\ \A k \in 1..Len(t) : (s \o t)[Len(s) + k] = t[k]
BY ConcatProperties

\* What is put together in three pieces is found in them.
LEMMA ThreePieces ==
    ASSUME NEW S, NEW s \in Seq(S), NEW t \in Seq(S), NEW u \in Seq(S)
    PROVE  /\ s \o t \o u \in Seq(S) /\ Len(s \o t \o u) = Len(s) + Len(t) + Len(u)
           /\ \A k \in 1..Len(s) : (s \o t \o u)[k] = s[k]
           /\ SubSeq(s \o t \o u, Len(s) + 1, Len(s) + Len(t)) = t
           /\ SubSeq(s \o t \o u, Len(s) + Len(t) + 1, Len(s) + Len(t) + Len(u)) = u
<1>0. PICK a \in Nat, b \in Nat, c \in Nat : a = Len(s) /\ b = Len(t) /\ c = Len(u)
    OBVIOUS
<1> DEFINE v == s \o t \o u
<1>1. /\ s \o t \in Seq(S) /\ Len(s \o t) = a + b
      /\ \A k \in 1..a + b : (s \o t)[k] = IF k <= a THEN s[k] ELSE t[k - a]
    BY <1>0, ConcatProperties
<1>2. /\ v \in Seq(S) /\ Len(v) = a + b + c
      /\ \A k \in 1..a + b + c : v[k] = IF k <= a + b THEN (s \o t)[k] ELSE u[k - (a + b)]
    BY <1>0, <1>1, ConcatProperties
<1> HIDE DEF v
<1>3. \A k \in 1..a : v[k] = s[k]
    BY <1>0, <1>1, <1>2
<1>4. \A k \in 1..b : v[a + k] = t[k]
    <2> TAKE k \in 1..b
    <2>1. /\ a + k \in 1..a + b /\ a + k \in 1..a + b + c
          /\ a + k <= a + b /\ ~(a + k <= a) /\ a + k - a = k
        BY <1>0
    <2>2. v[a + k] = (s \o t)[a + k]
        BY <1>2, <2>1
    <2>3. (s \o t)[a + k] = t[a + k - a]
        <3>1. PICK j \in 1..a + b : j = a + k /\ ~(j <= a)
            BY <2>1
        <3>2. (s \o t)[j] = IF j <= a THEN s[j] ELSE t[j - a]
            BY <1>1, Zenon
        <3>3. (s \o t)[j] = t[j - a]
            BY <3>1, <3>2
        <3> QED BY <3>1, <3>3
    <2> QED BY <2>1, <2>2, <2>3
<1>5. \A k \in 1..c : v[a + b + k] = u[k]
    <2> TAKE k \in 1..c
    <2>1. /\ a + b + k \in 1..a + b + c
          /\ ~(a + b + k <= a + b) /\ a + b + k - (a + b) = k
        BY <1>0
    <2>2. v[a + b + k] = u[a + b + k - (a + b)]
        BY <1>2, <2>1
    <2> QED BY <2>1, <2>2
<1>6. SubSeq(v, a + 1, a + b) = t
    <2> DEFINE w == SubSeq(v, a + 1, a + b)
    <2>0. a + 1 \in Nat \ {0} /\ a + b \in 0..Len(v) /\ a + 1 <= a + b + 1
        BY <1>2
    <2>1. /\ w \in Seq(S) /\ Len(w) = a + b - (a + 1) + 1
          /\ \A k \in 1..(a + b - (a + 1) + 1) : w[k] = v[a + 1 + k - 1]
        BY <1>2, <2>0, Part
    <2> HIDE DEF w
    <2>2. \A k \in 1..b : w[k] = t[k]
        <3> TAKE k \in 1..b
        <3>1. a + b - (a + 1) + 1 = b /\ a + 1 + k - 1 = a + k
            OBVIOUS
        <3> QED BY <1>4, <2>1, <3>1
    <2>3. w = t
        BY <1>0, <2>1, <2>2, SeqEqual
    <2> QED BY <2>3 DEF w
<1>7. SubSeq(v, a + b + 1, a + b + c) = u
    <2> DEFINE w == SubSeq(v, a + b + 1, a + b + c)
    <2>0. /\ a + b + 1 \in Nat \ {0} /\ a + b + c \in 0..Len(v)
          /\ a + b + 1 <= a + b + c + 1
        BY <1>2
    <2>1. /\ w \in Seq(S) /\ Len(w) = a + b + c - (a + b + 1) + 1
          /\ \A k \in 1..(a + b + c - (a + b + 1) + 1) : w[k] = v[a + b + 1 + k - 1]
        BY <1>2, <2>0, Part
    <2> HIDE DEF w
    <2>2. \A k \in 1..c : w[k] = u[k]
        <3> TAKE k \in 1..c
        <3>1. /\ a + b + c - (a + b + 1) + 1 = c /\ a + b + 1 + k - 1 = a + b + k
            OBVIOUS
        <3> QED BY <1>5, <2>1, <3>1
    <2>3. w = u
        BY <1>0, <2>1, <2>2, SeqEqual
    <2> QED BY <2>3 DEF w
<1> QED BY <1>0, <1>2, <1>3, <1>6, <1>7 DEF v

-----------------------------------------------------------------------------
(* Addresses *)

Octs == Address!Octet

LEMMA MaskTwice ==
    ASSUME NEW a \in Octs, NEW m \in Octs
    PROVE  Address!Xor(a, m) \in Octs /\ Address!Xor(Address!Xor(a, m), m) = a
<1>1. Address!Xor(a, m) \in Octs
    BY DEF Address!Xor, Octs, Address!Octet
<1>2. Address!Xor(Address!Xor(a, m), m) = a
    <2>1. \A x : x \in Address!Xor(Address!Xor(a, m), m) <=> x \in a
        BY DEF Address!Xor
    <2> QED BY <2>1
<1> QED BY <1>1, <1>2

\* Only the mask an octet was masked with gives it back.
LEMMA OtherMask ==
    ASSUME NEW a \in Octs, NEW m \in Octs, NEW n \in Octs, 
           Address!Xor(Address!Xor(a, m), n) = a
    PROVE  m = n
<1>1. \A x : x \in m <=> x \in n
    <2> TAKE x
    <2>1. x \in Address!Xor(Address!Xor(a, m), n) <=> x \in a
        OBVIOUS
    <2> QED BY <2>1 DEF Address!Xor
<1> QED BY <1>1

LEMMA XorOctetsMeans ==
    ASSUME NEW s \in Seq(Octs), NEW mask \in Seq(Octs), Len(s) <= Len(mask)
    PROVE  /\ Address!XorOctets(s, mask) \in Seq(Octs)
           /\ Len(Address!XorOctets(s, mask)) = Len(s)
           /\ \A k \in 1..Len(s) : Address!XorOctets(s, mask)[k] = Address!Xor(s[k], mask[k])
<1>1. Len(s) \in Nat /\ Len(mask) \in Nat
    OBVIOUS
<1>2. \A k \in 1..Len(s) : s[k] \in Octs /\ mask[k] \in Octs
    BY <1>1
<1>3. \A k \in 1..Len(s) : Address!Xor(s[k], mask[k]) \in Octs
    BY <1>2, MaskTwice
<1> QED BY <1>1, <1>3 DEF Address!XorOctets

LEMMA MaskedTwice ==
    ASSUME NEW s \in Seq(Octs), NEW mask \in Seq(Octs), Len(s) <= Len(mask)
    PROVE  Address!XorOctets(Address!XorOctets(s, mask), mask) = s
<1> DEFINE t == Address!XorOctets(s, mask)
           u == Address!XorOctets(t, mask)
<1>1. /\ t \in Seq(Octs) /\ Len(t) = Len(s)
      /\ \A k \in 1..Len(s) : t[k] = Address!Xor(s[k], mask[k])
    BY XorOctetsMeans
<1> HIDE DEF t
<1>2. /\ u \in Seq(Octs) /\ Len(u) = Len(s)
      /\ \A k \in 1..Len(s) : u[k] = Address!Xor(t[k], mask[k])
    BY <1>1, XorOctetsMeans
<1> HIDE DEF u
<1>3. \A k \in 1..Len(s) : u[k] = s[k]
    <2> TAKE k \in 1..Len(s)
    <2>1. s[k] \in Octs /\ mask[k] \in Octs
        <3>1. Len(s) \in Nat /\ Len(mask) \in Nat
            OBVIOUS
        <3> QED BY <3>1
    <2> QED BY <1>1, <1>2, <2>1, MaskTwice
<1>4. u = s
    BY <1>2, <1>3, SeqEqual
<1> QED BY <1>4 DEF u, t

\* The part of a mask that is used decides what unmasking gives.
LEMMA MaskedOnceAndElse ==
    ASSUME NEW s \in Seq(Octs), NEW mask \in Seq(Octs), NEW other \in Seq(Octs),
           Len(s) <= Len(mask), Len(s) <= Len(other),
           Address!XorOctets(Address!XorOctets(s, mask), other) = s
    PROVE  \A k \in 1..Len(s) : mask[k] = other[k]
<1> DEFINE t == Address!XorOctets(s, mask)
           u == Address!XorOctets(t, other)
<1>1. /\ t \in Seq(Octs) /\ Len(t) = Len(s)
      /\ \A k \in 1..Len(s) : t[k] = Address!Xor(s[k], mask[k])
    BY XorOctetsMeans
<1>0. u = s
    OBVIOUS
<1> HIDE DEF t
<1>2. \A k \in 1..Len(s) : u[k] = Address!Xor(t[k], other[k])
    BY <1>1, XorOctetsMeans
<1> HIDE DEF u
<1> TAKE k \in 1..Len(s)
<1>3. s[k] \in Octs /\ mask[k] \in Octs /\ other[k] \in Octs
    <3>1. Len(s) \in Nat /\ Len(mask) \in Nat /\ Len(other) \in Nat
        OBVIOUS
    <3> QED BY <3>1
<1>4. Address!Xor(Address!Xor(s[k], mask[k]), other[k]) = s[k]
    BY <1>0, <1>1, <1>2
<1> QED BY <1>3, <1>4, OtherMask

\* An address of either family, and what it is masked with.
LEMMA PatternMeans ==
    ASSUME NEW n \in Nat \ {0}, NEW p \in Address!Pattern(n)
    PROVE  p \in Seq(Octs) /\ Len(p) = n
<1>1. PICK a \in Octets, b \in Octets : p = [k \in 1..n |-> IF k = 1 THEN a ELSE b]
    BY DEF Address!Pattern
<1>2. a \in Octs /\ b \in Octs
    BY AddressAssumption DEF Address!Masks, Octs
<1> QED BY <1>1, <1>2

IpLen(family) == IF family = Address!V4 THEN 4 ELSE 16

AddrOK(a) ==
    /\ a.family \in {Address!V4, Address!V6}
    /\ a = [family |-> a.family, port |-> a.port, ip |-> a.ip]
    /\ a.port \in Seq(Octs) /\ Len(a.port) = 2
    /\ a.ip \in Seq(Octs) /\ Len(a.ip) = IpLen(a.family)

IdOK(id) == id \in Seq(Octs) /\ Len(id) = 12

LEMMA AddressesAreOK ==
    ASSUME NEW a \in Address!SocketAddr(Address!V4, 4) \cup Address!SocketAddr(Address!V6, 16)
    PROVE  AddrOK(a)
<1>1. Address!V4 # Address!V6
    BY DEF Address!V4, Address!V6
<1>2. PICK f, n : /\ (f = Address!V4 /\ n = 4) \/ (f = Address!V6 /\ n = 16)
                  /\ a \in Address!SocketAddr(f, n)
    BY Zenon
<1>3. /\ a.family = f /\ a.port \in Address!Pattern(2) /\ a.ip \in Address!Pattern(n)
      /\ a = [family |-> a.family, port |-> a.port, ip |-> a.ip]
    BY <1>2 DEF Address!SocketAddr
<1>4. n \in Nat \ {0} /\ n = IpLen(f)
    BY <1>1, <1>2 DEF IpLen
<1>5. a.port \in Seq(Octs) /\ Len(a.port) = 2
    <2>1. 2 \in Nat \ {0}
        OBVIOUS
    <2> QED BY <1>3, <2>1, PatternMeans
<1>6. a.ip \in Seq(Octs) /\ Len(a.ip) = n
    BY <1>3, <1>4, PatternMeans
<1> QED BY <1>2, <1>3, <1>4, <1>5, <1>6 DEF AddrOK

LEMMA MasksMean ==
    ASSUME NEW id, IdOK(id), NEW f \in {Address!V4, Address!V6}
    PROVE  /\ Address!PortMask \in Seq(Octs) /\ Len(Address!PortMask) = 2
           /\ Address!Mask(f, id) \in Seq(Octs) /\ Len(Address!Mask(f, id)) = IpLen(f)
           /\ f = Address!V6 => \A k \in 1..12 : Address!Mask(f, id)[4 + k] = id[k]
           /\ f = Address!V4 => Address!Mask(f, id) = Cookie
<1>1. Cookie \in Seq(Octs) /\ Len(Cookie) = 4
    <2>1. Cookie \in [1..4 -> Octs]
        BY AddressAssumption DEF Address!Masks, Octs
    <2>2. Cookie = [k \in 1..4 |-> Cookie[k]] /\ \A k \in 1..4 : Cookie[k] \in Octs
        BY <2>1
    <2> HIDE DEF Octs
    <2> QED BY <2>2
<1>2. Address!PortMask \in Seq(Octs) /\ Len(Address!PortMask) = 2
    <2>1. 2 \in 0..Len(Cookie) /\ 1 \in Nat \ {0} /\ 1 <= 2 + 1
        BY <1>1
    <2>2. SubSeq(Cookie, 1, 2) \in Seq(Octs) /\ Len(SubSeq(Cookie, 1, 2)) = 2 - 1 + 1
        BY <1>1, <2>1, Part
    <2> QED BY <2>2 DEF Address!PortMask
<1>3. /\ Cookie \o id \in Seq(Octs) /\ Len(Cookie \o id) = 16
      /\ \A k \in 1..12 : (Cookie \o id)[4 + k] = id[k]
    <2>0. Cookie \in Seq(Octs) /\ id \in Seq(Octs)
        BY <1>1 DEF IdOK
    <2>1. Len(id) = 12
        BY DEF IdOK
    <2>2. /\ Cookie \o id \in Seq(Octs) /\ Len(Cookie \o id) = Len(Cookie) + Len(id)
          /\ \A k \in 1..Len(id) : (Cookie \o id)[Len(Cookie) + k] = id[k]
        BY <2>0, ConcatMeans
    <2>3. \A k \in 1..12 : (Cookie \o id)[4 + k] = id[k]
        BY <1>1, <2>1, <2>2, Zenon
    <2>4. Len(Cookie \o id) = 16
        BY <1>1, <2>1, <2>2
    <2> QED BY <2>2, <2>3, <2>4
<1>4. Address!V4 # Address!V6
    BY DEF Address!V4, Address!V6
<1> QED BY <1>1, <1>2, <1>3, <1>4 DEF Address!Mask, IpLen

\* What a parser finds in the three pieces of a value.
LEMMA BuiltParts ==
    ASSUME NEW a, AddrOK(a), NEW id, IdOK(id), NEW v, v = Address!BuildXorAddress(a, id)
    PROVE  /\ v \in Seq(Octs) /\ Len(v) = Address!Size(a.family) /\ v[2] = a.family
           /\ Address!Parts(v) =
                 [family |-> a.family,
                  port |-> Address!XorOctets(a.port, Address!PortMask),
                  ip |-> Address!XorOctets(a.ip, Address!Mask(a.family, id))]
<1> DEFINE h == <<Address!Zero, a.family>>
           p == Address!XorOctets(a.port, Address!PortMask)
           q == Address!XorOctets(a.ip, Address!Mask(a.family, id))
           n == IpLen(a.family)
<1>1. a.family \in {Address!V4, Address!V6}
    BY DEF AddrOK
<1>2. h \in Seq(Octs) /\ Len(h) = 2 /\ h[2] = a.family
    <2>1. Address!Zero \in Octs /\ a.family \in Octs
        BY <1>1 DEF Octs, Address!Octet, Address!Zero, Address!V4, Address!V6
    <2> QED BY <2>1
<1>3. p \in Seq(Octs) /\ Len(p) = 2
    <2>1. /\ a.port \in Seq(Octs) /\ Len(a.port) = 2
          /\ Address!PortMask \in Seq(Octs) /\ Len(Address!PortMask) = 2
        BY <1>1, MasksMean DEF AddrOK
    <2> QED BY <2>1, XorOctetsMeans
<1>4. q \in Seq(Octs) /\ Len(q) = n
    <2>1. /\ a.ip \in Seq(Octs) /\ Len(a.ip) = n
          /\ Address!Mask(a.family, id) \in Seq(Octs) /\ Len(Address!Mask(a.family, id)) = n
          /\ n \in {4, 16}
        BY <1>1, MasksMean DEF AddrOK, IpLen
    <2> QED BY <2>1, XorOctetsMeans
<1>5. v = h \o p \o q
    BY DEF Address!BuildXorAddress
<1>6. n \in Nat /\ 4 + n = Address!Size(a.family) /\ Address!Size(a.family) >= 8
    BY DEF IpLen, Address!Size
<1> HIDE DEF h, p, q, n
<1>7. /\ v \in Seq(Octs) /\ Len(v) = 2 + 2 + n
      /\ \A k \in 1..2 : v[k] = h[k]
      /\ SubSeq(v, 2 + 1, 2 + 2) = p
      /\ SubSeq(v, 2 + 2 + 1, 2 + 2 + n) = q
    <2>1. h \in Seq(Octs) /\ p \in Seq(Octs) /\ q \in Seq(Octs)
        BY <1>2, <1>3, <1>4
    <2>2. /\ v \in Seq(Octs) /\ Len(v) = Len(h) + Len(p) + Len(q)
          /\ \A k \in 1..Len(h) : v[k] = h[k]
          /\ SubSeq(v, Len(h) + 1, Len(h) + Len(p)) = p
          /\ SubSeq(v, Len(h) + Len(p) + 1, Len(h) + Len(p) + Len(q)) = q
        <3>1. /\ h \o p \o q \in Seq(Octs) /\ Len(h \o p \o q) = Len(h) + Len(p) + Len(q)
              /\ \A k \in 1..Len(h) : (h \o p \o q)[k] = h[k]
              /\ SubSeq(h \o p \o q, Len(h) + 1, Len(h) + Len(p)) = p
              /\ SubSeq(h \o p \o q, Len(h) + Len(p) + 1, Len(h) + Len(p) + Len(q)) = q
            BY <2>1, ThreePieces
        <3> QED BY <1>5, <3>1, Zenon
    <2>3. Len(h) = 2 /\ Len(p) = 2 /\ Len(q) = n
        BY <1>2, <1>3, <1>4
    <2> QED BY <2>2, <2>3, Zenon
<1>8. /\ Len(v) = Address!Size(a.family) /\ v[2] = a.family
      /\ SubSeq(v, 3, 4) = p /\ SubSeq(v, 5, Address!Size(a.family)) = q
    BY <1>2, <1>6, <1>7
<1>9. Address!Parts(v) = [family |-> a.family, port |-> p, ip |-> q]
    <2>1. ~(Len(v) < 4 \/ v[2] \notin {Address!V4, Address!V6} \/ Len(v) < Address!Size(v[2]))
        <3>1. Address!Size(a.family) \in Nat
            BY DEF Address!Size
        <3> QED BY <1>1, <1>6, <1>8, <3>1
    <2> QED BY <1>8, <2>1 DEF Address!Parts
<1> QED BY <1>7, <1>8, <1>9 DEF p, q

LEMMA BuiltIsParsed ==
    ASSUME NEW a, AddrOK(a), NEW id, IdOK(id), NEW other, IdOK(other),
           NEW p, p = Address!ParseXorAddress(Address!BuildXorAddress(a, id), other)
    PROVE  /\ p.port = a.port
           /\ a.family = Address!V4 => p.ip = a.ip
           /\ id = other => p = a
           /\ a.family = Address!V6 /\ p.ip = a.ip => id = other
<1> DEFINE q == Address!XorOctets(a.port, Address!PortMask)
           r == Address!XorOctets(a.ip, Address!Mask(a.family, id))
           s == Address!XorOctets(r, Address!Mask(a.family, other))
           f == a.family
<1>1. f \in {Address!V4, Address!V6} /\ f # Address!Zero
    BY DEF AddrOK, Address!V4, Address!V6, Address!Zero
<1>2. Address!Parts(Address!BuildXorAddress(a, id)) = [family |-> f, port |-> q, ip |-> r]
    BY BuiltParts
<1> HIDE DEF q, r
<1>3. p = [family |-> f, port |-> Address!XorOctets(q, Address!PortMask), ip |-> s]
    <2>1. [family |-> f, port |-> q, ip |-> r] # Address!Error
        BY <1>1 DEF Address!Error
    <2>2. p = [[family |-> f, port |-> q, ip |-> r] EXCEPT
                   !.port = Address!XorOctets(@, Address!PortMask),
                   !.ip = Address!XorOctets(@, Address!Mask(f, other))]
        BY <1>2, <2>1 DEF Address!ParseXorAddress
    <2> QED BY <2>2
<1> USE DEF q, r
<1>4. Address!XorOctets(q, Address!PortMask) = a.port
    <2>1. /\ a.port \in Seq(Octs) /\ Len(a.port) = 2
          /\ Address!PortMask \in Seq(Octs) /\ Len(Address!PortMask) = 2
        BY <1>1, MasksMean DEF AddrOK
    <2> QED BY <2>1, MaskedTwice
<1>5. /\ a.ip \in Seq(Octs) /\ Len(a.ip) = IpLen(f) /\ IpLen(f) \in {4, 16}
      /\ Address!Mask(f, id) \in Seq(Octs) /\ Len(Address!Mask(f, id)) = IpLen(f)
      /\ Address!Mask(f, other) \in Seq(Octs) /\ Len(Address!Mask(f, other)) = IpLen(f)
    BY <1>1, MasksMean DEF AddrOK, IpLen
<1>6. Address!Mask(f, id) = Address!Mask(f, other) => s = a.ip
    BY <1>5, MaskedTwice
<1>7. f = Address!V4 => Address!Mask(f, id) = Address!Mask(f, other)
    BY <1>1, MasksMean
<1>8. ASSUME f = Address!V6, s = a.ip
      PROVE  id = other
    <2>1. \A k \in 1..16 : Address!Mask(f, id)[k] = Address!Mask(f, other)[k]
        <3>1. IpLen(f) = 16
            BY <1>8 DEF IpLen, Address!V4, Address!V6
        <3> QED BY <1>5, <1>8, <3>1, MaskedOnceAndElse
    <2>2. \A k \in 1..12 : id[k] = other[k]
        <3>1. \A k \in 1..12 : 4 + k \in 1..16
            OBVIOUS
        <3>2. \A k \in 1..12 : Address!Mask(f, id)[4 + k] = id[k]
            BY <1>1, <1>8, MasksMean
        <3>3. \A k \in 1..12 : Address!Mask(f, other)[4 + k] = other[k]
            BY <1>1, <1>8, MasksMean
        <3> QED BY <2>1, <3>1, <3>2, <3>3
    <2> QED BY <2>2, SeqEqual DEF IdOK
<1> HIDE DEF s, q
<1>9. p.port = a.port /\ p.ip = s /\ p.family = f
    BY <1>3, <1>4
<1>10. id = other => p = a
    BY <1>3, <1>4, <1>6 DEF AddrOK
<1> QED BY <1>6, <1>7, <1>8, <1>9, <1>10

\* Whatever the octets, a parser that answers had a whole address.
LEMMA ParsedIsWhole ==
    ASSUME NEW v \in Seq(Octs), NEW id, IdOK(id),
           NEW p \in {Address!ParseXorAddress(v, id), Address!ParseMappedAddress(v)},
           p # Address!Error
    PROVE  /\ p.family \in {Address!V4, Address!V6} /\ p.family = v[2]
           /\ Len(v) >= Address!Size(v[2]) /\ Len(v) >= 4
           /\ Len(p.port) = 2 /\ Len(p.ip) = IpLen(p.family)
<1> DEFINE q == Address!Parts(v)
           f == v[2]
           port == SubSeq(v, 3, 4)
           ip == SubSeq(v, 5, Address!Size(f))
<1>1. q # Address!Error
    BY DEF Address!ParseXorAddress, Address!ParseMappedAddress
<1>2. /\ ~(Len(v) < 4) /\ f \in {Address!V4, Address!V6} /\ ~(Len(v) < Address!Size(f))
      /\ q = [family |-> f, port |-> port, ip |-> ip]
    BY <1>1 DEF Address!Parts
<1>3. Len(v) \in Nat /\ Address!Size(f) \in Nat /\ IpLen(f) \in 1..16
      /\ Address!Size(f) = IpLen(f) + 4
    BY DEF Address!Size, IpLen
<1>4. port \in Seq(Octs) /\ Len(port) = 2
    <2>1. 4 \in 0..Len(v)
        BY <1>2, <1>3
    <2>2. port \in Seq(Octs) /\ Len(port) = 4 - 3 + 1
        BY <2>1, Part
    <2> QED BY <2>2
<1>5. ip \in Seq(Octs) /\ Len(ip) = IpLen(f)
    <2>1. Address!Size(f) \in 0..Len(v) /\ 5 <= Address!Size(f) + 1
        <3>1. PICK n \in Nat, size \in Nat, l \in 1..16 :
                 /\ n = Len(v) /\ size = Address!Size(f) /\ size = l + 4 /\ ~(n < size)
            <4> HIDE DEF f
            <4> QED BY <1>2, <1>3
        <3>2. size \in 0..n /\ 5 <= size + 1
            BY <3>1
        <3> QED BY <3>1, <3>2, Zenon
    <2>2. ip \in Seq(Octs) /\ Len(ip) = Address!Size(f) - 5 + 1
        <3>1. PICK size \in 0..Len(v) : size = Address!Size(f) /\ 5 <= size + 1
            BY <2>1
        <3>2. 5 \in Nat /\ 5 >= 1
            OBVIOUS
        <3>3. /\ SubSeq(v, 5, size) \in Seq(Octs)
              /\ Len(SubSeq(v, 5, size)) = size - 5 + 1
            <4> HIDE DEF f, ip
            <4> QED BY <3>1, <3>2, Part
        <3> QED BY <3>1, <3>3
    <2>3. Address!Size(f) - 5 + 1 = IpLen(f)
        <3>1. ASSUME NEW l \in 1..16, NEW size, size = l + 4
              PROVE  size - 5 + 1 = l
            BY <3>1
        <3> HIDE DEF f
        <3>2. IpLen(f) \in 1..16 /\ Address!Size(f) = IpLen(f) + 4
            BY <1>3, Zenon
        <3> QED BY <3>1, <3>2, Zenon
    <2> HIDE DEF f, ip
    <2> QED BY <2>2, <2>3, Zenon
<1> HIDE DEF q, f, port, ip
<1>6. CASE p = Address!ParseMappedAddress(v)
    <2>1. p = q
        BY <1>6 DEF Address!ParseMappedAddress, q
    <2> QED BY <1>2, <1>3, <1>4, <1>5, <2>1 DEF f
<1>7. CASE p = Address!ParseXorAddress(v, id)
    <2> DEFINE xport == Address!XorOctets(port, Address!PortMask)
               xip == Address!XorOctets(ip, Address!Mask(f, id))
    <2>1. p = [q EXCEPT !.port = Address!XorOctets(@, Address!PortMask),
                        !.ip = Address!XorOctets(@, Address!Mask(q.family, id))]
        BY <1>1, <1>7 DEF Address!ParseXorAddress, q
    <2>2. p = [family |-> f, port |-> xport, ip |-> xip]
        BY <1>2, <2>1
    <2>3. Len(xport) = 2
        <3>1. Address!PortMask \in Seq(Octs) /\ Len(Address!PortMask) = 2
            BY <1>2, MasksMean
        <3> QED BY <1>4, <3>1, XorOctetsMeans
    <2>4. Len(xip) = IpLen(f)
        <3>1. Address!Mask(f, id) \in Seq(Octs) /\ Len(Address!Mask(f, id)) = IpLen(f)
            BY <1>2, MasksMean
        <3>2. Len(ip) <= Len(Address!Mask(f, id))
            BY <1>3, <1>5, <3>1
        <3>3. Len(xip) = Len(ip)
            BY <1>5, <3>1, <3>2, XorOctetsMeans
        <3> QED BY <1>5, <3>3
    <2> HIDE DEF xport, xip
    <2> QED BY <1>2, <1>3, <2>2, <2>3, <2>4 DEF f
<1> QED BY <1>6, <1>7

SocketAddrs == Address!SocketAddr(Address!V4, 4) \cup Address!SocketAddr(Address!V6, 16)

AddressInv ==
    /\ addr \in SocketAddrs /\ txid \in Address!Pattern(12)
    /\ value \in Seq(Octs)
    /\ phase \in {"chosen", "built", "cut"}
    /\ phase = "chosen" => value = <<>>
    /\ phase = "built" => value = Address!BuildXorAddress(addr, txid)
    /\ phase = "cut" => \/ Len(value) < Address!Size(addr.family)
                        \/ value[2] # addr.family

LEMMA AddressInvMeans ==
    ASSUME AddressInv
    PROVE  AddrOK(addr) /\ IdOK(txid)
<1>1. 12 \in Nat \ {0}
    OBVIOUS
<1> QED BY <1>1, AddressesAreOK, PatternMeans DEF AddressInv, SocketAddrs, IdOK

LEMMA AddressInit == Address!Init => AddressInv
BY DEF Address!Init, AddressInv, SocketAddrs

LEMMA AddressNext == AddressInv /\ Address!Next => AddressInv'
<1> SUFFICES ASSUME AddressInv, Address!Next PROVE AddressInv'
    OBVIOUS
<1>1. AddrOK(addr) /\ IdOK(txid)
    BY AddressInvMeans
<1>2. CASE Address!Build
    <2>1. Address!BuildXorAddress(addr, txid) \in Seq(Octs)
        BY <1>1, BuiltParts
    <2> QED BY <1>2, <2>1 DEF Address!Build, AddressInv
<1>3. CASE Address!Cut
    <2>1. /\ value = Address!BuildXorAddress(addr, txid) /\ value \in Seq(Octs)
          /\ addr' = addr /\ txid' = txid /\ phase' = "cut"
        BY <1>3 DEF Address!Cut, AddressInv
    <2>2. Len(value) = Address!Size(addr.family) /\ value[2] = addr.family
        BY <1>1, <2>1, BuiltParts
    <2>3. Address!Size(addr.family) \in Nat /\ Address!Size(addr.family) >= 8
        BY DEF Address!Size
    <2>4. CASE \E k \in 0..Len(value) - 1 : value' = SubSeq(value, 1, k)
        <3>1. PICK k \in 0..Len(value) - 1 : value' = SubSeq(value, 1, k)
            BY <2>4
        <3>2. k \in 0..Len(value) /\ k < Len(value) /\ 1 <= k + 1
            BY <2>2, <2>3
        <3>3. SubSeq(value, 1, k) \in Seq(Octs) /\ Len(SubSeq(value, 1, k)) = k - 1 + 1
            BY <2>1, <3>2, Part
        <3>4. value' \in Seq(Octs) /\ Len(value') = k
            BY <3>1, <3>3
        <3> QED BY <2>1, <2>2, <3>2, <3>4 DEF AddressInv
    <2>5. CASE \E f \in (SUBSET {0, 1}) \ {addr.family} : value' = [value EXCEPT ![2] = f]
        <3>1. PICK f \in (SUBSET {0, 1}) \ {addr.family} : value' = [value EXCEPT ![2] = f]
            BY <2>5
        <3>2. f \in Octs /\ 2 \in 1..Len(value)
            BY <2>2, <2>3 DEF Octs, Address!Octet
        <3>3. value' \in Seq(Octs) /\ value'[2] = f
            BY <2>1, <3>1, <3>2, ExceptSeq
        <3>4. value'[2] # addr'.family
            <4>1. f # addr.family
                BY <3>1
            <4>2. addr' = addr /\ value'[2] = f
                BY <2>1, <3>3
            <4> QED BY <4>1, <4>2, Zenon
        <3>5. phase' # "chosen" /\ phase' # "built" /\ phase' \in {"chosen", "built", "cut"}
            BY <2>1
        <3> QED BY <2>1, <3>3, <3>4, <3>5, Zenon DEF AddressInv
    <2> QED BY <1>3, <2>4, <2>5 DEF Address!Cut
<1>4. CASE Address!Done
    BY <1>4 DEF Address!Done, Address!vars, AddressInv
<1> QED BY <1>2, <1>3, <1>4 DEF Address!Next

LEMMA AddressSurvives ==
    ASSUME AddressInv
    PROVE  Address!RoundTrip /\ Address!IdMatters /\ Address!WholeOrError
<1>1. AddrOK(addr) /\ IdOK(txid)
    BY AddressInvMeans
<1>2. Address!RoundTrip
    BY <1>1, BuiltIsParsed DEF Address!RoundTrip, AddressInv
<1>3. Address!IdMatters
    <2> SUFFICES ASSUME phase = "built", NEW id \in Address!Pattern(12) \ {txid},
                        NEW p, p = Address!ParseXorAddress(value, id)
                 PROVE  p.port = addr.port /\ (p.ip = addr.ip <=> addr.family = Address!V4)
        BY DEF Address!IdMatters
    <2>1. IdOK(id)
        <3>1. 12 \in Nat \ {0}
            OBVIOUS
        <3> QED BY <3>1, PatternMeans DEF IdOK
    <2>2. p = Address!ParseXorAddress(Address!BuildXorAddress(addr, txid), id)
        BY DEF AddressInv
    <2>3. addr.family \in {Address!V4, Address!V6}
        BY <1>1 DEF AddrOK
    <2> QED BY <1>1, <2>1, <2>2, <2>3, BuiltIsParsed
<1>4. Address!WholeOrError
    <2> SUFFICES ASSUME NEW p \in {Address!ParseXorAddress(value, txid),
                                   Address!ParseMappedAddress(value)},
                        p # Address!Error
                 PROVE  /\ p.family \in {Address!V4, Address!V6} /\ Len(p.port) = 2
                        /\ Len(p.ip) = (IF p.family = Address!V4 THEN 4 ELSE 16)
                        /\ phase = "cut" => value[2] # addr.family
        BY DEF Address!WholeOrError
    <2>1. value \in Seq(Octs)
        BY DEF AddressInv
    <2>2. /\ p.family \in {Address!V4, Address!V6} /\ p.family = value[2]
          /\ Len(value) >= Address!Size(value[2])
          /\ Len(p.port) = 2 /\ Len(p.ip) = IpLen(p.family)
        BY <1>1, <2>1, ParsedIsWhole
    <2>3. phase = "cut" => value[2] # addr.family
        <3>1. Len(value) \in Nat /\ Address!Size(addr.family) \in Nat
            BY <2>1 DEF Address!Size
        <3> QED BY <2>2, <3>1 DEF AddressInv
    <2> QED BY <2>2, <2>3 DEF IpLen
<1> QED BY <1>2, <1>3, <1>4

-----------------------------------------------------------------------------
(* Responses *)

\* Indices have a first and a last.
LEMMA FirstAndLast ==
    ASSUME NEW n \in Nat, NEW T \in SUBSET (1..n), T # {}
    PROVE  /\ \E x \in T : \A y \in T : x <= y
           /\ \E x \in T : \A y \in T : x >= y
<1> DEFINE R == OpToRel(<, Nat)
<1>1. IsWellFoundedOn(R, Nat)
    BY NatLessThanWellFounded
<1>2. \A x, y \in Nat : (x < y) => <<x, y>> \in R
    BY DEF OpToRel
<1> HIDE DEF R
<1>3. ASSUME NEW U \in SUBSET Nat, U # {}
      PROVE  \E x \in U : \A y \in U : x <= y
    <2>1. PICK x \in U : \A y \in U : ~ (<<y, x>> \in R)
        BY <1>1, <1>3, WFMin
    <2>2. \A y \in U : y \in Nat /\ x \in Nat /\ ~(y < x)
        BY <1>2, <2>1
    <2> QED BY <2>1, <2>2
<1>4. \E x \in T : \A y \in T : x <= y
    BY <1>3
<1> DEFINE U == {n - y : y \in T}
<1>5. U \in SUBSET Nat /\ U # {}
    <2>1. \A y \in T : n - y \in Nat
        OBVIOUS
    <2> QED BY <2>1
<1>6. PICK u \in U : \A v \in U : u <= v
    BY <1>3, <1>5
<1>7. PICK x \in T : u = n - x
    BY <1>6
<1>8. \A y \in T : n - x <= n - y
    BY <1>6, <1>7
<1>9. \A y \in T : x >= y
    BY <1>8
<1> QED BY <1>4, <1>7, <1>9

\* Positions permuted are still all of them.
LEMMA OneToOneIsOnto ==
    ASSUME NEW n \in Nat, NEW p \in [1..n -> 1..n],
           \A j, k \in 1..n : p[j] = p[k] => j = k,
           NEW m \in 1..n
    PROVE  \E j \in 1..n : p[j] = m
<1> SUFFICES ASSUME \A j \in 1..n : p[j] # m PROVE FALSE
    OBVIOUS
<1> DEFINE S == 1..n
           T == S \ {m}
<1>1. IsFiniteSet(S) /\ Cardinality(S) \in Nat
    <2>1. \A k \in Nat : IsFiniteSet(1..k)
        BY FS_Interval
    <2> QED BY <2>1, FS_CardinalityType
<1>2. IsFiniteSet(T) /\ Cardinality(T) = Cardinality(S) - 1
    BY <1>1, FS_RemoveElement
<1>3. p \in [S -> T]
    OBVIOUS
<1>4. Cardinality(T) < Cardinality(S)
    BY <1>1, <1>2
<1> HIDE DEF S, T
<1>5. \E j, k \in S : j # k /\ p[j] = p[k]
    BY <1>1, <1>2, <1>3, <1>4, FS_PigeonHole
<1> QED BY <1>5 DEF S

LEMMA FirstOfMeans ==
    ASSUME NEW S, NEW list \in Seq(S), NEW types, NEW k, k = Response!FirstOf(list, types)
    PROVE  \/ k = 0 /\ \A j \in 1..Len(list) : list[j].type \notin types
           \/ k \in 1..Len(list) /\ list[k].type \in types
<1> DEFINE T == {j \in 1..Len(list) : list[j].type \in types}
<1>1. k = IF T # {} THEN Response!Min(T) ELSE 0
    BY DEF Response!FirstOf, Response!SelectInSeq
<1>2. T # {} => k = CHOOSE x \in T : \A y \in T : x <= y
    BY <1>1 DEF Response!Min
<1>3. Len(list) \in Nat /\ T \in SUBSET (1..Len(list))
    OBVIOUS
<1>4. T = {} => \A j \in 1..Len(list) : list[j].type \notin types
    OBVIOUS
<1> HIDE DEF T
<1>5. T # {} => k \in T
    <2>1. T # {} => \E x \in T : \A y \in T : x <= y
        BY <1>3, FirstAndLast
    <2> QED BY <1>2, <2>1
<1> QED BY <1>1, <1>4, <1>5 DEF T

LEMMA LastOfMeans ==
    ASSUME NEW S, NEW list \in Seq(S), NEW t, NEW k, k = Response!LastOf(list, t)
    PROVE  \/ k = 0 /\ \A j \in 1..Len(list) : list[j].type # t
           \/ k \in 1..Len(list) /\ list[k].type = t
<1> DEFINE T == {j \in 1..Len(list) : list[j].type = t}
<1>1. k = IF T # {} THEN Response!Max(T) ELSE 0
    BY DEF Response!LastOf, Response!SelectLastInSeq
<1>2. T # {} => k = CHOOSE x \in T : \A y \in T : x >= y
    BY <1>1 DEF Response!Max
<1>3. Len(list) \in Nat /\ T \in SUBSET (1..Len(list))
    OBVIOUS
<1>4. T = {} => \A j \in 1..Len(list) : list[j].type # t
    OBVIOUS
<1> HIDE DEF T
<1>5. T # {} => k \in T
    <2>1. T # {} => \E x \in T : \A y \in T : x >= y
        BY <1>3, FirstAndLast
    <2> QED BY <1>2, <2>1
<1> QED BY <1>1, <1>4, <1>5 DEF T

-----------------------------------------------------------------------------
ResponseInv == class \in Response!Classes /\ attrs \in Seq(Response!Attributes)

LEMMA ResponseInit == Response!Init => ResponseInv
BY DEF Response!Init, ResponseInv

LEMMA ResponseNext == ResponseInv /\ Response!Next => ResponseInv'
<1> SUFFICES ASSUME ResponseInv, Response!Next PROVE ResponseInv'
    OBVIOUS
<1>1. CASE Response!Add
    BY <1>1, AppendProperties DEF Response!Add, ResponseInv
<1>2. CASE Response!Complete
    BY <1>2 DEF Response!Complete, Response!vars, ResponseInv
<1> QED BY <1>1, <1>2 DEF Response!Next

\* Two attribute lists say the same of some types: one attribute at most, and
\* both have it.
Same(one, other, types) ==
    \/ /\ \A k \in 1..Len(one) : one[k].type \notin types
       /\ \A k \in 1..Len(other) : other[k].type \notin types
    \/ \E j \in 1..Len(one), k \in 1..Len(other) :
          /\ one[j] = other[k]
          /\ \A m \in 1..Len(one) : one[m].type \in types <=> m = j
          /\ \A m \in 1..Len(other) : other[m].type \in types <=> m = k

LEMMA SameIsFound ==
    ASSUME NEW S, NEW one \in Seq(S), NEW other \in Seq(S), NEW types, Same(one, other, types)
    PROVE  LET j == Response!FirstOf(one, types)
               k == Response!FirstOf(other, types)
           IN  (j = 0 /\ k = 0) \/ (j # 0 /\ k # 0 /\ one[j] = other[k])
<1> DEFINE j == Response!FirstOf(one, types)
           k == Response!FirstOf(other, types)
<1>1. \/ j = 0 /\ \A m \in 1..Len(one) : one[m].type \notin types
      \/ j \in 1..Len(one) /\ one[j].type \in types
    BY FirstOfMeans
<1>2. \/ k = 0 /\ \A m \in 1..Len(other) : other[m].type \notin types
      \/ k \in 1..Len(other) /\ other[k].type \in types
    BY FirstOfMeans
<1>3. 0 \notin 1..Len(one) /\ 0 \notin 1..Len(other)
    OBVIOUS
<1> HIDE DEF j, k
<1> SUFFICES (j = 0 /\ k = 0) \/ (j # 0 /\ k # 0 /\ one[j] = other[k])
    BY DEF j, k
<1> QED BY <1>1, <1>2, <1>3, Zenon DEF Same

LEMMA SameIsFoundLast ==
    ASSUME NEW S, NEW one \in Seq(S), NEW other \in Seq(S), NEW t, Same(one, other, {t})
    PROVE  LET j == Response!LastOf(one, t)
               k == Response!LastOf(other, t)
           IN  /\ (j = 0 /\ k = 0) \/ (j # 0 /\ k # 0 /\ one[j] = other[k])
               /\ Response!Decodable(one, t) <=> Response!Decodable(other, t)
<1> DEFINE j == Response!LastOf(one, t)
           k == Response!LastOf(other, t)
<1>1. \/ j = 0 /\ \A m \in 1..Len(one) : one[m].type # t
      \/ j \in 1..Len(one) /\ one[j].type = t
    BY LastOfMeans
<1>2. \/ k = 0 /\ \A m \in 1..Len(other) : other[m].type # t
      \/ k \in 1..Len(other) /\ other[k].type = t
    BY LastOfMeans
<1>3. 0 \notin 1..Len(one) /\ 0 \notin 1..Len(other)
    OBVIOUS
<1> HIDE DEF j, k
<1>4. \A x : x \in {t} <=> x = t
    OBVIOUS
<1>5. (j = 0 /\ k = 0) \/ (j # 0 /\ k # 0 /\ one[j] = other[k])
    BY <1>1, <1>2, <1>3, <1>4, Zenon DEF Same
<1>6. Response!Decodable(one, t) <=> Response!Decodable(other, t)
    BY <1>4, Zenon DEF Same, Response!Decodable
<1> QED BY <1>5, <1>6 DEF j, k

\* A type that comes at most once is found in any order.
LEMMA ReorderedIsSame ==
    ASSUME NEW S, NEW one \in Seq(S), NEW other \in Response!Reordered(one), NEW types,
           \A j, k \in 1..Len(one) : one[j].type \in types /\ one[k].type \in types => j = k
    PROVE  other \in Seq(S) /\ Same(other, one, types)
<1>1. PICK n \in Nat : n = Len(one)
    OBVIOUS
<1>2. PICK p \in [1..n -> 1..n] :
         /\ \A j, k \in 1..n : p[j] = p[k] => j = k
         /\ other = [k \in 1..n |-> one[p[k]]]
    BY <1>1 DEF Response!Reordered
<1>3. /\ other \in Seq(S) /\ Len(other) = n
      /\ \A k \in 1..n : p[k] \in 1..n /\ other[k] = one[p[k]]
    <2>1. \A k \in 1..n : p[k] \in 1..n /\ one[p[k]] \in S
        BY <1>1
    <2> QED BY <1>2, <2>1
<1>4. CASE \A k \in 1..n : one[k].type \notin types
    BY <1>1, <1>3, <1>4 DEF Same
<1>5. CASE \E k \in 1..n : one[k].type \in types
    <2>1. PICK k \in 1..n : one[k].type \in types
        BY <1>5
    <2>2. PICK j \in 1..n : p[j] = k
        BY <1>2, OneToOneIsOnto
    <2>3. other[j] = one[k]
        BY <1>3, <2>2
    <2>4. \A m \in 1..n : one[m].type \in types <=> m = k
        BY <1>1, <2>1
    <2>5. \A m \in 1..n : other[m].type \in types <=> m = j
        <3> TAKE m \in 1..n
        <3>1. other[m].type \in types <=> p[m] = k
            BY <1>3, <2>4
        <3> QED BY <1>2, <2>2, <3>1
    <2>6. Same(other, one, types)
        <3>1. j \in 1..Len(other) /\ k \in 1..Len(one)
            BY <1>1, <1>3
        <3>2. \A m \in 1..Len(other) : other[m].type \in types <=> m = j
            BY <1>3, <2>5
        <3>3. \A m \in 1..Len(one) : one[m].type \in types <=> m = k
            BY <1>1, <2>4
        <3> QED BY <2>3, <3>1, <3>2, <3>3, Zenon DEF Same
    <2> QED BY <1>3, <2>6
<1> QED BY <1>3, <1>4, <1>5

LEMMA OrderDoesNotMatter == ResponseInv => Response!OrderIrrelevant
<1> SUFFICES ASSUME ResponseInv, Response!Distinct(attrs), ~Response!BothForms(attrs),
                    NEW list \in Response!Reordered(attrs)
             PROVE  Response!Outcomes(list) = Response!Outcomes(attrs)
    BY DEF Response!OrderIrrelevant
<1> DEFINE S == Response!Attributes
           mapped == {"XOR_MAPPED_ADDRESS", "MAPPED_ADDRESS"}
<1>1. attrs \in Seq(S)
    BY DEF ResponseInv
<1>2. \A t : \A j, k \in 1..Len(attrs) :
         attrs[j].type \in {t} /\ attrs[k].type \in {t} => j = k
    BY DEF Response!Distinct
<1>3. \A t : list \in Seq(S) /\ Same(list, attrs, {t})
    BY <1>1, <1>2, ReorderedIsSame
<1>4. Same(list, attrs, mapped)
    <2>1. ASSUME NEW j \in 1..Len(attrs), NEW k \in 1..Len(attrs),
                 attrs[j].type \in mapped, attrs[k].type \in mapped
          PROVE  attrs[j].type = attrs[k].type
        BY <2>1 DEF Response!BothForms, Response!TypesOf
    <2>2. \A j, k \in 1..Len(attrs) : attrs[j].type \in mapped /\ attrs[k].type \in mapped => j = k
        BY <2>1 DEF Response!Distinct
    <2> HIDE DEF mapped
    <2> QED BY <1>1, <2>2, ReorderedIsSame
<1> HIDE DEF S
<1>5. ASSUME NEW t
      PROVE  LET j == Response!LastOf(list, t)
                 k == Response!LastOf(attrs, t)
             IN  /\ (j = 0 /\ k = 0) \/ (j # 0 /\ k # 0 /\ list[j] = attrs[k])
                 /\ Response!Decodable(list, t) <=> Response!Decodable(attrs, t)
    BY <1>1, <1>3, SameIsFoundLast
<1>6. Response!AllocateSuccess(list) = Response!AllocateSuccess(attrs)
    <2> DEFINE t == "XOR_RELAYED_ADDRESS"
    <2>1. LET j == Response!LastOf(list, t)
              k == Response!LastOf(attrs, t)
          IN  /\ (j = 0 /\ k = 0) \/ (j # 0 /\ k # 0 /\ list[j] = attrs[k])
              /\ Response!Decodable(list, t) <=> Response!Decodable(attrs, t)
        BY <1>5
    <2> QED BY <2>1, Zenon DEF Response!AllocateSuccess
<1>7. Response!AllocateError(list) = Response!AllocateError(attrs)
    <2> DEFINE c == Response!LastOf(list, "ERROR_CODE")
               d == Response!LastOf(attrs, "ERROR_CODE")
               r == Response!LastOf(list, "REALM")
               q == Response!LastOf(attrs, "REALM")
               n == Response!LastOf(list, "NONCE")
               m == Response!LastOf(attrs, "NONCE")
    <2>1. /\ (c = 0 /\ d = 0) \/ (c # 0 /\ d # 0 /\ list[c] = attrs[d])
          /\ Response!Decodable(list, "ERROR_CODE") <=> Response!Decodable(attrs, "ERROR_CODE")
        BY <1>5
    <2>2. (r = 0 /\ q = 0) \/ (r # 0 /\ q # 0 /\ list[r] = attrs[q])
        BY <1>5
    <2>3. (n = 0 /\ m = 0) \/ (n # 0 /\ m # 0 /\ list[n] = attrs[m])
        BY <1>5
    <2>4. Response!CodeOf(list, c) = Response!CodeOf(attrs, d)
        BY <2>1, Zenon DEF Response!CodeOf
    <2>5. Response!AllocateError(list) =
              IF ~Response!Decodable(list, "ERROR_CODE") THEN Response!Malformed
              ELSE IF Response!CodeOf(list, c) # 401
                   THEN [is |-> "error", code |-> Response!CodeOf(list, c)]
              ELSE IF r = 0 \/ n = 0 THEN Response!Malformed
              ELSE [is |-> "unauthorized", realm |-> list[r].value, nonce |-> list[n].value]
        BY Zenon DEF Response!AllocateError
    <2>6. Response!AllocateError(attrs) =
              IF ~Response!Decodable(attrs, "ERROR_CODE") THEN Response!Malformed
              ELSE IF Response!CodeOf(attrs, d) # 401
                   THEN [is |-> "error", code |-> Response!CodeOf(attrs, d)]
              ELSE IF q = 0 \/ m = 0 THEN Response!Malformed
              ELSE [is |-> "unauthorized", realm |-> attrs[q].value, nonce |-> attrs[m].value]
        BY Zenon DEF Response!AllocateError
    <2> HIDE DEF c, d, r, q, n, m
    <2>7. CASE r = 0 \/ n = 0
        BY <2>1, <2>2, <2>3, <2>4, <2>5, <2>6, <2>7
    <2>8. CASE ~(r = 0 \/ n = 0)
        <3>1. list[r] = attrs[q] /\ list[n] = attrs[m] /\ q # 0 /\ m # 0
            BY <2>2, <2>3, <2>8
        <3> QED BY <2>1, <2>4, <2>5, <2>6, <2>8, <3>1
    <2> QED BY <2>7, <2>8
<1>8. \A types : Same(list, attrs, types) =>
         LET j == Response!FirstOf(list, types)
             k == Response!FirstOf(attrs, types)
         IN  (j = 0 /\ k = 0) \/ (j # 0 /\ k # 0 /\ list[j] = attrs[k])
    BY <1>1, <1>3, SameIsFound
<1>9. Response!ParseCreatePermissionResponse(class, list)
      = Response!ParseCreatePermissionResponse(class, attrs)
    <2> DEFINE j == Response!FirstOf(list, {"ERROR_CODE"})
               k == Response!FirstOf(attrs, {"ERROR_CODE"})
    <2>1. (j = 0 /\ k = 0) \/ (j # 0 /\ k # 0 /\ list[j] = attrs[k])
        BY <1>3, <1>8
    <2> QED BY <2>1, Zenon DEF Response!ParseCreatePermissionResponse
<1>10. Response!ParseBindingResponse(class, list) = Response!ParseBindingResponse(class, attrs)
    <2> DEFINE j == Response!FirstOf(list, mapped)
               k == Response!FirstOf(attrs, mapped)
    <2>1. (j = 0 /\ k = 0) \/ (j # 0 /\ k # 0 /\ list[j] = attrs[k])
        <3> HIDE DEF mapped
        <3> QED BY <1>4, <1>8
    <2> QED BY <2>1, Zenon DEF Response!ParseBindingResponse
<1> QED BY <1>6, <1>7, <1>9, <1>10 DEF Response!Outcomes, Response!ParseAllocateResponse

LEMMA RefusalsAreAlike == ResponseInv => Response!RefusalsAgree
<1> DEFINE allocate == Response!ParseAllocateResponse(class, attrs)
           permission == Response!ParseCreatePermissionResponse(class, attrs)
<1> SUFFICES ASSUME ResponseInv, class = Response!Failure,
                    NEW k \in 1..Len(attrs),
                    \A j \in 1..Len(attrs) : attrs[j].type = "ERROR_CODE" <=> j = k
             PROVE  /\ allocate.is = "error" => permission = allocate
                    /\ allocate.is = "unauthorized" =>
                          permission = [is |-> "error", code |-> 401]
                    /\ permission = Response!Malformed => allocate = Response!Malformed
    BY DEF Response!RefusalsAgree
<1> DEFINE code == Response!ErrorCode(attrs[k].value)
           bad == attrs[k].value = Bad
<1>1. attrs \in Seq(Response!Attributes) /\ Len(attrs) \in Nat
    BY DEF ResponseInv
<1>2. Response!LastOf(attrs, "ERROR_CODE") = k
    BY <1>1, LastOfMeans
<1>3. Response!FirstOf(attrs, {"ERROR_CODE"}) = k
    <2>1. \A x : x \in {"ERROR_CODE"} <=> x = "ERROR_CODE"
        OBVIOUS
    <2> QED BY <1>1, <2>1, FirstOfMeans
<1>4. Response!Decodable(attrs, "ERROR_CODE") <=> ~bad
    BY DEF Response!Decodable
<1>5. k # 0 /\ class # Response!Success
    BY <1>1 DEF Response!Failure, Response!Success
<1>6. permission = IF bad THEN Response!Malformed ELSE [is |-> "error", code |-> code]
    BY <1>3, <1>5 DEF Response!ParseCreatePermissionResponse
<1>7. Response!CodeOf(attrs, k) = code
    BY <1>5 DEF Response!CodeOf
<1>8. allocate = Response!AllocateError(attrs)
    BY <1>5 DEF Response!ParseAllocateResponse
<1>9. /\ bad => allocate = Response!Malformed
      /\ ~bad /\ code # 401 => allocate = [is |-> "error", code |-> code]
      /\ ~bad /\ code = 401 => \/ allocate = Response!Malformed
                               \/ allocate.is = "unauthorized"
    <2> HIDE DEF bad, code, allocate
    <2> QED BY <1>2, <1>4, <1>7, <1>8 DEF Response!AllocateError
<1>10. Response!Malformed.is = "malformed"
    BY DEF Response!Malformed
<1>11. [is |-> "error", code |-> code].is = "error"
    OBVIOUS
<1> HIDE DEF bad, code, allocate, permission
<1> QED BY <1>6, <1>9, <1>10, <1>11

LEMMA NoAddressIsMadeUp == ResponseInv => Response!AddressIsGiven
<1> DEFINE allocate == Response!ParseAllocateResponse(class, attrs)
           binding == Response!ParseBindingResponse(class, attrs)
           gives(t, a) == \E k \in 1..Len(attrs) : attrs[k] = [type |-> t, value |-> a]
           mapped == {"XOR_MAPPED_ADDRESS", "MAPPED_ADDRESS"}
<1> SUFFICES ASSUME ResponseInv
             PROVE  /\ allocate.is = "success" =>
                          /\ gives("XOR_RELAYED_ADDRESS", allocate.addr)
                          /\ ~gives("XOR_RELAYED_ADDRESS", Bad)
                    /\ binding.is = "success" =>
                          \/ gives("XOR_MAPPED_ADDRESS", binding.addr)
                          \/ gives("MAPPED_ADDRESS", binding.addr)
    BY DEF Response!AddressIsGiven
<1>1. attrs \in Seq(Response!Attributes) /\ Len(attrs) \in Nat
    BY DEF ResponseInv
<1>2. \A k \in 1..Len(attrs) : attrs[k] = [type |-> attrs[k].type, value |-> attrs[k].value]
    <2>1. \A k \in 1..Len(attrs) : attrs[k] \in Response!Attributes
        BY <1>1
    <2>2. \A a \in Response!Attributes : a = [type |-> a.type, value |-> a.value]
        BY DEF Response!Attributes
    <2> QED BY <2>1, <2>2
<1>3. Response!Malformed.is = "malformed"
    BY DEF Response!Malformed
<1>4. ASSUME allocate.is = "success"
      PROVE  /\ gives("XOR_RELAYED_ADDRESS", allocate.addr)
             /\ ~gives("XOR_RELAYED_ADDRESS", Bad)
    <2> DEFINE k == Response!LastOf(attrs, "XOR_RELAYED_ADDRESS")
    <2>1. allocate # Response!AllocateError(attrs)
        <3>1. Response!AllocateError(attrs).is \in {"malformed", "error", "unauthorized"}
            BY <1>3 DEF Response!AllocateError
        <3> QED BY <1>4, <3>1
    <2>2. allocate = Response!AllocateSuccess(attrs)
        BY <1>3, <1>4, <2>1 DEF Response!ParseAllocateResponse
    <2>3. /\ k # 0 /\ Response!Decodable(attrs, "XOR_RELAYED_ADDRESS")
          /\ allocate.addr = attrs[k].value
        <3> HIDE DEF allocate
        <3> QED BY <1>3, <1>4, <2>2 DEF Response!AllocateSuccess
    <2>4. k \in 1..Len(attrs) /\ attrs[k].type = "XOR_RELAYED_ADDRESS"
        BY <1>1, <2>3, LastOfMeans
    <2> HIDE DEF k, allocate
    <2>5. attrs[k] = [type |-> "XOR_RELAYED_ADDRESS", value |-> allocate.addr]
        BY <1>2, <2>3, <2>4
    <2>6. ~gives("XOR_RELAYED_ADDRESS", Bad)
        BY <2>3 DEF Response!Decodable
    <2> QED BY <2>4, <2>5, <2>6
<1>5. ASSUME binding.is = "success"
      PROVE  \/ gives("XOR_MAPPED_ADDRESS", binding.addr)
             \/ gives("MAPPED_ADDRESS", binding.addr)
    <2> DEFINE k == Response!FirstOf(attrs, mapped)
    <2>1. k # 0 /\ binding.addr = attrs[k].value
        BY <1>3, <1>5 DEF Response!ParseBindingResponse
    <2>2. k \in 1..Len(attrs) /\ attrs[k].type \in mapped
        <3> HIDE DEF mapped
        <3> QED BY <1>1, <2>1, FirstOfMeans
    <2> HIDE DEF k, binding
    <2>3. attrs[k] = [type |-> attrs[k].type, value |-> binding.addr]
        BY <1>2, <2>1, <2>2
    <2> QED BY <2>2, <2>3
<1> QED BY <1>4, <1>5

-----------------------------------------------------------------------------
(* Messages: octets and numbers *)

Octet == 0..Base - 1
Types == 0..Message!W16 - 1
Attrs == [type : Types, value : Seq(Octet)]

LEMMA DigitalMeans ==
    /\ Base \in Nat /\ Base >= 3 /\ Message!W16 = Base * Base
    /\ AttrTypes \subseteq Types
    /\ Values \subseteq Seq(Octet) /\ PeerValue \in Seq(Octet) /\ Digest \in Seq(Octet)
    /\ Len(Digest) \in Nat /\ Len(Digest) % 4 = 0
BY MessageAssumption DEF Message!Digital, Octet, Types, Message!W16

LEMMA W16Means == Message!W16 \in Nat /\ Message!W16 >= 9
<1>1. ASSUME NEW b \in Nat, b >= 3 PROVE b * b \in Nat /\ b * b >= 9
    BY <1>1, Z3
<1> QED BY <1>1, DigitalMeans

LEMMA Division ==
    ASSUME NEW b \in Nat, b > 0, NEW n \in Nat
    PROVE  n \div b \in Nat /\ n % b \in 0..b - 1 /\ n = (n \div b) * b + (n % b)
BY Z3

LEMMA HighIsSmall ==
    ASSUME NEW b \in Nat, NEW high \in Nat, NEW low \in Nat, high * b + low < b * b
    PROVE  high < b
BY Z3

LEMMA SmallRemainder ==
    ASSUME NEW b \in Nat, NEW n \in Nat, n < b
    PROVE  n % b = n
BY Z3

LEMMA SameLow ==
    ASSUME NEW b \in Nat, b > 0, NEW n \in Nat
    PROVE  n % (b * b) \in Nat /\ n % (b * b) < b * b
<1>1. PICK c \in Nat : c = b * b /\ c > 0
    BY Z3
<1>2. n % c \in 0..c - 1
    BY <1>1, Division
<1> QED BY <1>1, <1>2

\* Two octets, whatever the number; and the number they say if it fits.
LEMMA Octets16Means ==
    ASSUME NEW n \in Nat
    PROVE  /\ Message!Octets16(n) \in Seq(Octet) /\ Len(Message!Octets16(n)) = 2
           /\ n < Message!W16 =>
                 Message!Number(Message!Octets16(n)[1], Message!Octets16(n)[2]) = n
<1>1. Base \in Nat /\ Base > 0 /\ Message!W16 = Base * Base
    BY DigitalMeans
<1>2. PICK m \in Nat : m = n % Message!W16 /\ m < Base * Base
    BY <1>1, SameLow
<1>3. PICK high \in Nat, low \in Octet :
         high = m \div Base /\ low = m % Base /\ m = high * Base + low
    BY <1>1, Division DEF Octet
<1>4. PICK last \in Octet : last = n % Base
    BY <1>1, Division DEF Octet
<1>5. low \in Nat /\ high \in Octet
    <2>1. low \in Nat
        BY <1>1 DEF Octet
    <2>2. high < Base
        BY <1>1, <1>2, <1>3, <2>1, HighIsSmall
    <2> QED BY <1>1, <2>1, <2>2 DEF Octet
<1>6. Message!Octets16(n) = <<high, last>>
    BY <1>2, <1>3, <1>4 DEF Message!Octets16
<1>7. <<high, last>> \in Seq(Octet) /\ Len(<<high, last>>) = 2
    BY <1>5
<1>8. ASSUME n < Message!W16
      PROVE  Message!Number(<<high, last>>[1], <<high, last>>[2]) = n
    <2>1. m = n
        BY <1>1, <1>2, <1>8, SmallRemainder, W16Means
    <2>2. last = low
        BY <1>3, <1>4, <2>1
    <2>3. <<high, last>>[1] = high /\ <<high, last>>[2] = last
        OBVIOUS
    <2> QED BY <1>3, <2>1, <2>2, <2>3 DEF Message!Number
<1> QED BY <1>6, <1>7, <1>8

\* The pad brings a value to the next multiple of four.
LEMMA PadMeans ==
    ASSUME NEW len \in Nat, NEW v \in Seq(Octet), Len(v) = len
    PROVE  Message!Pad(v) \in 0..3 /\ (len + Message!Pad(v)) % 4 = 0
<1>1. len % 4 \in 0..3
    BY Z3
<1>2. Message!Pad(v) = (4 - (len % 4)) % 4
    BY DEF Message!Pad
<1>3. CASE len % 4 = 0
    <2>1. Message!Pad(v) = 0
        BY <1>2, <1>3, Z3
    <2> QED BY <1>3, <2>1, Z3
<1>4. CASE len % 4 # 0
    <2>1. Message!Pad(v) = 4 - (len % 4)
        BY <1>1, <1>2, <1>4, Z3
    <2> QED BY <1>1, <1>4, <2>1, Z3
<1> QED BY <1>3, <1>4

LEMMA AlignedTogether ==
    ASSUME NEW at \in Nat, at % 4 = 0, NEW step \in Nat, step % 4 = 0
    PROVE  (at + 4 + step) % 4 = 0
BY Z3

-----------------------------------------------------------------------------
(* Attributes in a message.  `at` says where each one begins; that what    *)
(* comes behind does not disturb it is all that appending needs.           *)

\* The attribute stands at position p of b.
Stands(b, p, a) ==
    /\ p + 4 + Len(a.value) <= Len(b)
    /\ Len(a.value) < Message!W16 =>
          Message!TypeAt(b, p) = a.type /\ Message!LengthAt(b, p) = Len(a.value)
    /\ \A q \in 1..Len(a.value) : b[p + 4 + q] = a.value[q]

\* The attributes stand behind one another, `at[k]` being the octets in front of
\* the k-th, and fill b.
LaidOut(b, list, at) ==
    /\ at \in [1..Len(list) + 1 -> 0..Len(b)]
    /\ at[1] = 0 /\ at[Len(list) + 1] = Len(b)
    /\ \A k \in 1..Len(list) :
          /\ Stands(b, at[k], list[k])
          /\ at[k + 1] = at[k] + 4 + Len(list[k].value) + Message!Pad(list[k].value)

\* What comes behind an attribute does not matter to it.
LEMMA StandsOn ==
    ASSUME NEW b \in Seq(Octet), NEW c \in Seq(Octet), NEW p \in Nat,
           NEW a \in Attrs, Stands(b, p, a)
    PROVE  Stands(b \o c, p, a)
<1> DEFINE d == b \o c
<1>1. PICK n \in Nat, l \in Nat, m \in Nat : n = Len(b) /\ l = Len(a.value) /\ m = Len(d) /\ m >= n
    <2>1. Len(d) = Len(b) + Len(c) /\ Len(b) \in Nat /\ Len(c) \in Nat
        BY ConcatMeans
    <2>2. Len(a.value) \in Nat
        BY DEF Attrs
    <2> QED BY <2>1, <2>2
<1>2. \A k \in 1..n : d[k] = b[k]
    BY <1>1, ConcatMeans
<1>3. /\ p + 4 + l <= n
      /\ l < Message!W16 => Message!TypeAt(b, p) = a.type /\ Message!LengthAt(b, p) = l
      /\ \A q \in 1..l : b[p + 4 + q] = a.value[q]
    BY <1>1 DEF Stands
<1>4. p + 1 \in 1..n /\ p + 2 \in 1..n /\ p + 3 \in 1..n /\ p + 4 \in 1..n
    BY <1>3
<1>5. d[p + 1] = b[p + 1] /\ d[p + 2] = b[p + 2] /\ d[p + 3] = b[p + 3] /\ d[p + 4] = b[p + 4]
    BY <1>2, <1>4
<1> HIDE DEF d
<1>6. Message!TypeAt(d, p) = Message!TypeAt(b, p) /\ Message!LengthAt(d, p) = Message!LengthAt(b, p)
    BY <1>5 DEF Message!TypeAt, Message!LengthAt
<1>7. \A q \in 1..l : d[p + 4 + q] = a.value[q]
    <2> TAKE q \in 1..l
    <2>1. p + 4 + q \in 1..n
        BY <1>3
    <2> QED BY <1>2, <1>3, <2>1
<1>8. p + 4 + l <= m
    <2>1. p + 4 + l <= n /\ n <= m
        BY <1>1, <1>3
    <2> QED BY <2>1
<1>9. Stands(d, p, a)
    BY <1>1, <1>3, <1>6, <1>7, <1>8, Zenon DEF Stands
<1> QED BY <1>9 DEF d

Wrapped(b, t, v) == b \o Message!Octets16(t) \o Message!Octets16(Len(v)) \o v

\* An attribute appended stands behind what was there.
LEMMA WrappedStands ==
    ASSUME NEW b \in Seq(Octet), NEW t \in Types, NEW v \in Seq(Octet)
    PROVE  /\ Wrapped(b, t, v) \in Seq(Octet)
           /\ Len(Wrapped(b, t, v)) = Len(b) + 4 + Len(v)
           /\ \A k \in 1..Len(b) : Wrapped(b, t, v)[k] = b[k]
           /\ Stands(Wrapped(b, t, v), Len(b), [type |-> t, value |-> v])
<1> DEFINE x == Message!Octets16(t)
           y == Message!Octets16(Len(v))
           bx == b \o x
           bxy == bx \o y
           w == bxy \o v
<1>1. PICK n \in Nat, l \in Nat : n = Len(b) /\ l = Len(v)
    OBVIOUS
<1>2. t \in Nat /\ t < Message!W16
    BY W16Means DEF Types
<1>3. /\ x \in Seq(Octet) /\ Len(x) = 2 /\ Message!Number(x[1], x[2]) = t
    BY <1>2, Octets16Means
<1>4. /\ y \in Seq(Octet) /\ Len(y) = 2
      /\ l < Message!W16 => Message!Number(y[1], y[2]) = l
    BY <1>1, Octets16Means
<1>5. w = Wrapped(b, t, v)
    BY DEF Wrapped
<1> HIDE DEF x, y
<1>6. /\ bx \in Seq(Octet) /\ Len(bx) = n + 2
      /\ \A k \in 1..n : bx[k] = b[k]
      /\ bx[n + 1] = x[1] /\ bx[n + 2] = x[2]
    <2>1. /\ bx \in Seq(Octet) /\ Len(bx) = Len(b) + Len(x)
          /\ \A k \in 1..Len(b) : bx[k] = b[k]
          /\ \A k \in 1..Len(x) : bx[Len(b) + k] = x[k]
        <3>1. x \in Seq(Octet)
            BY <1>3
        <3> QED BY <3>1, ConcatMeans
    <2>2. 1 \in 1..Len(x) /\ 2 \in 1..Len(x)
        BY <1>3
    <2> HIDE DEF bx
    <2>3. bx[Len(b) + 1] = x[1] /\ bx[Len(b) + 2] = x[2]
        BY <2>1, <2>2
    <2>4. Len(bx) = n + 2
        BY <1>1, <1>3, <2>1
    <2> QED BY <1>1, <2>1, <2>3, <2>4, Zenon
<1> HIDE DEF bx
<1>7. /\ bxy \in Seq(Octet) /\ Len(bxy) = n + 4
      /\ \A k \in 1..n + 2 : bxy[k] = bx[k]
      /\ bxy[n + 3] = y[1] /\ bxy[n + 4] = y[2]
    <2>1. /\ bxy \in Seq(Octet) /\ Len(bxy) = Len(bx) + Len(y)
          /\ \A k \in 1..Len(bx) : bxy[k] = bx[k]
          /\ \A k \in 1..Len(y) : bxy[Len(bx) + k] = y[k]
        <3>1. bx \in Seq(Octet) /\ y \in Seq(Octet)
            BY <1>4, <1>6
        <3> QED BY <3>1, ConcatMeans
    <2>2. 1 \in 1..Len(y) /\ 2 \in 1..Len(y)
        BY <1>4
    <2> HIDE DEF bxy
    <2>3. bxy[Len(bx) + 1] = y[1] /\ bxy[Len(bx) + 2] = y[2]
        BY <2>1, <2>2
    <2>4. Len(bx) = n + 2 /\ Len(bx) + 1 = n + 3 /\ Len(bx) + 2 = n + 4
        BY <1>6
    <2>5. Len(bxy) = n + 4
        BY <1>4, <2>1, <2>4
    <2>6. bxy[n + 3] = y[1] /\ bxy[n + 4] = y[2]
        BY <2>3, <2>4, Zenon
    <2> QED BY <2>1, <2>4, <2>5, <2>6, Zenon
<1> HIDE DEF bxy
<1>8. /\ w \in Seq(Octet) /\ Len(w) = n + 4 + l
      /\ \A k \in 1..n + 4 : w[k] = bxy[k]
      /\ \A k \in 1..l : w[n + 4 + k] = v[k]
    <2>1. /\ w \in Seq(Octet) /\ Len(w) = Len(bxy) + Len(v)
          /\ \A k \in 1..Len(bxy) : w[k] = bxy[k]
          /\ \A k \in 1..Len(v) : w[Len(bxy) + k] = v[k]
        <3>1. bxy \in Seq(Octet)
            BY <1>7
        <3> QED BY <3>1, ConcatMeans
    <2> HIDE DEF w
    <2>2. Len(bxy) = n + 4 /\ Len(v) = l
        BY <1>1, <1>7
    <2> QED BY <2>1, <2>2, Zenon
<1> HIDE DEF w
<1>9. \A k \in 1..n : w[k] = b[k]
    <2> TAKE k \in 1..n
    <2>1. k \in 1..n + 2 /\ k \in 1..n + 4
        OBVIOUS
    <2>2. bx[k] = b[k]
        BY <1>6
    <2>3. bxy[k] = bx[k]
        BY <1>7, <2>1
    <2>4. w[k] = bxy[k]
        BY <1>8, <2>1
    <2> QED BY <2>2, <2>3, <2>4
<1>10. /\ w[n + 1] = x[1] /\ w[n + 2] = x[2] /\ w[n + 3] = y[1] /\ w[n + 4] = y[2]
    <2>1. n + 1 \in 1..n + 2 /\ n + 2 \in 1..n + 2
          /\ n + 1 \in 1..n + 4 /\ n + 2 \in 1..n + 4 /\ n + 3 \in 1..n + 4 /\ n + 4 \in 1..n + 4
        OBVIOUS
    <2> QED BY <1>6, <1>7, <1>8, <2>1
<1>11. Stands(w, n, [type |-> t, value |-> v])
    <2>1. Message!TypeAt(w, n) = t /\ (l < Message!W16 => Message!LengthAt(w, n) = l)
        BY <1>3, <1>4, <1>10 DEF Message!TypeAt, Message!LengthAt
    <2>2. n + 4 + l <= Len(w)
        BY <1>8
    <2>3. [type |-> t, value |-> v].type = t /\ [type |-> t, value |-> v].value = v
        OBVIOUS
    <2> QED BY <1>1, <1>8, <2>1, <2>2, <2>3, Zenon DEF Stands
<1> QED BY <1>1, <1>5, <1>8, <1>9, <1>11

\* One more attribute, padded, extends the layout.
LEMMA AppendLaidOut ==
    ASSUME NEW b \in Seq(Octet), Len(b) % 4 = 0, NEW list \in Seq(Attrs),
           NEW at, LaidOut(b, list, at),
           NEW t \in Types, NEW v \in Seq(Octet),
           NEW z \in Seq(Octet), Len(z) = Message!Pad(v)
    PROVE  /\ Wrapped(b, t, v) \o z \in Seq(Octet) /\ Len(Wrapped(b, t, v) \o z) % 4 = 0
           /\ \E to : LaidOut(Wrapped(b, t, v) \o z, Append(list, [type |-> t, value |-> v]), to)
<1> DEFINE a == [type |-> t, value |-> v]
           w == Wrapped(b, t, v)
           c == w \o z
           longer == Append(list, a)
<1>1. PICK n \in Nat, l \in Nat, m \in Nat : n = Len(b) /\ l = Len(v) /\ m = Len(list)
    OBVIOUS
<1>2. PICK pad \in 0..3 : pad = Message!Pad(v) /\ (l + pad) % 4 = 0
    BY <1>1, PadMeans
<1>3. /\ w \in Seq(Octet) /\ Len(w) = n + 4 + l
      /\ \A k \in 1..n : w[k] = b[k]
      /\ Stands(w, n, a)
    BY <1>1, WrappedStands
<1>4. a \in Attrs
    BY DEF Attrs
<1>5. /\ longer \in Seq(Attrs) /\ Len(longer) = m + 1
      /\ \A k \in 1..m : longer[k] = list[k]
      /\ longer[m + 1] = a
    BY <1>1, <1>4, AppendProperties
<1>6. a.value = v
    OBVIOUS
<1> HIDE DEF a, w, longer
<1>7. c \in Seq(Octet) /\ Len(c) = n + 4 + l + pad
    <2>1. c \in Seq(Octet) /\ Len(c) = Len(w) + Len(z)
        BY <1>3, ConcatMeans
    <2> QED BY <1>2, <1>3, <2>1
<1>8. Len(c) % 4 = 0
    <2>1. n % 4 = 0 /\ l + pad \in Nat
        BY <1>1
    <2>2. (n + 4 + (l + pad)) % 4 = 0
        BY <1>2, <2>1, AlignedTogether
    <2>3. Len(c) = n + 4 + (l + pad)
        BY <1>7
    <2> QED BY <2>2, <2>3
<1>9. Stands(c, n, a)
    BY <1>3, <1>4, StandsOn
<1>10. \A k \in 1..m : at[k] \in Nat /\ list[k] \in Attrs /\ Stands(c, at[k], list[k])
    <2> TAKE k \in 1..m
    <2>1. at[k] \in Nat /\ list[k] \in Attrs /\ Stands(b, at[k], list[k])
        <3>1. at[k] \in 0..Len(b)
            <4>1. k \in 1..Len(list) + 1
                BY <1>1
            <4>2. at \in [1..Len(list) + 1 -> 0..Len(b)]
                BY DEF LaidOut
            <4> QED BY <4>1, <4>2
        <3>2. k \in 1..Len(list)
            BY <1>1
        <3>3. Stands(b, at[k], list[k])
            BY <3>2 DEF LaidOut
        <3> QED BY <1>1, <3>1, <3>2, <3>3
    <2>2. Stands(w, at[k], list[k])
        <3>1. PICK p \in Nat : p = at[k]
            BY <2>1
        <3>2. PICK e \in Attrs : e = list[k]
            BY <2>1
        <3>3. PICK j \in Nat : j = Len(e.value)
            BY DEF Attrs
        <3>4. /\ p + 4 + j <= n
              /\ j < Message!W16 => Message!TypeAt(b, p) = e.type /\ Message!LengthAt(b, p) = j
              /\ \A q \in 1..j : b[p + 4 + q] = e.value[q]
            BY <1>1, <2>1, <3>1, <3>2, <3>3 DEF Stands
        <3>5. /\ w[p + 1] = b[p + 1] /\ w[p + 2] = b[p + 2]
              /\ w[p + 3] = b[p + 3] /\ w[p + 4] = b[p + 4]
            <4>1. p + 1 \in 1..n /\ p + 2 \in 1..n /\ p + 3 \in 1..n /\ p + 4 \in 1..n
                BY <3>4
            <4> QED BY <1>3, <4>1
        <3>6. /\ Message!TypeAt(w, p) = Message!TypeAt(b, p)
              /\ Message!LengthAt(w, p) = Message!LengthAt(b, p)
            BY <3>5 DEF Message!TypeAt, Message!LengthAt
        <3>7. \A q \in 1..j : w[p + 4 + q] = e.value[q]
            <4> TAKE q \in 1..j
            <4>1. p + 4 + q \in 1..n
                BY <3>4
            <4> QED BY <1>3, <3>4, <4>1
        <3>8. p + 4 + j <= Len(w)
            BY <1>3, <3>4
        <3> QED BY <3>1, <3>2, <3>3, <3>4, <3>6, <3>7, <3>8, Zenon DEF Stands
    <2> QED BY <1>3, <2>1, <2>2, StandsOn
<1> DEFINE to == [k \in 1..m + 2 |-> IF k = m + 2 THEN n + 4 + l + pad ELSE at[k]]
<1>11. LaidOut(c, longer, to)
    <2>1. /\ at \in [1..m + 1 -> 0..n] /\ at[1] = 0 /\ at[m + 1] = n
          /\ \A k \in 1..m : at[k + 1] = at[k] + 4 + Len(list[k].value) + Message!Pad(list[k].value)
        BY <1>1 DEF LaidOut
    <2>2. to \in [1..m + 1 + 1 -> 0..Len(c)]
        <3>1. \A k \in 1..m + 1 : at[k] \in 0..n
            BY <2>1
        <3>2. m + 1 + 1 = m + 2
            OBVIOUS
        <3>3. \A k \in 1..m + 2 : to[k] \in 0..Len(c)
            BY <1>7, <3>1
        <3> QED BY <3>2, <3>3
    <2>3. to[1] = 0 /\ to[m + 1] = n /\ to[m + 1 + 1] = Len(c)
        BY <1>7, <2>1
    <2>4. \A k \in 1..m : to[k] = at[k] /\ to[k + 1] = at[k + 1]
        OBVIOUS
    <2> HIDE DEF to, c
    <2>5. \A k \in 1..m + 1 :
             /\ Stands(c, to[k], longer[k])
             /\ to[k + 1] = to[k] + 4 + Len(longer[k].value) + Message!Pad(longer[k].value)
        <3> TAKE k \in 1..m + 1
        <3>1. CASE k \in 1..m
            <4>1. longer[k] = list[k] /\ to[k] = at[k] /\ to[k + 1] = at[k + 1]
                BY <1>5, <2>4, <3>1
            <4>2. at[k + 1] = at[k] + 4 + Len(list[k].value) + Message!Pad(list[k].value)
                BY <2>1, <3>1
            <4>3. Stands(c, at[k], list[k])
                BY <1>10, <3>1
            <4> QED BY <4>1, <4>2, <4>3
        <3>2. CASE k = m + 1
            <4>1. longer[k] = a /\ to[k] = n /\ to[k + 1] = n + 4 + l + pad
                BY <1>5, <1>7, <2>3, <3>2
            <4> QED BY <1>1, <1>2, <1>6, <1>9, <4>1
        <3> QED BY <3>1, <3>2
    <2> QED BY <1>5, <2>2, <2>3, <2>5 DEF LaidOut
<1> HIDE DEF to
<1>12. \E x : LaidOut(c, longer, x)
    BY <1>11
<1> QED BY <1>7, <1>8, <1>12 DEF c, w, longer, a

-----------------------------------------------------------------------------
(* Recursion.  The walkers are functions of the position, each value given *)
(* by the one at the next attribute: such functions exist, and what holds  *)
(* of them is shown from the end of the buffer to its beginning.           *)

\* What holds at a position when it holds at all later ones holds everywhere.
LEMMA Downward ==
    ASSUME NEW n \in Nat, NEW T,
           \A k \in 0..n : (\A j \in 0..n : j > k => j \in T) => k \in T
    PROVE  \A k \in 0..n : k \in T
<1> DEFINE R == OpToRel(<, Nat)
           U == {m \in 0..n : n - m \notin T}
<1>1. IsWellFoundedOn(R, Nat)
    BY NatLessThanWellFounded
<1>2. \A x, y \in Nat : (x < y) => <<x, y>> \in R
    BY DEF OpToRel
<1> HIDE DEF R
<1>3. U \in SUBSET Nat
    OBVIOUS
<1>4. SUFFICES ASSUME NEW k \in 0..n, k \notin T PROVE FALSE
    OBVIOUS
<1>5. n - k \in U
    <2>1. n - (n - k) = k /\ n - k \in 0..n
        OBVIOUS
    <2> QED BY <1>4, <2>1
<1>6. PICK x \in U : \A y \in U : ~(<<y, x>> \in R)
    BY <1>1, <1>3, <1>5, WFMin
<1>7. \A y \in U : ~(y < x)
    BY <1>2, <1>3, <1>6
<1>8. \A j \in 0..n : j > n - x => j \in T
    <2> SUFFICES ASSUME NEW j \in 0..n, j > n - x, j \notin T PROVE FALSE
        OBVIOUS
    <2>1. n - (n - j) = j /\ n - j \in 0..n
        OBVIOUS
    <2>2. n - j \in U
        BY <2>1
    <2> QED BY <1>6, <1>7, <2>2
<1>9. n - x \in 0..n /\ n - x \notin T
    BY <1>6
<1> QED BY <1>8, <1>9

\* A function may be defined at each position by its value at a later one.
Recursive(n, V, stop, base, next, F) ==
    /\ n \in Nat /\ base \in [0..n -> V] /\ F \in [0..n -> [V -> V]]
    /\ \A j \in (0..n) \ stop : next[j] \in 0..n /\ next[j] > j

Solves(f, n, stop, base, next, F) ==
    \A j \in 0..n : f[j] = IF j \in stop THEN base[j] ELSE F[j][f[next[j]]]

LEMMA Recursion ==
    ASSUME NEW n, NEW V, NEW stop, NEW base, NEW next, NEW F,
           Recursive(n, V, stop, base, next, F)
    PROVE  \E f \in [0..n -> V] : Solves(f, n, stop, base, next, F)
<1>0. /\ n \in Nat /\ base \in [0..n -> V] /\ F \in [0..n -> [V -> V]]
      /\ \A j \in (0..n) \ stop : next[j] \in 0..n /\ next[j] > j
    BY DEF Recursive
<1> USE <1>0
<1> DEFINE Fine(f, j) == f[j] = IF j \in stop THEN base[j] ELSE F[j][f[next[j]]]
           T == {k \in 0..n : \E f \in [0..n -> V] : \A j \in k..n : Fine(f, j)}
<1>1. ASSUME NEW k \in 0..n, \A j \in 0..n : j > k => j \in T
      PROVE  k \in T
    <2>1. PICK f \in [0..n -> V] : \A j \in k + 1..n : Fine(f, j)
        <3>1. CASE k = n
            <4>1. \A j \in k + 1..n : FALSE
                BY <3>1
            <4> QED BY <4>1
        <3>2. CASE k < n
            <4>1. k + 1 \in T
                <5>1. k + 1 \in 0..n /\ k + 1 > k
                    BY <3>2
                <5> HIDE DEF T
                <5> QED BY <1>1, <5>1
            <4> HIDE DEF Fine
            <4> QED BY <4>1
        <3>3. k = n \/ k < n
            OBVIOUS
        <3> HIDE DEF Fine
        <3> QED BY <3>1, <3>2, <3>3
    <2> DEFINE v == IF k \in stop THEN base[k] ELSE F[k][f[next[k]]]
               g == [f EXCEPT ![k] = v]
    <2>2. v \in V
        <3>1. k \notin stop => f[next[k]] \in V /\ F[k] \in [V -> V]
            OBVIOUS
        <3> QED BY <3>1
    <2>3. g \in [0..n -> V] /\ g[k] = v /\ \A j \in 0..n : j # k => g[j] = f[j]
        <3> HIDE DEF v
        <3> QED BY <2>2
    <2> HIDE DEF g
    <2>4. \A j \in k..n : Fine(g, j)
        <3> TAKE j \in k..n
        <3>1. j \in 0..n /\ (j # k => j \in k + 1..n)
            OBVIOUS
        <3>2. j \notin stop => next[j] \in 0..n /\ next[j] # k
            BY <3>1
        <3>3. j \notin stop => g[next[j]] = f[next[j]]
            BY <2>3, <3>2
        <3>4. CASE j = k
            <4>1. g[j] = IF j \in stop THEN base[j] ELSE F[j][f[next[j]]]
                BY <2>3, <3>4
            <4> QED BY <3>3, <4>1
        <3>5. CASE j # k
            <4>1. g[j] = f[j] /\ Fine(f, j)
                BY <2>1, <2>3, <3>1, <3>5
            <4> QED BY <3>3, <4>1
        <3> QED BY <3>4, <3>5
    <2> HIDE DEF Fine
    <2> QED BY <2>3, <2>4
<1> HIDE DEF T
<1>2. 0 \in T
    <2>1. \A k \in 0..n : k \in T
        BY <1>0, <1>1, Downward
    <2>2. 0 \in 0..n
        OBVIOUS
    <2> QED BY <2>1, <2>2
<1> QED BY <1>2 DEF T, Solves

-----------------------------------------------------------------------------
(* The two walkers *)

Walked == [ok : BOOLEAN, attrs : Seq(Attrs)]
Data == [is : {"none", "error", "data"}, value : Seq(Octet)]

\* What a walker at position j has in front of it.
AtEnd(j, end) == j + 4 > end
TooLong(b, j, end) == j + 4 + Message!LengthAt(b, j) > end
AttrAt(b, j) == [type |-> Message!TypeAt(b, j), value |-> Message!ValueAt(b, j)]
With(walk, a) == [walk EXCEPT !.attrs = <<a>> \o @]

\* The equations the walkers satisfy.
WalkEquation(f, b, end) ==
    f = [j \in 0..end + 3 |->
            IF j + 4 > end THEN [ok |-> TRUE, attrs |-> <<>>]
            ELSE IF j + 4 + Message!LengthAt(b, j) > end THEN [ok |-> FALSE, attrs |-> <<>>]
            ELSE LET rest == f[Message!After(b, j)]
                 IN [rest EXCEPT !.attrs =
                        <<[type |-> Message!TypeAt(b, j), value |-> Message!ValueAt(b, j)]>> \o @]]

DataEquation(f, b, end) ==
    f = [j \in 0..end + 3 |->
            IF j + 4 > end THEN [is |-> "none", value |-> <<>>]
            ELSE IF j + 4 + Message!LengthAt(b, j) > end THEN [is |-> "error", value |-> <<>>]
            ELSE IF Message!TypeAt(b, j) = DATA
                 THEN [is |-> "data", value |-> Message!ValueAt(b, j)]
            ELSE f[Message!After(b, j)]]

LEMMA WalkIsSolution ==
    ASSUME NEW b, NEW end, NEW f, WalkEquation(f, b, end)
    PROVE  WalkEquation(Message!AttrsFrom(b, end), b, end)
BY Zenon DEF Message!AttrsFrom, WalkEquation

LEMMA DataIsSolution ==
    ASSUME NEW b, NEW end, NEW f, DataEquation(f, b, end)
    PROVE  DataEquation(Message!DataFrom(b, end), b, end)
BY Zenon DEF Message!DataFrom, DataEquation

LEMMA NumberMeans ==
    ASSUME NEW high \in Octet, NEW low \in Octet
    PROVE  Message!Number(high, low) \in Types
<1>1. PICK c \in Nat : c = Base
    BY DigitalMeans
<1>2. high \in Nat /\ low \in Nat /\ high < c /\ low < c
    BY <1>1 DEF Octet
<1>3. high * c + low \in Nat /\ high * c + low < c * c
    BY <1>2, Z3
<1>4. PICK w \in Nat : w = Message!W16 /\ w = c * c
    BY <1>1, DigitalMeans, W16Means
<1>5. high * c + low \in 0..w - 1
    BY <1>3, <1>4
<1> QED BY <1>1, <1>4, <1>5 DEF Message!Number, Types

\* An attribute that lies within, and the position behind it.
LEMMA AttrAtMeans ==
    ASSUME NEW b \in Seq(Octet), NEW end \in 0..Len(b), NEW j \in 0..end + 3, ~AtEnd(j, end)
    PROVE  /\ Message!LengthAt(b, j) \in Nat
           /\ ~TooLong(b, j, end) =>
                 /\ AttrAt(b, j) \in Attrs
                 /\ Len(Message!ValueAt(b, j)) = Message!LengthAt(b, j)
                 /\ Message!After(b, j) \in 0..end + 3 /\ Message!After(b, j) > j
<1>1. PICK n \in Nat : n = Len(b)
    OBVIOUS
<1>2. end \in Nat /\ end <= n /\ j \in Nat /\ j + 4 <= end
    BY <1>1 DEF AtEnd
<1>3. \A k \in 1..n : b[k] \in Octet
    BY <1>1
<1>4. b[j + 1] \in Octet /\ b[j + 2] \in Octet /\ b[j + 3] \in Octet /\ b[j + 4] \in Octet
    <2>1. j + 1 \in 1..n /\ j + 2 \in 1..n /\ j + 3 \in 1..n /\ j + 4 \in 1..n
        BY <1>2
    <2> QED BY <1>3, <2>1
<1>5. Message!TypeAt(b, j) \in Types /\ Message!LengthAt(b, j) \in Types
    BY <1>4, NumberMeans DEF Message!TypeAt, Message!LengthAt
<1>6. PICK l \in Nat : l = Message!LengthAt(b, j)
    BY <1>5, W16Means DEF Types
<1>7. ASSUME ~TooLong(b, j, end)
      PROVE  /\ AttrAt(b, j) \in Attrs
             /\ Len(Message!ValueAt(b, j)) = l
             /\ Message!After(b, j) \in 0..end + 3 /\ Message!After(b, j) > j
    <2>1. j + 4 + l <= end
        BY <1>2, <1>6, <1>7 DEF TooLong
    <2> DEFINE v == Message!ValueAt(b, j)
    <2>2. v \in Seq(Octet) /\ Len(v) = l
        <3>1. v = SubSeq(b, j + 5, j + 4 + l)
            BY <1>6 DEF Message!ValueAt
        <3>2. j + 5 \in Nat \ {0} /\ j + 4 + l \in 0..Len(b) /\ j + 5 <= j + 4 + l + 1
            BY <1>1, <1>2, <2>1
        <3>3. /\ SubSeq(b, j + 5, j + 4 + l) \in Seq(Octet)
              /\ Len(SubSeq(b, j + 5, j + 4 + l)) = j + 4 + l - (j + 5) + 1
            BY <3>2, Part
        <3>4. j + 4 + l - (j + 5) + 1 = l
            OBVIOUS
        <3> QED BY <3>1, <3>3, <3>4
    <2> HIDE DEF v
    <2>3. PICK pad \in 0..3 : pad = Message!Pad(v)
        BY <2>2, PadMeans
    <2>4. Message!After(b, j) = j + 4 + l + pad
        BY <1>6, <2>3 DEF Message!After, v
    <2>5. j + 4 + l + pad \in 0..end + 3 /\ j + 4 + l + pad > j
        BY <1>2, <2>1
    <2>6. AttrAt(b, j) = [type |-> Message!TypeAt(b, j), value |-> v]
        BY DEF AttrAt, v
    <2>7. AttrAt(b, j) \in Attrs
        BY <1>5, <2>2, <2>6 DEF Attrs
    <2> QED BY <2>2, <2>4, <2>5, <2>7 DEF v
<1> QED BY <1>6, <1>7

LEMMA WithMeans ==
    ASSUME NEW walk \in Walked, NEW a \in Attrs
    PROVE  /\ With(walk, a) \in Walked
           /\ With(walk, a).ok = walk.ok /\ With(walk, a).attrs = <<a>> \o walk.attrs
<1>1. walk.attrs \in Seq(Attrs) /\ <<a>> \in Seq(Attrs)
    BY DEF Walked
<1>2. <<a>> \o walk.attrs \in Seq(Attrs)
    BY <1>1, ConcatMeans
<1> QED BY <1>2 DEF With, Walked

\* walk_attrs, position by position.
LEMMA WalkMeans ==
    ASSUME NEW b \in Seq(Octet), NEW end \in 0..Len(b)
    PROVE  \A j \in 0..end + 3 :
              LET from == Message!AttrsFrom(b, end)
              IN  /\ from[j] \in Walked
                  /\ from[j] =
                        IF AtEnd(j, end) THEN [ok |-> TRUE, attrs |-> <<>>]
                        ELSE IF TooLong(b, j, end) THEN [ok |-> FALSE, attrs |-> <<>>]
                        ELSE With(from[Message!After(b, j)], AttrAt(b, j))
<1>0. PICK n \in Nat : n = end + 3
    OBVIOUS
<1> DEFINE stop == {j \in 0..n : AtEnd(j, end) \/ TooLong(b, j, end)}
           base == [j \in 0..n |-> [ok |-> AtEnd(j, end), attrs |-> <<>>]]
           next == [j \in 0..n |-> IF j \in stop THEN 0 ELSE Message!After(b, j)]
           F == [j \in 0..n |-> [walk \in Walked |->
                    IF j \in stop THEN walk ELSE With(walk, AttrAt(b, j))]]
           from == Message!AttrsFrom(b, end)
<1>1. \A j \in (0..n) \ stop : /\ ~AtEnd(j, end) /\ ~TooLong(b, j, end)
                                /\ AttrAt(b, j) \in Attrs
                                /\ Message!After(b, j) \in 0..n /\ Message!After(b, j) > j
    BY <1>0, AttrAtMeans
<1>2. base \in [0..n -> Walked]
    <2>1. \A j \in 0..n : AtEnd(j, end) \in BOOLEAN
        BY DEF AtEnd
    <2>2. <<>> \in Seq(Attrs)
        OBVIOUS
    <2>3. \A j \in 0..n : [ok |-> AtEnd(j, end), attrs |-> <<>>] \in Walked
        BY <2>1, <2>2, Zenon DEF Walked
    <2> QED BY <2>3
<1>3. next \in [0..n -> Nat] /\ \A j \in (0..n) \ stop : next[j] \in 0..n /\ next[j] > j
    <2> HIDE DEF stop
    <2> QED BY <1>1
<1>4. F \in [0..n -> [Walked -> Walked]]
    <2>1. \A j \in 0..n : \A walk \in Walked :
             (IF j \in stop THEN walk ELSE With(walk, AttrAt(b, j))) \in Walked
        <3> HIDE DEF stop
        <3> QED BY <1>1, WithMeans
    <2> HIDE DEF stop
    <2> QED BY <2>1
<1>5. PICK f \in [0..n -> Walked] :
         \A j \in 0..n : f[j] = IF j \in stop THEN base[j] ELSE F[j][f[next[j]]]
    <2> HIDE DEF stop, base, next, F
    <2>2. Recursive(n, Walked, stop, base, next, F)
        BY <1>0, <1>2, <1>3, <1>4 DEF Recursive
    <2>3. \E f \in [0..n -> Walked] : Solves(f, n, stop, base, next, F)
        BY <2>2, Recursion
    <2> QED BY <2>3 DEF Solves
<1>6. \A j \in 0..n : f[j] = IF AtEnd(j, end) THEN [ok |-> TRUE, attrs |-> <<>>]
                             ELSE IF TooLong(b, j, end) THEN [ok |-> FALSE, attrs |-> <<>>]
                             ELSE With(f[Message!After(b, j)], AttrAt(b, j))
    <2> TAKE j \in 0..n
    <2>1. CASE AtEnd(j, end)
        <3>1. f[j] = [ok |-> AtEnd(j, end), attrs |-> <<>>]
            BY <1>5, <2>1
        <3> QED BY <2>1, <3>1
    <2>2. CASE ~AtEnd(j, end) /\ TooLong(b, j, end)
        <3>1. f[j] = [ok |-> AtEnd(j, end), attrs |-> <<>>]
            BY <1>5, <2>2
        <3> QED BY <2>2, <3>1
    <2>3. CASE j \in (0..n) \ stop
        <3>1. f[j] = F[j][f[next[j]]] /\ next[j] = Message!After(b, j)
            BY <1>5, <2>3
        <3>2. f[Message!After(b, j)] \in Walked
            BY <1>1, <2>3
        <3>3. F[j][f[Message!After(b, j)]] = With(f[Message!After(b, j)], AttrAt(b, j))
            <4> HIDE DEF stop
            <4> QED BY <2>3, <3>2
        <3> QED BY <1>1, <2>3, <3>1, <3>3
    <2> QED BY <2>1, <2>2, <2>3
<1>7. WalkEquation(f, b, end)
    <2>1. f = [j \in 0..n |-> f[j]]
        OBVIOUS
    <2> QED BY <1>0, <1>6, <2>1, Zenon DEF WalkEquation, AtEnd, TooLong, With, AttrAt
<1>8. WalkEquation(from, b, end)
    BY <1>7, WalkIsSolution
<1> HIDE DEF from
<1>9. \A j \in 0..n : from[j] = IF AtEnd(j, end) THEN [ok |-> TRUE, attrs |-> <<>>]
                                ELSE IF TooLong(b, j, end) THEN [ok |-> FALSE, attrs |-> <<>>]
                                ELSE With(from[Message!After(b, j)], AttrAt(b, j))
    BY <1>0, <1>8, Zenon DEF WalkEquation, AtEnd, TooLong, With, AttrAt
<1>10. \A j \in 0..n : from[j] \in Walked
    <2> DEFINE T == {j \in 0..n : from[j] \in Walked}
    <2>1. ASSUME NEW k \in 0..n, \A j \in 0..n : j > k => j \in T
          PROVE  k \in T
        <3>1. CASE k \in stop
            <4>1. [ok |-> TRUE, attrs |-> <<>>] \in Walked /\ [ok |-> FALSE, attrs |-> <<>>] \in Walked
                BY DEF Walked
            <4> QED BY <1>9, <3>1, <4>1
        <3>2. CASE k \in (0..n) \ stop
            <4>1. from[k] = With(from[Message!After(b, k)], AttrAt(b, k))
                BY <1>1, <1>9, <3>2
            <4>2. from[Message!After(b, k)] \in Walked
                BY <1>1, <2>1, <3>2
            <4> QED BY <1>1, <3>2, <4>1, <4>2, WithMeans
        <3> QED BY <3>1, <3>2
    <2> HIDE DEF T
    <2>2. \A k \in 0..n : k \in T
        BY <2>1, Downward
    <2> QED BY <2>2 DEF T
<1> QED BY <1>0, <1>9, <1>10 DEF from

\* parse_data_indication's walk, position by position.
LEMMA DataMeans ==
    ASSUME NEW b \in Seq(Octet), NEW end \in 0..Len(b)
    PROVE  \A j \in 0..end + 3 :
              LET from == Message!DataFrom(b, end)
              IN  from[j] =
                     IF AtEnd(j, end) THEN [is |-> "none", value |-> <<>>]
                     ELSE IF TooLong(b, j, end) THEN [is |-> "error", value |-> <<>>]
                     ELSE IF Message!TypeAt(b, j) = DATA
                          THEN [is |-> "data", value |-> Message!ValueAt(b, j)]
                     ELSE from[Message!After(b, j)]
<1>0. PICK n \in Nat : n = end + 3
    OBVIOUS
<1> DEFINE stop == {j \in 0..n : AtEnd(j, end) \/ TooLong(b, j, end) \/ Message!TypeAt(b, j) = DATA}
           base == [j \in 0..n |->
                       IF AtEnd(j, end) THEN [is |-> "none", value |-> <<>>]
                       ELSE IF TooLong(b, j, end) THEN [is |-> "error", value |-> <<>>]
                       ELSE [is |-> "data", value |-> Message!ValueAt(b, j)]]
           next == [j \in 0..n |-> IF j \in stop THEN 0 ELSE Message!After(b, j)]
           F == [j \in 0..n |-> [x \in Data |-> x]]
           from == Message!DataFrom(b, end)
<1>1. \A j \in 0..n : ~AtEnd(j, end) /\ ~TooLong(b, j, end) =>
          /\ Message!ValueAt(b, j) \in Seq(Octet)
          /\ Message!After(b, j) \in 0..n /\ Message!After(b, j) > j
    <2> TAKE j \in 0..n
    <2> HAVE ~AtEnd(j, end) /\ ~TooLong(b, j, end)
    <2>1. /\ AttrAt(b, j) \in Attrs
          /\ Message!After(b, j) \in 0..n /\ Message!After(b, j) > j
        BY <1>0, AttrAtMeans
    <2>2. AttrAt(b, j).value = Message!ValueAt(b, j)
        BY DEF AttrAt
    <2>3. AttrAt(b, j).value \in Seq(Octet)
        BY <2>1 DEF Attrs
    <2> QED BY <2>1, <2>2, <2>3
<1>2. base \in [0..n -> Data]
    <2>1. [is |-> "none", value |-> <<>>] \in Data /\ [is |-> "error", value |-> <<>>] \in Data
        BY DEF Data
    <2>2. \A v \in Seq(Octet) : [is |-> "data", value |-> v] \in Data
        BY DEF Data
    <2>3. \A j \in 0..n : base[j] \in Data
        BY <1>1, <2>1, <2>2
    <2> QED BY <2>3
<1>3. \A j \in (0..n) \ stop : next[j] \in 0..n /\ next[j] > j
    <2> TAKE j \in (0..n) \ stop
    <2>1. next[j] = Message!After(b, j) /\ ~AtEnd(j, end) /\ ~TooLong(b, j, end)
        OBVIOUS
    <2> HIDE DEF stop, next
    <2> QED BY <1>1, <2>1
<1>4. F \in [0..n -> [Data -> Data]]
    OBVIOUS
<1>5. PICK f \in [0..n -> Data] :
         \A j \in 0..n : f[j] = IF j \in stop THEN base[j] ELSE F[j][f[next[j]]]
    <2> HIDE DEF stop, base, next, F
    <2>2. Recursive(n, Data, stop, base, next, F)
        BY <1>0, <1>2, <1>3, <1>4 DEF Recursive
    <2>3. \E f \in [0..n -> Data] : Solves(f, n, stop, base, next, F)
        BY <2>2, Recursion
    <2> QED BY <2>3 DEF Solves
<1>6. \A j \in 0..n : f[j] = IF AtEnd(j, end) THEN [is |-> "none", value |-> <<>>]
                             ELSE IF TooLong(b, j, end) THEN [is |-> "error", value |-> <<>>]
                             ELSE IF Message!TypeAt(b, j) = DATA
                                  THEN [is |-> "data", value |-> Message!ValueAt(b, j)]
                             ELSE f[Message!After(b, j)]
    <2> TAKE j \in 0..n
    <2>1. CASE j \in stop
        <3>1. f[j] = base[j]
            BY <1>5, <2>1
        <3> QED BY <2>1, <3>1
    <2>2. CASE j \in (0..n) \ stop
        <3>1. f[j] = F[j][f[next[j]]] /\ next[j] = Message!After(b, j)
            BY <1>5, <2>2
        <3>2. f[Message!After(b, j)] \in Data
            BY <1>1, <1>5, <2>2
        <3>3. F[j][f[Message!After(b, j)]] = f[Message!After(b, j)]
            BY <3>2
        <3> QED BY <2>2, <3>1, <3>3
    <2> QED BY <2>1, <2>2
<1>7. DataEquation(f, b, end)
    <2>1. f = [j \in 0..n |-> f[j]]
        BY <1>5
    <2> QED BY <1>0, <1>6, <2>1, Zenon DEF DataEquation, AtEnd, TooLong
<1>8. DataEquation(from, b, end)
    BY <1>7, DataIsSolution
<1> HIDE DEF from
<1>9. \A j \in 0..n : from[j] = IF AtEnd(j, end) THEN [is |-> "none", value |-> <<>>]
                                ELSE IF TooLong(b, j, end) THEN [is |-> "error", value |-> <<>>]
                                ELSE IF Message!TypeAt(b, j) = DATA
                                     THEN [is |-> "data", value |-> Message!ValueAt(b, j)]
                                ELSE from[Message!After(b, j)]
    BY <1>0, <1>8, Zenon DEF DataEquation, AtEnd, TooLong
<1> QED BY <1>0, <1>9 DEF from

-----------------------------------------------------------------------------
(* The first DATA attribute *)

FirstData(s) == Message!SelectInSeq(s, LAMBDA a : a.type = DATA)

LEMMA FirstDataMeans ==
    ASSUME NEW s \in Seq(Attrs), NEW k, k = FirstData(s)
    PROVE  \/ k = 0 /\ \A j \in 1..Len(s) : s[j].type # DATA
           \/ /\ k \in 1..Len(s) /\ s[k].type = DATA
              /\ \A j \in 1..Len(s) : s[j].type = DATA => k <= j
<1> DEFINE T == {j \in 1..Len(s) : s[j].type = DATA}
<1>1. k = IF T # {} THEN Message!Min(T) ELSE 0
    BY DEF FirstData, Message!SelectInSeq
<1>2. T # {} => k = CHOOSE x \in T : \A y \in T : x <= y
    BY <1>1 DEF Message!Min
<1>3. Len(s) \in Nat /\ T \in SUBSET (1..Len(s))
    OBVIOUS
<1>4. T = {} => \A j \in 1..Len(s) : s[j].type # DATA
    OBVIOUS
<1>5. \A j \in 1..Len(s) : s[j].type = DATA => j \in T
    OBVIOUS
<1> HIDE DEF T
<1>6. T # {} => k \in T /\ \A y \in T : k <= y
    <2>1. T # {} => \E x \in T : \A y \in T : x <= y
        BY <1>3, FirstAndLast
    <2> QED BY <1>2, <2>1
<1>7. CASE T = {}
    BY <1>1, <1>4, <1>7
<1>8. CASE T # {}
    <2>1. k \in 1..Len(s) /\ s[k].type = DATA
        BY <1>6, <1>8 DEF T
    <2> QED BY <1>5, <1>6, <1>8, <2>1
<1> QED BY <1>7, <1>8

LEMMA FirstDataInFront ==
    ASSUME NEW s \in Seq(Attrs), NEW a \in Attrs
    PROVE  LET w == <<a>> \o s
           IN  /\ a.type = DATA => FirstData(w) = 1 /\ w[FirstData(w)] = a
               /\ a.type # DATA /\ FirstData(s) = 0 => FirstData(w) = 0
               /\ a.type # DATA /\ FirstData(s) # 0 =>
                     FirstData(w) # 0 /\ w[FirstData(w)] = s[FirstData(s)]
<1> DEFINE w == <<a>> \o s
<1>1. PICK n \in Nat : n = Len(s)
    OBVIOUS
<1>2. <<a>> \in Seq(Attrs) /\ Len(<<a>>) = 1 /\ <<a>>[1] = a
    OBVIOUS
<1>3. /\ w \in Seq(Attrs) /\ Len(w) = n + 1 /\ w[1] = a
      /\ \A j \in 1..n : w[j + 1] = s[j]
    <2> DEFINE o == <<a>>
    <2> HIDE DEF o
    <2>1. o \in Seq(Attrs) /\ Len(o) = 1 /\ o[1] = a
        BY <1>2 DEF o
    <2>2. /\ o \o s \in Seq(Attrs)
          /\ Len(o \o s) = Len(o) + Len(s)
          /\ \A k \in 1..Len(o) : (o \o s)[k] = o[k]
          /\ \A k \in 1..Len(s) : (o \o s)[Len(o) + k] = s[k]
        <3>1. o \in Seq(Attrs)
            BY <2>1
        <3> QED BY <3>1, ConcatMeans
    <2> DEFINE c == o \o s
    <2> HIDE DEF c
    <2>3. /\ c \in Seq(Attrs) /\ Len(c) = Len(o) + Len(s)
          /\ \A k \in 1..Len(o) : c[k] = o[k]
          /\ \A k \in 1..Len(s) : c[Len(o) + k] = s[k]
        BY <2>2 DEF c
    <2>4. /\ Len(c) = 1 + n /\ \A k \in 1..1 : c[k] = o[k]
          /\ \A k \in 1..n : c[1 + k] = s[k]
        BY <1>1, <2>1, <2>3, Zenon
    <2>5. c[1] = a
        BY <2>1, <2>4
    <2>6. \A k \in 1..n : c[k + 1] = s[k]
        <3>1. \A k \in 1..n : k + 1 = 1 + k
            OBVIOUS
        <3> QED BY <2>4, <3>1
    <2>7. c = w
        BY DEF c, o
    <2>8. Len(c) = n + 1
        BY <2>4
    <2> QED BY <2>3, <2>5, <2>6, <2>7, <2>8, Zenon
<1> HIDE DEF w
<1>4. PICK k : k = FirstData(s)
    OBVIOUS
<1>5. PICK m : m = FirstData(w)
    OBVIOUS
<1>6. \/ k = 0 /\ \A j \in 1..n : s[j].type # DATA
      \/ /\ k \in 1..n /\ s[k].type = DATA
         /\ \A j \in 1..n : s[j].type = DATA => k <= j
    BY <1>1, <1>4, FirstDataMeans
<1>7. \/ m = 0 /\ \A j \in 1..n + 1 : w[j].type # DATA
      \/ /\ m \in 1..n + 1 /\ w[m].type = DATA
         /\ \A j \in 1..n + 1 : w[j].type = DATA => m <= j
    <2>1. \/ m = 0 /\ \A j \in 1..Len(w) : w[j].type # DATA
          \/ /\ m \in 1..Len(w) /\ w[m].type = DATA
             /\ \A j \in 1..Len(w) : w[j].type = DATA => m <= j
        BY <1>3, <1>5, FirstDataMeans
    <2>2. Len(w) = n + 1
        BY <1>3
    <2> QED BY <2>1, <2>2
<1>8. 1 \in 1..n + 1 /\ \A j \in 1..n : j + 1 \in 1..n + 1
    OBVIOUS
<1>9. CASE a.type = DATA
    <2>1. m = 1
        BY <1>3, <1>7, <1>8, <1>9
    <2> QED BY <1>3, <1>5, <1>9, <2>1 DEF w
<1>10. CASE a.type # DATA
    <2>1. \A j \in 1..n + 1 : w[j].type = DATA => j - 1 \in 1..n /\ s[j - 1].type = DATA /\ w[j] = s[j - 1]
        <3> TAKE j \in 1..n + 1
        <3> HAVE w[j].type = DATA
        <3>1. j # 1
            BY <1>3, <1>10
        <3>2. j - 1 \in 1..n /\ (j - 1) + 1 = j
            BY <3>1
        <3> QED BY <1>3, <3>2
    <2>2. CASE k = 0
        <3>1. m = 0
            BY <1>6, <1>7, <2>1, <2>2
        <3> QED BY <1>4, <1>5, <1>10, <2>2, <3>1 DEF w
    <2>3. CASE k # 0
        <3>1. k \in 1..n /\ s[k].type = DATA /\ \A j \in 1..n : s[j].type = DATA => k <= j
            BY <1>6, <2>3
        <3>2. k + 1 \in 1..n + 1 /\ w[k + 1].type = DATA
            BY <1>3, <1>8, <3>1
        <3>3. m \in 1..n + 1 /\ w[m].type = DATA /\ m <= k + 1
            BY <1>7, <3>2
        <3>4. k <= m - 1
            BY <2>1, <3>1, <3>3
        <3>5. m = k + 1
            BY <3>1, <3>3, <3>4
        <3>6. w[m] = s[k] /\ m # 0
            BY <1>3, <3>1, <3>5
        <3> QED BY <1>4, <1>5, <1>10, <2>3, <3>6 DEF w
    <2> QED BY <2>2, <2>3
<1> QED BY <1>9, <1>10

-----------------------------------------------------------------------------
(* The two walkers agree *)

Seen(walk) ==
    IF FirstData(walk.attrs) # 0
    THEN [is |-> "data", value |-> walk.attrs[FirstData(walk.attrs)].value]
    ELSE [is |-> IF walk.ok THEN "none" ELSE "error", value |-> <<>>]

LEMMA NothingSeen ==
    ASSUME NEW ok \in BOOLEAN
    PROVE  Seen([ok |-> ok, attrs |-> <<>>]) = [is |-> IF ok THEN "none" ELSE "error", value |-> <<>>]
<1>0. <<>> \in Seq(Attrs) /\ Len(<<>>) = 0
    OBVIOUS
<1>1. PICK s \in Seq(Attrs) : s = <<>> /\ Len(s) = 0
    BY <1>0
<1>2. PICK k : k = FirstData(s)
    OBVIOUS
<1>3. \/ k = 0 /\ \A j \in 1..Len(s) : s[j].type # DATA
      \/ /\ k \in 1..Len(s) /\ s[k].type = DATA
         /\ \A j \in 1..Len(s) : s[j].type = DATA => k <= j
    BY <1>1, <1>2, FirstDataMeans
<1>4. k = 0
    BY <1>1, <1>3
<1>5. FirstData(<<>>) = 0
    BY <1>1, <1>2, <1>4
<1> QED BY <1>5 DEF Seen

LEMMA SeenInFront ==
    ASSUME NEW walk \in Walked, NEW a \in Attrs
    PROVE  Seen(With(walk, a)) = IF a.type = DATA THEN [is |-> "data", value |-> a.value] ELSE Seen(walk)
<1> DEFINE longer == With(walk, a)
<1>1. longer.ok = walk.ok /\ longer.attrs = <<a>> \o walk.attrs
    BY WithMeans
<1>2. walk.attrs \in Seq(Attrs)
    BY DEF Walked
<1> HIDE DEF longer
<1>6. PICK s \in Seq(Attrs) : s = walk.attrs
    BY <1>2
<1>7. PICK w : w = <<a>> \o s
    OBVIOUS
<1>8. longer.attrs = w
    BY <1>1, <1>6, <1>7
<1>3. /\ a.type = DATA => FirstData(w) = 1 /\ w[FirstData(w)] = a
      /\ a.type # DATA /\ FirstData(s) = 0 => FirstData(w) = 0
      /\ a.type # DATA /\ FirstData(s) # 0 => FirstData(w) # 0 /\ w[FirstData(w)] = s[FirstData(s)]
    BY <1>6, <1>7, FirstDataInFront
<1>4. Seen(longer) = IF a.type = DATA THEN [is |-> "data", value |-> a.value] ELSE Seen(walk)
    <2>1. Seen(longer) = IF FirstData(w) # 0 THEN [is |-> "data", value |-> w[FirstData(w)].value]
                         ELSE [is |-> IF longer.ok THEN "none" ELSE "error", value |-> <<>>]
        BY <1>8 DEF Seen
    <2>2. Seen(walk) = IF FirstData(s) # 0 THEN [is |-> "data", value |-> s[FirstData(s)].value]
                       ELSE [is |-> IF walk.ok THEN "none" ELSE "error", value |-> <<>>]
        BY <1>6 DEF Seen
    <2>3. CASE a.type = DATA
        BY <1>3, <2>1, <2>3
    <2>4. CASE a.type # DATA /\ FirstData(s) = 0
        BY <1>1, <1>3, <2>1, <2>2, <2>4
    <2>5. CASE a.type # DATA /\ FirstData(s) # 0
        BY <1>3, <2>1, <2>2, <2>5
    <2> QED BY <2>3, <2>4, <2>5
<1> QED BY <1>4 DEF longer

LEMMA WalkersAgree ==
    ASSUME NEW b \in Seq(Octet), NEW end \in 0..Len(b)
    PROVE  \A j \in 0..end + 3 : Message!DataFrom(b, end)[j] = Seen(Message!AttrsFrom(b, end)[j])
<1>0. PICK n \in Nat : n = end + 3
    OBVIOUS
<1> DEFINE A == Message!AttrsFrom(b, end)
           D == Message!DataFrom(b, end)
           T == {j \in 0..n : D[j] = Seen(A[j])}
<1>1. \A j \in 0..n : /\ A[j] \in Walked
                      /\ A[j] = IF AtEnd(j, end) THEN [ok |-> TRUE, attrs |-> <<>>]
                                ELSE IF TooLong(b, j, end) THEN [ok |-> FALSE, attrs |-> <<>>]
                                ELSE With(A[Message!After(b, j)], AttrAt(b, j))
    BY <1>0, WalkMeans
<1>2. \A j \in 0..n : D[j] = IF AtEnd(j, end) THEN [is |-> "none", value |-> <<>>]
                             ELSE IF TooLong(b, j, end) THEN [is |-> "error", value |-> <<>>]
                             ELSE IF Message!TypeAt(b, j) = DATA
                                  THEN [is |-> "data", value |-> Message!ValueAt(b, j)]
                             ELSE D[Message!After(b, j)]
    BY <1>0, DataMeans
<1>3. \A j \in 0..n : ~AtEnd(j, end) /\ ~TooLong(b, j, end) =>
          /\ AttrAt(b, j) \in Attrs
          /\ Message!After(b, j) \in 0..n /\ Message!After(b, j) > j
    BY <1>0, AttrAtMeans
<1> HIDE DEF A, D
<1>4. ASSUME NEW k \in 0..n, \A j \in 0..n : j > k => j \in T
      PROVE  k \in T
    <2>1. CASE AtEnd(k, end)
        <3>1. D[k] = [is |-> "none", value |-> <<>>] /\ A[k] = [ok |-> TRUE, attrs |-> <<>>]
            BY <1>1, <1>2, <2>1
        <3>2. Seen([ok |-> TRUE, attrs |-> <<>>]) = [is |-> "none", value |-> <<>>]
            BY NothingSeen
        <3> QED BY <3>1, <3>2
    <2>2. CASE ~AtEnd(k, end) /\ TooLong(b, k, end)
        <3>1. D[k] = [is |-> "error", value |-> <<>>] /\ A[k] = [ok |-> FALSE, attrs |-> <<>>]
            BY <1>1, <1>2, <2>2
        <3>2. Seen([ok |-> FALSE, attrs |-> <<>>]) = [is |-> "error", value |-> <<>>]
            BY NothingSeen
        <3> QED BY <3>1, <3>2
    <2>3. CASE ~AtEnd(k, end) /\ ~TooLong(b, k, end)
        <3>1. PICK next \in 0..n : next = Message!After(b, k) /\ next > k
            BY <1>3, <2>3
        <3>2. PICK a \in Attrs : a = AttrAt(b, k)
            BY <1>3, <2>3
        <3>3. a.type = Message!TypeAt(b, k) /\ a.value = Message!ValueAt(b, k)
            BY <3>2 DEF AttrAt
        <3>4. A[k] = With(A[next], a) /\ A[next] \in Walked
            BY <1>1, <2>3, <3>1, <3>2
        <3>5. D[k] = IF a.type = DATA THEN [is |-> "data", value |-> a.value] ELSE D[next]
            BY <1>2, <2>3, <3>1, <3>3
        <3>6. D[next] = Seen(A[next])
            BY <1>4, <3>1
        <3>7. Seen(A[k]) = IF a.type = DATA THEN [is |-> "data", value |-> a.value] ELSE Seen(A[next])
            BY <3>4, SeenInFront
        <3> QED BY <3>5, <3>6, <3>7
    <2> QED BY <2>1, <2>2, <2>3
<1> HIDE DEF T
<1>5. \A k \in 0..n : k \in T
    BY <1>4, Downward
<1> QED BY <1>0, <1>5 DEF T, A, D

-----------------------------------------------------------------------------
(* What was appended is read *)

\* An attribute that stands within is what the walker has in front of it.
LEMMA StandingIsRead ==
    ASSUME NEW b \in Seq(Octet), Len(b) < Message!W16, NEW p \in Nat, NEW a \in Attrs,
           Stands(b, p, a)
    PROVE  /\ ~AtEnd(p, Len(b)) /\ ~TooLong(b, p, Len(b)) /\ AttrAt(b, p) = a
           /\ Message!After(b, p) = p + 4 + Len(a.value) + Message!Pad(a.value)
<1>1. PICK n \in Nat, l \in Nat, w \in Nat : n = Len(b) /\ l = Len(a.value) /\ w = Message!W16
    BY W16Means DEF Attrs
<1>2. PICK v \in Seq(Octet) : v = a.value
    BY DEF Attrs
<1>3. /\ p + 4 + l <= n
      /\ l < w => Message!TypeAt(b, p) = a.type /\ Message!LengthAt(b, p) = l
      /\ \A q \in 1..l : b[p + 4 + q] = v[q]
    BY <1>1, <1>2 DEF Stands
<1>4. l < w
    <2>1. n < w
        BY <1>1
    <2>2. p + 4 + l <= n
        BY <1>3
    <2>3. n \in Nat /\ l \in Nat /\ w \in Nat
        BY <1>1
    <2> QED BY <2>1, <2>2, <2>3
<1>5. Message!TypeAt(b, p) = a.type /\ Message!LengthAt(b, p) = l
    BY <1>3, <1>4
<1>6. ~(p + 4 > n) /\ ~(p + 4 + l > n)
    BY <1>3
<1>7. ~AtEnd(p, Len(b)) /\ ~TooLong(b, p, Len(b))
    BY <1>1, <1>5, <1>6 DEF AtEnd, TooLong
<1>8. Message!ValueAt(b, p) = v
    <2> DEFINE s == SubSeq(b, p + 5, p + 4 + l)
    <2>1. p + 5 \in Nat \ {0} /\ p + 4 + l \in 0..Len(b) /\ p + 5 <= p + 4 + l + 1
        <3>1. p + 5 \in Nat \ {0} /\ p + 4 + l \in 0..n /\ p + 5 <= p + 4 + l + 1
            <4>1. p + 4 + l <= n
                BY <1>3
            <4>2. n \in Nat /\ l \in Nat
                BY <1>1
            <4> QED BY <4>1, <4>2
        <3> QED BY <1>1, <3>1, Zenon
    <2>2. /\ s \in Seq(Octet) /\ Len(s) = p + 4 + l - (p + 5) + 1
          /\ \A k \in 1..(p + 4 + l - (p + 5) + 1) : s[k] = b[p + 5 + k - 1]
        BY <2>1, Part
    <2>3. p + 4 + l - (p + 5) + 1 = l /\ \A k \in 1..l : p + 5 + k - 1 = p + 4 + k
        OBVIOUS
    <2> HIDE DEF s
    <2>4. Len(s) = l /\ \A k \in 1..l : s[k] = v[k]
        BY <1>3, <2>2, <2>3
    <2>5. Len(s) = Len(v)
        BY <1>1, <1>2, <2>4
    <2>6. \A k \in 1..Len(s) : s[k] = v[k]
        BY <2>4
    <2>7. s = v
        BY <1>2, <2>2, <2>5, <2>6, SeqEqual
    <2>8. Message!ValueAt(b, p) = SubSeq(b, p + 5, p + 4 + l)
        BY <1>5 DEF Message!ValueAt
    <2> QED BY <2>7, <2>8 DEF s
<1>9. AttrAt(b, p) = a
    BY <1>2, <1>5, <1>8 DEF AttrAt, Attrs
<1>10. Message!After(b, p) = p + 4 + l + Message!Pad(v)
    BY <1>5, <1>8 DEF Message!After
<1> QED BY <1>1, <1>2, <1>7, <1>9, <1>10

LEMMA LaidOutIsRead ==
    ASSUME NEW b \in Seq(Octet), Len(b) < Message!W16, NEW list \in Seq(Attrs),
           NEW at, LaidOut(b, list, at)
    PROVE  Message!WalkAttrs(b, Len(b)) = [ok |-> TRUE, attrs |-> list]
<1>1. PICK m \in Nat, n \in Nat : m = Len(list) /\ n = Len(b)
    OBVIOUS
<1> DEFINE A == Message!AttrsFrom(b, Len(b))
           Rest(k) == SubSeq(list, k + 1, m)
           T == {k \in 0..m : A[at[k + 1]] = [ok |-> TRUE, attrs |-> Rest(k)]}
<1>2. /\ at \in [1..m + 1 -> 0..n] /\ at[1] = 0 /\ at[m + 1] = n
      /\ \A k \in 1..m :
            /\ Stands(b, at[k], list[k])
            /\ at[k + 1] = at[k] + 4 + Len(list[k].value) + Message!Pad(list[k].value)
    BY <1>1 DEF LaidOut
<1>3. \A j \in 0..n + 3 :
          /\ A[j] \in Walked
          /\ A[j] = IF AtEnd(j, Len(b)) THEN [ok |-> TRUE, attrs |-> <<>>]
                    ELSE IF TooLong(b, j, Len(b)) THEN [ok |-> FALSE, attrs |-> <<>>]
                    ELSE With(A[Message!After(b, j)], AttrAt(b, j))
    <2>1. Len(b) \in 0..Len(b)
        BY <1>1
    <2>2. \A j \in 0..Len(b) + 3 :
              LET from == Message!AttrsFrom(b, Len(b))
              IN  /\ from[j] \in Walked
                  /\ from[j] =
                        IF AtEnd(j, Len(b)) THEN [ok |-> TRUE, attrs |-> <<>>]
                        ELSE IF TooLong(b, j, Len(b)) THEN [ok |-> FALSE, attrs |-> <<>>]
                        ELSE With(from[Message!After(b, j)], AttrAt(b, j))
        BY <2>1, WalkMeans
    <2> QED BY <1>1, <2>2
<1> HIDE DEF A
<1>4. ASSUME NEW k \in 0..m, \A j \in 0..m : j > k => j \in T
      PROVE  k \in T
    <2>1. CASE k = m
        <3>1. A[at[k + 1]] = A[n] /\ n \in 0..n + 3
            BY <1>2, <2>1
        <3>2. AtEnd(n, Len(b))
            BY <1>1 DEF AtEnd
        <3>3. A[n] = [ok |-> TRUE, attrs |-> <<>>]
            BY <1>3, <3>1, <3>2
        <3>4. Rest(k) = <<>>
            BY <2>1, SubSeqEmpty
        <3> QED BY <3>1, <3>3, <3>4
    <2>2. CASE k # m
        <3>1. k + 1 \in 0..m /\ k + 1 \in 1..m /\ k + 1 > k
            BY <2>2
        <3>2. PICK p \in Nat : p = at[k + 1] /\ p \in 0..n
            BY <1>2, <3>1
        <3>3. PICK a \in Attrs : a = list[k + 1]
            BY <1>1, <3>1
        <3>4. Stands(b, p, a)
            BY <1>2, <3>1, <3>2, <3>3
        <3>5. /\ ~AtEnd(p, Len(b)) /\ ~TooLong(b, p, Len(b)) /\ AttrAt(b, p) = a
              /\ Message!After(b, p) = p + 4 + Len(a.value) + Message!Pad(a.value)
            BY <3>4, StandingIsRead
        <3>6. Message!After(b, p) = at[k + 1 + 1]
            BY <1>2, <3>1, <3>2, <3>3, <3>5
        <3>7. A[p] = With(A[at[k + 1 + 1]], a)
            <4>1. p \in 0..n + 3
                BY <3>2
            <4> QED BY <1>3, <3>5, <3>6, <4>1
        <3>8. A[at[k + 1 + 1]] = [ok |-> TRUE, attrs |-> Rest(k + 1)]
            BY <1>4, <3>1
        <3>9. Rest(k) = <<a>> \o Rest(k + 1)
            <4>1. SubSeq(list, k + 1, m) = <<list[k + 1]>> \o SubSeq(list, k + 1 + 1, m)
                <5>1. k + 1 \in 1..Len(list) /\ m \in 1..Len(list) /\ k + 1 <= m
                    BY <1>1, <3>1
                <5> QED BY <5>1, SubSeqRecursiveFirst
            <4> QED BY <3>3, <4>1
        <3> HIDE DEF Rest
        <3>10. With([ok |-> TRUE, attrs |-> Rest(k + 1)], a) = [ok |-> TRUE, attrs |-> <<a>> \o Rest(k + 1)]
            <4>1. PICK walk : walk = [ok |-> TRUE, attrs |-> Rest(k + 1)]
                OBVIOUS
            <4>2. walk \in Walked
                <5>1. at[k + 1 + 1] \in 0..n
                    BY <1>2, <3>1
                <5>2. at[k + 1 + 1] \in 0..n + 3
                    BY <5>1
                <5> QED BY <1>3, <3>8, <4>1, <5>2
            <4>3. walk.ok = TRUE /\ walk.attrs = Rest(k + 1)
                BY <4>1
            <4>4. /\ With(walk, a) \in Walked
                  /\ With(walk, a).ok = TRUE /\ With(walk, a).attrs = <<a>> \o Rest(k + 1)
                BY <4>2, <4>3, WithMeans
            <4>5. With(walk, a) = [ok |-> TRUE, attrs |-> <<a>> \o Rest(k + 1)]
                BY <4>4 DEF Walked
            <4> QED BY <4>1, <4>5
        <3> QED BY <3>2, <3>7, <3>8, <3>9, <3>10
    <2> QED BY <2>1, <2>2
<1> HIDE DEF T
<1>5. \A k \in 0..m : k \in T
    BY <1>4, Downward
<1>6. 0 \in T
    BY <1>5
<1>7. A[at[0 + 1]] = [ok |-> TRUE, attrs |-> Rest(0)]
    BY <1>6 DEF T
<1>8. Rest(0) = list
    <2>1. SubSeq(list, 1, Len(list)) = list
        BY SubSeqFull
    <2>2. 0 + 1 = 1
        OBVIOUS
    <2> QED BY <1>1, <2>1, <2>2
<1> HIDE DEF Rest
<1>9. A[0] = [ok |-> TRUE, attrs |-> list]
    <2>1. 0 + 1 = 1
        OBVIOUS
    <2> QED BY <1>2, <1>7, <1>8, <2>1
<1> QED BY <1>9 DEF A, Message!WalkAttrs

-----------------------------------------------------------------------------
(* The inductive invariant of messages.  The properties speak of what is   *)
(* received; what makes them hold is where the attributes of the message   *)
(* lie while it is built, and that what is received is a beginning of it.  *)

Kinds == DOMAIN Message!Requests \cup Message!ServerKinds
Datagram ==
    [method : Kinds \cup {"none"}, length : 0..Message!W16 - 1, cookie : BOOLEAN,
     txid : {0, 1, 2}, body : Seq(Octet)]

MsgTyped ==
    /\ kind \in Kinds /\ phase \in {"building", "sent", "received", "distorted"}
    /\ attrs \in Seq(Attrs)
    /\ msg \in Datagram /\ msg.method = kind /\ msg.cookie = TRUE /\ msg.txid = 1
    /\ got \in Datagram

\* The attributes stand in the body behind one another, padded.
MsgLaidOut ==
    /\ Len(msg.body) % 4 = 0
    /\ \E at : LaidOut(msg.body, attrs, at)

\* Once sent, the length is the body's, as 16 bits.
MsgCounted == phase # "building" => msg.length = Len(msg.body) % Message!W16

\* A signed message ends with the digest over what precedes it.
MsgSigned ==
    phase # "building" /\ Message!Authenticates(kind) =>
        \E front \in Seq(Octet) :
            /\ signed = [method |-> kind, length |-> msg.length, txid |-> 1, body |-> front]
            /\ msg.body = Wrapped(front, Message!MESSAGE_INTEGRITY, Digest)

\* What is received is the message or a beginning of it.
MsgReceived ==
    phase = "received" =>
        \E k \in 0..Len(msg.body) : got = [msg EXCEPT !.body = SubSeq(msg.body, 1, k)]

MsgInv == MsgTyped /\ MsgLaidOut /\ MsgCounted /\ MsgSigned /\ MsgReceived

LEMMA KindsMean ==
    /\ Kinds = {"binding", "allocate", "authed", "permission", "response", "indication"}
    /\ Message!ServerKinds = {"response", "indication"}
    /\ DOMAIN Message!Requests = {"binding", "allocate", "authed", "permission"}
BY DEF Kinds, Message!Requests, Message!ServerKinds

LEMMA LengthFits ==
    ASSUME NEW n \in Nat
    PROVE  n % Message!W16 \in 0..Message!W16 - 1 /\ (n < Message!W16 => n % Message!W16 = n)
<1>1. PICK w \in Nat : w = Message!W16 /\ w > 0
    BY W16Means
<1>2. n % w \in 0..w - 1 /\ (n < w => n % w = n)
    BY <1>1, Division, SmallRemainder
<1> QED BY <1>1, <1>2

LEMMA SmallTypes == 0..5 \subseteq Types
<1>1. PICK w \in Nat : w = Message!W16 /\ w >= 9
    BY W16Means
<1> QED BY <1>1 DEF Types

LEMMA RequestTypes ==
    ASSUME NEW k \in DOMAIN Message!Requests
    PROVE  /\ Len(Message!Requests[k]) \in Nat
           /\ \A n \in 1..Len(Message!Requests[k]) : Message!Requests[k][n] \in 0..5
<1>1. CASE k = "binding"
    <2>1. Message!Requests[k] = <<>>
        BY <1>1 DEF Message!Requests
    <2> QED BY <2>1
<1>2. CASE k = "allocate"
    <2>1. Message!Requests[k] = <<1>>
        BY <1>2 DEF Message!Requests, Message!REQUESTED_TRANSPORT
    <2>2. Len(<<1>>) = 1 /\ <<1>>[1] = 1
        OBVIOUS
    <2> QED BY <2>1, <2>2
<1>3. CASE k = "authed"
    <2>1. Message!Requests[k] = <<1, 3, 4, 5>>
        BY <1>3 DEF Message!Requests, Message!REQUESTED_TRANSPORT, Message!USERNAME,
                    Message!REALM, Message!NONCE
    <2>2. <<1, 3, 4, 5>> \in Seq(0..5)
        OBVIOUS
    <2> QED BY <2>1, <2>2
<1>4. CASE k = "permission"
    <2>1. Message!Requests[k] = <<2, 3, 4, 5>>
        BY <1>4 DEF Message!Requests, Message!XOR_PEER_ADDRESS, Message!USERNAME,
                    Message!REALM, Message!NONCE
    <2>2. <<2, 3, 4, 5>> \in Seq(0..5)
        OBVIOUS
    <2> QED BY <2>1, <2>2
<1> QED BY <1>1, <1>2, <1>3, <1>4, KindsMean

LEMMA NextTypesMean ==
    ASSUME MsgTyped, NEW t \in Message!NextTypes
    PROVE  t \in Types
<1>1. CASE kind \in Message!ServerKinds
    <2>1. t \in AttrTypes
        BY <1>1 DEF Message!NextTypes
    <2> QED BY <2>1, DigitalMeans
<1>2. CASE kind \notin Message!ServerKinds
    <2>1. kind \in DOMAIN Message!Requests
        BY <1>2 DEF MsgTyped, Kinds
    <2>2. PICK n \in Nat, m \in Nat : n = Len(attrs) /\ m = Len(Message!Requests[kind])
        BY <2>1, RequestTypes DEF MsgTyped
    <2>3. n < m /\ t = Message!Requests[kind][n + 1]
        BY <1>2, <2>2 DEF Message!NextTypes
    <2>4. n + 1 \in 1..m
        BY <2>3
    <2>5. t \in 0..5
        BY <2>1, <2>2, <2>3, <2>4, RequestTypes
    <2> QED BY <2>5, SmallTypes
<1> QED BY <1>1, <1>2

LEMMA ValuesOfMeans ==
    ASSUME NEW t, NEW v \in Message!ValuesOf(t)
    PROVE  v \in Seq(Octet)
<1>1. <<1, 0, 0, 0>> \in Seq(Octet)
    <2>1. 0 \in Octet /\ 1 \in Octet
        BY DigitalMeans DEF Octet
    <2> QED BY <2>1
<1>2. v = <<1, 0, 0, 0>> \/ v = PeerValue \/ v \in Values
    BY DEF Message!ValuesOf
<1> QED BY <1>1, <1>2, DigitalMeans

LEMMA NothingIsLaidOut == \E at : LaidOut(<<>>, <<>>, at)
<1> DEFINE none == <<>>
<1>1. none \in Seq(Attrs) /\ Len(none) = 0 /\ 0 + 1 = 1
    OBVIOUS
<1> HIDE DEF none
<1> DEFINE at == [k \in 1..1 |-> 0]
<1>2. at \in [1..1 -> 0..0] /\ at[1] = 0
    OBVIOUS
<1> HIDE DEF at
<1>3. at \in [1..Len(none) + 1 -> 0..Len(none)] /\ at[1] = 0 /\ at[Len(none) + 1] = Len(none)
    BY <1>1, <1>2
<1>4. \A k \in 1..Len(none) : FALSE
    BY <1>1
<1>5. LaidOut(none, none, at)
    BY <1>3, <1>4 DEF LaidOut
<1> QED BY <1>5 DEF none

LEMMA MsgInit == Message!Init => MsgInv
<1> SUFFICES ASSUME Message!Init PROVE MsgInv
    OBVIOUS
<1>1. /\ kind \in Kinds /\ attrs = <<>> /\ phase = "building"
      /\ msg = [method |-> kind, length |-> 0, cookie |-> TRUE, txid |-> 1, body |-> <<>>]
      /\ got = [method |-> "none", length |-> 0, cookie |-> TRUE, txid |-> 0, body |-> <<>>]
    BY DEF Message!Init, Message!StunHeader, Kinds
<1>2. 0 \in 0..Message!W16 - 1 /\ <<>> \in Seq(Octet) /\ <<>> \in Seq(Attrs)
    BY W16Means
<1>3. MsgTyped
    <2>1. msg \in Datagram /\ got \in Datagram
        BY <1>1, <1>2 DEF Datagram
    <2>2. msg.method = kind /\ msg.cookie = TRUE /\ msg.txid = 1
        BY <1>1
    <2> QED BY <1>1, <1>2, <2>1, <2>2 DEF MsgTyped
<1>4. MsgLaidOut
    <2>1. msg.body = <<>> /\ Len(<<>>) % 4 = 0
        BY <1>1
    <2> QED BY <1>1, <2>1, NothingIsLaidOut DEF MsgLaidOut
<1>5. MsgCounted /\ MsgSigned /\ MsgReceived
    BY <1>1 DEF MsgCounted, MsgSigned, MsgReceived
<1> QED BY <1>3, <1>4, <1>5 DEF MsgInv

-----------------------------------------------------------------------------

LEMMA MsgAppend == MsgInv /\ Message!AppendNext => MsgInv'
<1> SUFFICES ASSUME MsgInv, Message!AppendNext PROVE MsgInv'
    OBVIOUS
<1>0. /\ MsgTyped /\ MsgLaidOut
    BY DEF MsgInv
<1>1. /\ phase = "building" /\ kind' = kind /\ signed' = signed /\ got' = got /\ phase' = phase
    BY DEF Message!AppendNext
<1>2. PICK t \in Message!NextTypes : \E v \in Message!ValuesOf(t) :
          /\ attrs' = Append(attrs, [type |-> t, value |-> v])
          /\ msg' = Message!AppendAttr(msg, t, v)
    BY DEF Message!AppendNext
<1>3. PICK v \in Message!ValuesOf(t) :
          /\ attrs' = Append(attrs, [type |-> t, value |-> v])
          /\ msg' = Message!AppendAttr(msg, t, v)
    BY <1>2
<1>4. t \in Types /\ v \in Seq(Octet)
    BY <1>0, NextTypesMean, ValuesOfMeans
<1> DEFINE z == [k \in 1..Message!Pad(v) |-> 0]
<1>5. z \in Seq(Octet) /\ Len(z) = Message!Pad(v)
    <2>1. PICK pad \in 0..3 : pad = Message!Pad(v)
        <3>1. PICK len \in Nat : len = Len(v)
            BY <1>4
        <3> QED BY <1>4, <3>1, PadMeans
    <2>2. 0 \in Octet
        BY DigitalMeans DEF Octet
    <2>3. [k \in 1..pad |-> 0] \in Seq(Octet) /\ Len([k \in 1..pad |-> 0]) = pad
        BY <2>2
    <2> QED BY <2>1, <2>3
<1> HIDE DEF z
<1>6. PICK b \in Seq(Octet) : b = msg.body
    BY <1>0 DEF MsgTyped, Datagram
<1>7. msg' = [msg EXCEPT !.body = Wrapped(b, t, v) \o z]
    BY <1>3, <1>6 DEF Message!AppendAttr, Wrapped, z
<1>8. attrs \in Seq(Attrs) /\ Len(b) % 4 = 0 /\ \E at : LaidOut(b, attrs, at)
    BY <1>0, <1>6 DEF MsgTyped, MsgLaidOut
<1>9. PICK at : LaidOut(b, attrs, at)
    BY <1>8
<1>10. PICK c \in Seq(Octet) : c = Wrapped(b, t, v) \o z /\ Len(c) % 4 = 0 /\ \E to : LaidOut(c, attrs', to)
    <2>1. /\ Wrapped(b, t, v) \o z \in Seq(Octet) /\ Len(Wrapped(b, t, v) \o z) % 4 = 0
          /\ \E to : LaidOut(Wrapped(b, t, v) \o z, Append(attrs, [type |-> t, value |-> v]), to)
        BY <1>4, <1>5, <1>8, <1>9, AppendLaidOut
    <2> QED BY <1>3, <2>1
<1>11. msg' = [msg EXCEPT !.body = c]
    BY <1>7, <1>10
<1>12. MsgTyped'
    <2>1. attrs' \in Seq(Attrs)
        <3>1. [type |-> t, value |-> v] \in Attrs
            BY <1>4 DEF Attrs
        <3> QED BY <1>3, <1>8, <3>1, AppendProperties
    <2>2. msg' \in Datagram /\ msg'.method = kind /\ msg'.cookie = TRUE /\ msg'.txid = 1
        <3>1. msg \in Datagram /\ msg.method = kind /\ msg.cookie = TRUE /\ msg.txid = 1
            BY <1>0 DEF MsgTyped
        <3> QED BY <1>10, <1>11, <3>1 DEF Datagram
    <2> QED BY <1>0, <1>1, <2>1, <2>2 DEF MsgTyped
<1>13. MsgLaidOut'
    <2>1. msg'.body = c
        BY <1>0, <1>11 DEF MsgTyped, Datagram
    <2> QED BY <1>10, <2>1 DEF MsgLaidOut
<1>14. MsgCounted' /\ MsgSigned' /\ MsgReceived'
    BY <1>1 DEF MsgCounted, MsgSigned, MsgReceived
<1> QED BY <1>12, <1>13, <1>14 DEF MsgInv

LEMMA MsgSendPlain == MsgInv /\ Message!SendPlain => MsgInv'
<1> SUFFICES ASSUME MsgInv, Message!SendPlain PROVE MsgInv'
    OBVIOUS
<1>0. MsgTyped /\ MsgLaidOut
    BY DEF MsgInv
<1>1. /\ phase' = "sent" /\ kind' = kind /\ attrs' = attrs /\ signed' = signed /\ got' = got
      /\ msg' = [msg EXCEPT !.length = Len(msg.body) % Message!W16]
      /\ ~Message!Authenticates(kind)
    BY DEF Message!SendPlain, Message!SetAttrsLength
<1>2. msg \in Datagram /\ msg.method = kind /\ msg.cookie = TRUE /\ msg.txid = 1
    BY <1>0 DEF MsgTyped
<1>3. PICK length \in 0..Message!W16 - 1 : length = Len(msg.body) % Message!W16
    <2>1. Len(msg.body) \in Nat
        BY <1>2 DEF Datagram
    <2> QED BY <2>1, LengthFits
<1>4. /\ msg' \in Datagram /\ msg'.method = kind /\ msg'.cookie = TRUE /\ msg'.txid = 1
      /\ msg'.body = msg.body /\ msg'.length = length
    BY <1>1, <1>2, <1>3 DEF Datagram
<1>5. MsgTyped'
    BY <1>0, <1>1, <1>4 DEF MsgTyped
<1>6. MsgLaidOut'
    BY <1>0, <1>1, <1>4 DEF MsgLaidOut
<1>7. MsgCounted'
    BY <1>3, <1>4 DEF MsgCounted
<1>8. MsgSigned' /\ MsgReceived'
    BY <1>1 DEF MsgSigned, MsgReceived, Message!Authenticates
<1> QED BY <1>5, <1>6, <1>7, <1>8 DEF MsgInv

LEMMA MsgSendSigned == MsgInv /\ Message!SendSigned => MsgInv'
<1> SUFFICES ASSUME MsgInv, Message!SendSigned PROVE MsgInv'
    OBVIOUS
<1>0. MsgTyped /\ MsgLaidOut
    BY DEF MsgInv
<1> DEFINE t == Message!MESSAGE_INTEGRITY
<1>1. PICK b \in Seq(Octet) : b = msg.body
    BY <1>0 DEF MsgTyped, Datagram
<1>2. msg \in Datagram /\ msg.method = kind /\ msg.cookie = TRUE /\ msg.txid = 1
    BY <1>0 DEF MsgTyped
<1>3. PICK length \in 0..Message!W16 - 1 : length = (Len(b) + 4 + Len(Digest)) % Message!W16
    <2>1. Len(b) + 4 + Len(Digest) \in Nat
        BY DigitalMeans
    <2> QED BY <2>1, LengthFits
<1>4. PICK m : m = [msg EXCEPT !.length = length]
    OBVIOUS
<1>5. m = Message!WithIntegrityLength(msg)
    BY <1>1, <1>3, <1>4 DEF Message!WithIntegrityLength
<1>6. /\ phase' = "sent" /\ kind' = kind /\ got' = got
      /\ attrs' = Append(attrs, [type |-> t, value |-> Digest])
      /\ signed' = [method |-> m.method, length |-> m.length, txid |-> m.txid, body |-> m.body]
      /\ msg' = [m EXCEPT !.body = @ \o Message!Octets16(t) \o Message!Octets16(Len(Digest)) \o Digest]
    BY <1>5, Zenon DEF Message!SendSigned
<1>7. m \in Datagram /\ m.method = kind /\ m.cookie = TRUE /\ m.txid = 1 /\ m.body = b /\ m.length = length
    BY <1>1, <1>2, <1>3, <1>4 DEF Datagram
<1>8. t \in Types
    <2>1. t \in 0..5
        BY DEF Message!MESSAGE_INTEGRITY
    <2> QED BY <2>1, SmallTypes
<1>9. attrs \in Seq(Attrs) /\ Len(b) % 4 = 0 /\ \E at : LaidOut(b, attrs, at)
    BY <1>0, <1>1 DEF MsgTyped, MsgLaidOut
<1>10. PICK at : LaidOut(b, attrs, at)
    BY <1>9
<1> HIDE DEF t
<1>11. PICK c \in Seq(Octet) : /\ c = Wrapped(b, t, Digest) /\ Len(c) = Len(b) + 4 + Len(Digest)
                               /\ Len(c) % 4 = 0 /\ \E to : LaidOut(c, attrs', to)
    <2>1. /\ Wrapped(b, t, Digest) \in Seq(Octet)
          /\ Len(Wrapped(b, t, Digest)) = Len(b) + 4 + Len(Digest)
        BY <1>8, DigitalMeans, WrappedStands
    <2>0. <<>> \in Seq(Octet)
        OBVIOUS
    <2>2. PICK z \in Seq(Octet) : z = <<>>
        BY <2>0
    <2>3. Len(z) = Message!Pad(Digest)
        <3>1. Message!Pad(Digest) = (4 - (Len(Digest) % 4)) % 4
            BY DEF Message!Pad
        <3>3. Len(Digest) % 4 = 0
            BY DigitalMeans
        <3>4. (4 - 0) % 4 = 0
            OBVIOUS
        <3>2. Message!Pad(Digest) = 0
            BY <3>1, <3>3, <3>4, Zenon
        <3> QED BY <2>2, <3>2
    <2>4. /\ Len(Wrapped(b, t, Digest) \o z) % 4 = 0
          /\ \E to : LaidOut(Wrapped(b, t, Digest) \o z, Append(attrs, [type |-> t, value |-> Digest]), to)
        BY <1>8, <1>9, <1>10, <2>3, DigitalMeans, AppendLaidOut
    <2>5. Wrapped(b, t, Digest) \o z = Wrapped(b, t, Digest)
        BY <2>1, <2>2, ConcatEmptySeq
    <2> QED BY <1>6, <2>1, <2>4, <2>5
<1>12. msg' = [m EXCEPT !.body = c]
    BY <1>6, <1>7, <1>11 DEF Wrapped
<1>13. /\ msg' \in Datagram /\ msg'.method = kind /\ msg'.cookie = TRUE /\ msg'.txid = 1
       /\ msg'.body = c /\ msg'.length = length
    BY <1>7, <1>11, <1>12 DEF Datagram
<1>14. MsgTyped'
    <2>1. attrs' \in Seq(Attrs)
        <3>1. [type |-> t, value |-> Digest] \in Attrs
            BY <1>8, DigitalMeans DEF Attrs
        <3> QED BY <1>6, <1>9, <3>1, AppendProperties
    <2> QED BY <1>0, <1>6, <1>13, <2>1 DEF MsgTyped
<1>15. MsgLaidOut'
    BY <1>11, <1>13 DEF MsgLaidOut
<1>16. MsgCounted'
    <2>1. length = Len(c) % Message!W16
        BY <1>3, <1>11
    <2> QED BY <1>13, <2>1 DEF MsgCounted
<1>17. MsgSigned'
    <2>1. signed' = [method |-> kind', length |-> msg'.length, txid |-> 1, body |-> b]
        BY <1>6, <1>7, <1>13
    <2>2. msg'.body = Wrapped(b, t, Digest)
        BY <1>11, <1>13
    <2>3. \E front \in Seq(Octet) :
              /\ signed' = [method |-> kind', length |-> msg'.length, txid |-> 1, body |-> front]
              /\ msg'.body = Wrapped(front, t, Digest)
        BY <2>1, <2>2
    <2> QED BY <2>3 DEF MsgSigned, Wrapped, t, Message!MESSAGE_INTEGRITY, Message!Octets16, Message!W16
<1>18. MsgReceived'
    BY <1>6 DEF MsgReceived
<1> QED BY <1>14, <1>15, <1>16, <1>17, <1>18 DEF MsgInv

LEMMA MsgDeliver == MsgInv /\ Message!Deliver => MsgInv'
<1> SUFFICES ASSUME MsgInv, Message!Deliver PROVE MsgInv'
    OBVIOUS
<1>0. MsgTyped /\ MsgLaidOut /\ MsgCounted /\ MsgSigned
    BY DEF MsgInv
<1>1. /\ phase = "sent" /\ phase' = "received"
      /\ kind' = kind /\ attrs' = attrs /\ msg' = msg /\ signed' = signed
    BY DEF Message!Deliver
<1>2. PICK k \in 0..Len(msg.body) : got' = [msg EXCEPT !.body = SubSeq(msg.body, 1, k)]
    BY DEF Message!Deliver
<1>3. got' \in Datagram
    <2>1. msg \in Datagram /\ msg.body \in Seq(Octet)
        BY <1>0 DEF MsgTyped, Datagram
    <2>2. SubSeq(msg.body, 1, k) \in Seq(Octet)
        <3>1. PICK b \in Seq(Octet) : b = msg.body
            BY <2>1
        <3>2. k \in 0..Len(b) /\ 1 <= k + 1 /\ 1 \in Nat \ {0}
            BY <3>1
        <3>3. SubSeq(b, 1, k) \in Seq(Octet)
            BY <3>2, Part
        <3> QED BY <3>1, <3>3
    <2> QED BY <1>2, <2>1, <2>2 DEF Datagram
<1>4. MsgTyped'
    BY <1>0, <1>1, <1>3 DEF MsgTyped
<1>5. MsgLaidOut' /\ MsgCounted'
    BY <1>0, <1>1 DEF MsgLaidOut, MsgCounted
<1>6. MsgSigned'
    BY <1>0, <1>1 DEF MsgSigned, Message!Authenticates
<1>7. MsgReceived'
    BY <1>1, <1>2 DEF MsgReceived
<1> QED BY <1>4, <1>5, <1>6, <1>7 DEF MsgInv

LEMMA MsgDistort == MsgInv /\ Message!Distort => MsgInv'
<1> SUFFICES ASSUME MsgInv, Message!Distort PROVE MsgInv'
    OBVIOUS
<1>0. MsgTyped /\ MsgLaidOut /\ MsgCounted /\ MsgSigned
    BY DEF MsgInv
<1>1. /\ phase = "received" /\ phase' = "distorted"
      /\ kind' = kind /\ attrs' = attrs /\ msg' = msg /\ signed' = signed
    BY DEF Message!Distort
<1>2. got' \in Datagram
    <2>0. got \in Datagram /\ got.body \in Seq(Octet)
        BY <1>0 DEF MsgTyped, Datagram
    <2>1. CASE \E k \in 1..Len(got.body) : \E octet \in 0..Base - 1 : got' = [got EXCEPT !.body[k] = octet]
        <3>1. PICK k \in 1..Len(got.body), octet \in Octet : got' = [got EXCEPT !.body[k] = octet]
            BY <2>1 DEF Octet
        <3>2. [got.body EXCEPT ![k] = octet] \in Seq(Octet)
            BY <2>0
        <3>3. got' = [got EXCEPT !.body = [got.body EXCEPT ![k] = octet]]
            BY <3>1
        <3> QED BY <2>0, <3>2, <3>3 DEF Datagram
    <2>2. CASE \E n \in 0..Message!W16 - 1 : got' = [got EXCEPT !.length = n]
        BY <2>0, <2>2 DEF Datagram
    <2>3. CASE got' = [got EXCEPT !.cookie = FALSE]
        BY <2>0, <2>3 DEF Datagram
    <2>4. CASE got' = [got EXCEPT !.txid = 2]
        BY <2>0, <2>4 DEF Datagram
    <2> QED BY <2>1, <2>2, <2>3, <2>4 DEF Message!Distort
<1>3. MsgTyped'
    BY <1>0, <1>1, <1>2 DEF MsgTyped
<1>4. MsgLaidOut' /\ MsgCounted'
    BY <1>0, <1>1 DEF MsgLaidOut, MsgCounted
<1>5. MsgSigned'
    BY <1>0, <1>1 DEF MsgSigned, Message!Authenticates
<1>6. MsgReceived'
    BY <1>1 DEF MsgReceived
<1> QED BY <1>3, <1>4, <1>5, <1>6 DEF MsgInv

LEMMA MsgSame ==
    MsgInv /\ kind' = kind /\ attrs' = attrs /\ msg' = msg /\ signed' = signed
    /\ got' = got /\ phase' = phase => MsgInv'
BY DEF MsgInv, MsgTyped, MsgLaidOut, MsgCounted, MsgSigned, MsgReceived, Message!Authenticates

LEMMA MsgNext == MsgInv /\ Message!Next => MsgInv'
<1> SUFFICES ASSUME MsgInv, Message!Next PROVE MsgInv'
    OBVIOUS
<1>1. CASE Message!Done
    BY <1>1, MsgSame DEF Message!Done, Message!vars
<1> QED BY <1>1, MsgAppend, MsgSendPlain, MsgSendSigned, MsgDeliver, MsgDistort DEF Message!Next

-----------------------------------------------------------------------------
(* The properties of messages *)

LEMMA MessageTypes == MsgInv => Message!TypeOK
<1> SUFFICES ASSUME MsgInv PROVE Message!TypeOK
    OBVIOUS
<1>1. MsgTyped /\ MsgLaidOut
    BY DEF MsgInv
<1>2. /\ msg.body \in Seq(Octet) /\ msg.length \in 0..Message!W16 - 1
      /\ got.length \in 0..Message!W16 - 1
    BY <1>1 DEF MsgTyped, Datagram
<1>3. \A k \in 1..Len(msg.body) : msg.body[k] \in 0..Base - 1
    <2>1. PICK b \in Seq(Octet) : b = msg.body
        BY <1>2
    <2>2. \A k \in 1..Len(b) : b[k] \in Octet
        OBVIOUS
    <2> QED BY <2>1, <2>2 DEF Octet
<1> QED BY <1>1, <1>2, <1>3 DEF MsgTyped, MsgLaidOut, Kinds, Message!TypeOK

\* What has arrived is the message, and counts its octets; or it is cut.
LEMMA ReceivedMeans ==
    ASSUME MsgInv, phase = "received", Message!Fits
    PROVE  /\ msg.body \in Seq(Octet) /\ got.body \in Seq(Octet)
           /\ got.length = Len(msg.body) /\ got.cookie = TRUE /\ got.txid = 1 /\ got.method = kind
           /\ Len(got.body) # Len(msg.body) => Len(got.body) < Len(msg.body)
           /\ Len(got.body) = Len(msg.body) => got.body = msg.body
<1>1. MsgTyped /\ MsgCounted /\ MsgReceived
    BY DEF MsgInv
<1>2. PICK b \in Seq(Octet) : b = msg.body
    BY <1>1 DEF MsgTyped, Datagram
<1>3. PICK n \in Nat : n = Len(b) /\ n < Message!W16
    BY <1>2 DEF Message!Fits
<1>4. msg.length = n
    BY <1>1, <1>2, <1>3, LengthFits DEF MsgCounted
<1>5. PICK k \in 0..n : got = [msg EXCEPT !.body = SubSeq(b, 1, k)]
    BY <1>1, <1>2, <1>3 DEF MsgReceived
<1>6. SubSeq(b, 1, k) \in Seq(Octet) /\ Len(SubSeq(b, 1, k)) = k
    <2>1. 1 \in Nat \ {0} /\ k \in 0..Len(b) /\ 1 <= k + 1
        BY <1>3
    <2>2. SubSeq(b, 1, k) \in Seq(Octet) /\ Len(SubSeq(b, 1, k)) = k - 1 + 1
        BY <2>1, Part
    <2> QED BY <2>2
<1>7. /\ got.body = SubSeq(b, 1, k) /\ got.length = msg.length /\ got.cookie = msg.cookie
      /\ got.txid = msg.txid /\ got.method = msg.method
    BY <1>1, <1>5 DEF MsgTyped, Datagram
<1>8. k = n => SubSeq(b, 1, k) = b
    BY <1>2, <1>3, SubSeqFull
<1>9. Len(got.body) = k
    BY <1>6, <1>7
<1>10. got.length = n /\ got.cookie = TRUE /\ got.txid = 1 /\ got.method = kind
    BY <1>1, <1>4, <1>7 DEF MsgTyped
<1> QED BY <1>2, <1>3, <1>6, <1>7, <1>8, <1>9, <1>10

LEMMA WhatIsAppendedIsRead == MsgInv => Message!RoundTrip
<1> SUFFICES ASSUME MsgInv, Message!Arrived, Message!Fits
             PROVE  /\ Message!ParseHeader(got, 1) = "ok"
                    /\ Message!WalkAttrs(got.body, got.length) = [ok |-> TRUE, attrs |-> attrs]
    BY DEF Message!RoundTrip
<1>1. phase = "received" /\ Len(got.body) = Len(msg.body)
    BY DEF Message!Arrived
<1>2. PICK b \in Seq(Octet) : b = msg.body /\ b = got.body /\ got.length = Len(b)
    BY <1>1, ReceivedMeans
<1>3. got.cookie = TRUE /\ got.txid = 1
    BY <1>1, ReceivedMeans
<1>4. Message!ParseHeader(got, 1) = "ok"
    <2>1. ~(Len(got.body) < got.length)
        BY <1>2
    <2> QED BY <1>3, <2>1 DEF Message!ParseHeader
<1>5. Len(b) < Message!W16
    BY <1>2 DEF Message!Fits
<1>6. attrs \in Seq(Attrs) /\ \E at : LaidOut(b, attrs, at)
    BY <1>2 DEF MsgInv, MsgTyped, MsgLaidOut
<1>7. Message!WalkAttrs(b, Len(b)) = [ok |-> TRUE, attrs |-> attrs]
    BY <1>5, <1>6, LaidOutIsRead
<1> QED BY <1>2, <1>4, <1>7

LEMMA ACutIsNoticed == MsgInv => Message!TruncationNoticed
<1> SUFFICES ASSUME MsgInv, phase = "received", Message!Fits, ~Message!Arrived
             PROVE  Message!ParseHeader(got, 1) = "truncated"
    BY DEF Message!TruncationNoticed
<1>1. /\ got.length = Len(msg.body) /\ got.cookie = TRUE /\ got.txid = 1
      /\ Len(got.body) # Len(msg.body) => Len(got.body) < Len(msg.body)
    BY ReceivedMeans
<1>2. Len(got.body) < got.length
    BY <1>1 DEF Message!Arrived
<1> QED BY <1>1, <1>2 DEF Message!ParseHeader

LEMMA TheDigestVerifies == MsgInv => Message!IntegrityVerifies
<1> SUFFICES ASSUME MsgInv, Message!Arrived, Message!Fits, Message!Authenticates(kind)
             PROVE  LET before == Len(got.body) - 4 - Len(Digest)
                    IN signed = [method |-> got.method, length |-> before + 4 + Len(Digest),
                                 txid |-> got.txid, body |-> SubSeq(got.body, 1, before)]
    BY DEF Message!IntegrityVerifies
<1>1. phase = "received" /\ Len(got.body) = Len(msg.body)
    BY DEF Message!Arrived
<1>2. PICK b \in Seq(Octet) : b = msg.body /\ b = got.body /\ got.length = Len(b)
    BY <1>1, ReceivedMeans
<1>3. got.txid = 1 /\ got.method = kind
    BY <1>1, ReceivedMeans
<1>4. msg.length = Len(b)
    <2>1. msg.length = Len(msg.body) % Message!W16
        BY <1>1 DEF MsgInv, MsgCounted
    <2>2. Len(b) \in Nat /\ Len(b) < Message!W16
        BY <1>2 DEF Message!Fits
    <2> QED BY <1>2, <2>1, <2>2, LengthFits
<1>5. PICK front \in Seq(Octet) :
          /\ signed = [method |-> kind, length |-> msg.length, txid |-> 1, body |-> front]
          /\ b = Wrapped(front, Message!MESSAGE_INTEGRITY, Digest)
    BY <1>1, <1>2 DEF MsgInv, MsgSigned
<1>6. PICK n \in Nat, l \in Nat, d \in Nat : n = Len(front) /\ l = Len(b) /\ d = Len(Digest)
    BY DigitalMeans
<1>7. l = n + 4 + d /\ \A k \in 1..n : b[k] = front[k]
    <2>1. Message!MESSAGE_INTEGRITY \in Types
        BY SmallTypes DEF Message!MESSAGE_INTEGRITY
    <2>2. Len(b) = Len(front) + 4 + Len(Digest) /\ \A k \in 1..Len(front) : b[k] = front[k]
        BY <1>5, <2>1, DigitalMeans, WrappedStands
    <2> QED BY <1>6, <2>2
<1>8. SubSeq(b, 1, n) = front
    <2> DEFINE s == SubSeq(b, 1, n)
    <2>1. 1 \in Nat \ {0} /\ n \in 0..Len(b) /\ 1 <= n + 1
        BY <1>6, <1>7, DigitalMeans
    <2>2. /\ s \in Seq(Octet) /\ Len(s) = n - 1 + 1
          /\ \A k \in 1..(n - 1 + 1) : s[k] = b[1 + k - 1]
        BY <2>1, Part
    <2> HIDE DEF s
    <2>3. Len(s) = n /\ \A k \in 1..n : s[k] = b[k]
        <3>1. n - 1 + 1 = n /\ \A k \in 1..n : 1 + k - 1 = k
            OBVIOUS
        <3> QED BY <2>2, <3>1
    <2>4. Len(s) = Len(front) /\ \A k \in 1..Len(s) : s[k] = front[k]
        BY <1>6, <1>7, <2>3
    <2>5. s = front
        BY <2>2, <2>4, SeqEqual
    <2> QED BY <2>5 DEF s
<1>9. l - 4 - d = n /\ n + 4 + d = l
    BY <1>6, <1>7
<1> QED BY <1>2, <1>3, <1>4, <1>5, <1>6, <1>8, <1>9

LEMMA BothWalkersSeeTheSame == MsgInv => Message!DataAgreesWithWalk
<1> DEFINE data == Message!ParseDataIndication(got)
           header == Message!ParseHeader(got, got.txid)
           walk == Message!WalkAttrs(got.body, got.length)
<1> SUFFICES ASSUME MsgInv, got.method = "indication"
             PROVE  IF header # "ok" THEN data.is = "error"
                    ELSE IF FirstData(walk.attrs) # 0
                         THEN data = [is |-> "data", value |-> walk.attrs[FirstData(walk.attrs)].value]
                    ELSE data.is = (IF walk.ok THEN "none" ELSE "error")
    BY DEF Message!DataAgreesWithWalk, FirstData
<1>1. got \in Datagram
    BY DEF MsgInv, MsgTyped
<1>2. PICK b \in Seq(Octet), end \in Nat : b = got.body /\ end = got.length
    BY <1>1, W16Means DEF Datagram
<1>3. CASE ~got.cookie \/ Len(b) < end
    <2>1. data = [is |-> "error", value |-> <<>>]
        BY <1>2, <1>3 DEF Message!ParseDataIndication
    <2>2. header # "ok"
        BY <1>2, <1>3 DEF Message!ParseHeader
    <2> QED BY <2>1, <2>2
<1>4. CASE got.cookie /\ ~(Len(b) < end)
    <2>1. end \in 0..Len(b)
        <3>1. Len(b) \in Nat
            BY <1>2
        <3> QED BY <1>2, <1>4, <3>1
    <2>2. header = "ok"
        BY <1>2, <1>4 DEF Message!ParseHeader
    <2>3. data = Message!DataFrom(b, end)[0] /\ walk = Message!AttrsFrom(b, end)[0]
        BY <1>2, <1>4 DEF Message!ParseDataIndication, Message!WalkForData, Message!WalkAttrs
    <2>4. 0 \in 0..end + 3
        BY <1>2
    <2>5. data = Seen(walk)
        BY <2>1, <2>3, <2>4, WalkersAgree
    <2> HIDE DEF data, walk, header
    <2> QED BY <2>2, <2>5 DEF Seen
<1>5. got.cookie \in BOOLEAN
    BY <1>1 DEF Datagram
<1> QED BY <1>3, <1>4, <1>5

-----------------------------------------------------------------------------
(* The parts together *)

FP == INSTANCE FramingProofs WITH Base <- FrameBase

\* Of one behaviour only one part runs; the walk waits in the others.
WireInv ==
    /\ WalkInv
    /\ part = "message" => MsgInv
    /\ part = "response" => ResponseInv
    /\ part = "address" => AddressInv
    /\ part = "frames" => FP!IInv

LEMMA NoWalkIsInit == NoWalk => Init
BY SizesAssumption DEF NoWalk, Init

LEMMA FramesFit == FP!Fits
BY FramesAssumption DEF FP!Fits, Frames!Fits

LEMMA FramesInit == Frames!Init => FP!IInv
<1>1. Frames!Init => FP!Init
    BY DEF Frames!Init, FP!Init
<1> QED BY <1>1, FramesFit, FP!InitIInv

LEMMA FramesStep == Frames!Next => FP!Next
BY DEF Frames!Next, FP!Next, Frames!SendLength, FP!SendLength, Frames!SendBody, FP!SendBody,
       Frames!Close, FP!Close, Frames!Progress, FP!Progress, Frames!Fill, FP!Fill,
       Frames!GotLength, FP!GotLength, Frames!GotBody, FP!GotBody, Frames!Eof, FP!Eof,
       Frames!Drop, FP!Drop, Frames!Over, FP!Over, Frames!Reading, FP!Reading,
       Frames!LengthOctets, FP!LengthOctets, Frames!LengthOf, FP!LengthOf,
       Frames!Restart, FP!Restart, Frames!vars, FP!vars

LEMMA FramesSame ==
    FP!IInv /\ UNCHANGED <<sent, body, writer, stream, reader, buf, need, received>> => FP!IInv'
BY FramesFit, FP!NextIInv DEF FP!vars

LEMMA FramesNext == FP!IInv /\ Frames!Next => FP!IInv'
BY FramesFit, FramesStep, FP!NextIInv

LEMMA InitWire == WireInit => WireInv
<1> SUFFICES ASSUME WireInit PROVE WireInv
    OBVIOUS
<1>1. WalkInv
    BY NoWalkIsInit, InitWalk DEF WireInit
<1>2. part = "message" => MsgInv
    BY MsgInit DEF WireInit
<1>3. part = "response" => ResponseInv
    BY ResponseInit DEF WireInit
<1>4. part = "address" => AddressInv
    BY AddressInit DEF WireInit
<1>5. part = "frames" => FP!IInv
    BY FramesInit DEF WireInit
<1> QED BY <1>1, <1>2, <1>3, <1>4, <1>5 DEF WireInv

LEMMA ResponseSame == ResponseInv /\ class' = class /\ attrs' = attrs => ResponseInv'
BY DEF ResponseInv

LEMMA AddressSame ==
    AddressInv /\ phase' = phase /\ addr' = addr /\ txid' = txid /\ value' = value => AddressInv'
BY DEF AddressInv

\* Each part steps by itself.
LEMMA NextWire == WireInv /\ [WireNext]_wireVars => WireInv'
<1> SUFFICES ASSUME WireInv, [WireNext]_wireVars PROVE WireInv'
    OBVIOUS
<1>0. CASE UNCHANGED wireVars
    <2>1. /\ part' = part /\ UNCHANGED vars /\ attrs' = attrs /\ phase' = phase /\ class' = class
          /\ kind' = kind /\ msg' = msg /\ signed' = signed /\ got' = got
          /\ addr' = addr /\ txid' = txid /\ value' = value
          /\ UNCHANGED <<sent, body, writer, stream, reader, buf, need, received>>
        BY <1>0 DEF wireVars, messageOwn, addressOwn, framesOwn
    <2> QED BY <2>1, NextWalk, MsgSame, ResponseSame, AddressSame, FramesSame DEF WireInv
<1>1. CASE WireNext
    <2>1. part' = part
        BY <1>1 DEF WireNext
    <2>2. /\ [Next]_vars
          /\ part = "message" => Message!Next
          /\ part = "response" => Response!Next
          /\ part = "address" => Address!Next
          /\ part = "frames" => Frames!Next
        BY <1>1 DEF WireNext
    <2>3. WalkInv'
        BY <2>2, NextWalk DEF WireInv
    <2>4. part = "message" => MsgInv'
        BY <2>2, MsgNext DEF WireInv
    <2>5. part = "response" => ResponseInv'
        BY <2>2, ResponseNext DEF WireInv
    <2>6. part = "address" => AddressInv'
        BY <2>2, AddressNext DEF WireInv
    <2>7. part = "frames" => FP!IInv'
        BY <2>2, FramesNext DEF WireInv
    <2> QED BY <2>1, <2>3, <2>4, <2>5, <2>6, <2>7 DEF WireInv
<1> QED BY <1>0, <1>1

LEMMA WireInvHolds == WireSpec => []WireInv
BY InitWire, NextWire, PTL DEF WireSpec

-----------------------------------------------------------------------------
(* Theorems *)

(* The walk's state is well typed: the position lies in the section, or at *)
(* most a pad behind its end.                                              *)
THEOREM TypeCorrect == WireSpec => []TypeOK
<1>1. WireInv => TypeOK
    BY DEF WireInv, WalkInv
<1> QED BY <1>1, WireInvHolds, PTL

(* walk_attrs reads nothing outside any buffer, and the values it hands    *)
(* out lie within, aligned and apart (stun_codec.rs).                      *)
THEOREM WalkStaysInsideHolds == WireSpec => []WalkStaysInside
<1>1. WireInv => WalkStaysInside
    BY DEF WireInv, WalkInv
<1> QED BY <1>1, WireInvHolds, PTL

(* Each attribute takes walk_attrs on by four octets at least.             *)
THEOREM AdvancesHolds == WireSpec => Advances
<1> DEFINE A == state = "walking" /\ state' = "walking" => i' >= i + 4
<1>1. WireInv /\ [WireNext]_wireVars => [A]_vars
    <2> SUFFICES ASSUME WireInv, WireNext, ~UNCHANGED vars, state = "walking", state' = "walking"
                 PROVE  i' >= i + 4
        BY DEF A, wireVars
    <2>1. Next
        BY DEF WireNext
    <2>2. PICK len \in 0..MaxU16 : Attribute(len)
        BY <2>1 DEF Next, Step, Short, BadHeader, GoodHeader, Truncated, Finish, Stopped
    <2>3. len \in Nat /\ Pad(len) \in 0..3 /\ i \in Nat
        BY SizesAssumption, PadAligns DEF WireInv, WalkInv, TypeOK
    <2> QED BY <2>2, <2>3 DEF Attribute
<1> QED BY <1>1, WireInvHolds, PTL DEF WireSpec, Advances

(* Whatever builders append, of any length and content, walk_attrs finds;  *)
(* a message the buffer cut is an error; the digest covers what a server   *)
(* verifies; the echo's walker and the shared one see the same in every    *)
(* message, distorted ones included; and an address survives its mask with *)
(* the id of its own transaction (turn_codec.rs, turn_echo.rs,             *)
(* stun_codec.rs, stun.rs).                                                *)
THEOREM ReadAsWrittenHolds == WireSpec => []ReadAsWritten
<1>1. MsgInv => /\ Message!TypeOK
                /\ Message!RoundTrip /\ Message!TruncationNoticed
                /\ Message!IntegrityVerifies /\ Message!DataAgreesWithWalk
    BY MessageTypes, WhatIsAppendedIsRead, ACutIsNoticed, TheDigestVerifies, BothWalkersSeeTheSame
<1>2. WireInv => ReadAsWritten
    BY <1>1, AddressSurvives DEF WireInv, ReadAsWritten
<1> QED BY <1>2, WireInvHolds, PTL

(* A response's meaning does not depend on the order of its attributes,    *)
(* the parsers agree on what a refusal is, and an address in a parser's    *)
(* result is one the response carried (turn_codec.rs, turn_echo.rs).       *)
THEOREM ResponsesAreUnderstoodHolds == WireSpec => []ResponsesAreUnderstood
<1>1. WireInv => ResponsesAreUnderstood
    BY OrderDoesNotMatter, RefusalsAreAlike, NoAddressIsMadeUp DEF WireInv, ResponsesAreUnderstood
<1> QED BY <1>1, WireInvHolds, PTL

(* Over the length prefix whole messages come out as they went in, in      *)
(* order, wherever writer or reader stop (turns_alloc.rs).                 *)
THEOREM ImplementsChannelHolds == WireSpec => ImplementsChannel
<1> DEFINE S == IF part = "frames" THEN sent ELSE <<>>
           R == IF part = "frames" THEN received ELSE <<>>
<1>1. WireInit => Abstract!Init
    BY DEF WireInit, Frames!Init, Abstract!Init
<1>2. WireInv /\ [WireNext]_wireVars => [Abstract!Send \/ Abstract!Receive]_<<S, R>>
    <2> SUFFICES ASSUME WireInv, [WireNext]_wireVars
                 PROVE  Abstract!Send \/ Abstract!Receive \/ UNCHANGED <<S, R>>
        OBVIOUS
    <2>1. part' = part
        BY DEF WireNext, wireVars
    <2>2. CASE part # "frames"
        BY <2>1, <2>2
    <2>3. CASE part = "frames"
        <3>1. S = sent /\ R = received /\ S' = sent' /\ R' = received'
            BY <2>1, <2>3
        <3>2. FP!Next \/ UNCHANGED <<sent, received>>
            BY <2>3, FramesStep DEF WireNext, wireVars, framesOwn
        <3>3. CASE FP!SendLength
            <4>1. (\E m \in Messages : sent' = Append(sent, m)) /\ received' = received
                BY <3>3 DEF FP!SendLength
            <4> QED BY <2>1, <2>3, <4>1 DEF Abstract!Send
        <3>4. CASE FP!GotBody
            <4>1. Len(received) < Len(sent) /\ buf = sent[Len(received) + 1]
                BY <2>3, <3>4, FramesFit, FP!GotBodyReturnsTheNext DEF WireInv
            <4>2. received' = Append(received, sent[Len(received) + 1]) /\ sent' = sent
                BY <3>4, <4>1 DEF FP!GotBody
            <4> QED BY <2>1, <2>3, <4>1, <4>2 DEF Abstract!Receive
        <3>5. CASE UNCHANGED <<sent, received>>
            BY <3>1, <3>5
        <3>6. FP!Next => FP!SendLength \/ FP!GotBody \/ UNCHANGED <<sent, received>>
            BY DEF FP!Next, FP!SendBody, FP!Close, FP!Progress, FP!Fill, FP!GotLength, FP!Eof,
                   FP!Drop, FP!Over, FP!vars
        <3> QED BY <3>2, <3>3, <3>4, <3>5, <3>6
    <2> QED BY <2>2, <2>3
<1> QED BY <1>1, <1>2, WireInvHolds, PTL DEF WireSpec, ImplementsChannel, Abstract!Spec
=============================================================================
