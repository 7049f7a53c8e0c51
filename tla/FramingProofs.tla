---------------------------- MODULE FramingProofs ----------------------------
(***************************************************************************)
(* The length prefix provides whole messages in order: for every number of *)
(* messages, for octets of every size, and for messages of every length    *)
(* that two octets can say.                                                *)
(***************************************************************************)
EXTENDS Framing, SequenceTheorems, TLAPS

-----------------------------------------------------------------------------
(* Lengths *)

Octet == 0..Base - 1

LEMMA FitsMeans ==
    ASSUME Fits
    PROVE  /\ Base \in Nat /\ Base >= 2
           /\ Messages \subseteq Seq(Octet)
           /\ \A m \in Messages : Len(m) < Base * Base
BY DEF Fits, Octet

LEMMA Division ==
    ASSUME NEW b \in Nat, b > 0, NEW n \in Nat
    PROVE  n \div b \in Nat /\ n % b \in 0..b - 1 /\ n = (n \div b) * b + (n % b)
BY Z3

LEMMA HighIsSmall ==
    ASSUME NEW b \in Nat, NEW high \in Nat, NEW low \in Nat, high * b + low < b * b
    PROVE  high < b
BY Z3

LEMMA SmallRemainder ==
    ASSUME NEW b \in Nat, NEW high \in Nat, high < b
    PROVE  high % b = high
BY Z3

\* The prefix says the length it was made from.
LEMMA LengthIsSaid ==
    ASSUME Fits, NEW n \in Nat, n < Base * Base
    PROVE  /\ LengthOctets(n) \in Seq(Octet) /\ Len(LengthOctets(n)) = 2
           /\ LengthOctets(n)[1] * Base + LengthOctets(n)[2] = n
<1>1. Base \in Nat /\ Base > 0
    BY FitsMeans
<1>2. PICK high \in Nat, low \in Octet :
         high = n \div Base /\ low = n % Base /\ n = high * Base + low
    BY <1>1, Division DEF Octet
<1>3. low \in Nat
    BY <1>1 DEF Octet
<1>4. high < Base
    BY <1>1, <1>2, <1>3, HighIsSmall
<1>5. high % Base = high
    BY <1>1, <1>4, SmallRemainder
<1>6. LengthOctets(n) = <<high, low>>
    BY <1>2, <1>5 DEF LengthOctets
<1>7. high \in Octet
    BY <1>1, <1>4 DEF Octet
<1>8. <<high, low>> \in Seq(Octet) /\ Len(<<high, low>>) = 2
    BY <1>7
<1>9. <<high, low>>[1] = high /\ <<high, low>>[2] = low
    OBVIOUS
<1> QED BY <1>2, <1>6, <1>8, <1>9

-----------------------------------------------------------------------------
(* The inductive invariant.  `at[k]` is the number of octets in front of   *)
(* frame k; what is in flight, half read or not, lies where the frames of  *)
(* the messages not yet received lie.                                      *)

Rest == buf \o stream

\* The j-th octet of the frame of a message.
FrameOctet(m, j) == IF j <= 2 THEN LengthOctets(Len(m))[j] ELSE m[j - 2]

Layout(at) ==
    /\ at \in [Nat -> Nat]
    /\ \A k \in 1..Len(sent) : at[k + 1] = at[k] + 2 + Len(sent[k])
    /\ \A k, l \in 1..Len(sent) + 1 : k <= l => at[k] <= at[l]

\* Octets of the stream in front of Rest.
Offset(at) == at[Len(received) + 1] + IF reader = "body" THEN 2 ELSE 0

Aligned(at) ==
    /\ \A k \in 1..Len(sent) : \A j \in 1..Len(sent[k]) + 2 :
          LET p == at[k] + j - Offset(at)
          IN p \in 1..Len(Rest) => Rest[p] = FrameOctet(sent[k], j)
    /\ writer # "closed" => Offset(at) + Len(Rest) + Len(body) = at[Len(sent) + 1]
    /\ writer = "closed" => Offset(at) + Len(Rest) <= at[Len(sent) + 1] + 1

Types ==
    /\ writer \in {"idle", "body", "closed"}
    /\ reader \in {"len", "body", "failed", "dropped"}
    /\ sent \in Seq(Messages) /\ received \in Seq(Seq(Octet))
    /\ stream \in Seq(Octet) /\ buf \in Seq(Octet) /\ need \in Nat

StageInv ==
    /\ writer = "body" => Len(sent) >= 1 /\ body = sent[Len(sent)]
    /\ writer # "body" => body = <<>>
    /\ reader = "len" => need = 2
    /\ reader = "body" => Len(received) < Len(sent) /\ need = Len(sent[Len(received) + 1])

InOrder ==
    /\ Len(received) <= Len(sent)
    /\ \A k \in 1..Len(received) : received[k] = sent[k]

IInv ==
    /\ Types
    /\ StageInv
    /\ InOrder
    /\ Reading => \E at : Layout(at) /\ Aligned(at)

-----------------------------------------------------------------------------
(* Sequences *)

LEMMA ConcatMeans ==
    ASSUME NEW S, NEW s \in Seq(S), NEW t \in Seq(S)
    PROVE  /\ s \o t \in Seq(S) /\ Len(s) \in Nat /\ Len(t) \in Nat
           /\ Len(s \o t) = Len(s) + Len(t)
           /\ \A p \in 1..Len(s) : (s \o t)[p] = s[p]
           /\ \A p \in 1..Len(t) : (s \o t)[Len(s) + p] = t[p]
BY ConcatProperties

LEMMA RestMeans ==
    ASSUME Types
    PROVE  /\ Rest \in Seq(Octet) /\ Len(Rest) = Len(buf) + Len(stream)
           /\ Len(buf) \in Nat /\ Len(stream) \in Nat
           /\ \A p \in 1..Len(buf) : Rest[p] = buf[p]
           /\ \A p \in 1..Len(stream) : Rest[Len(buf) + p] = stream[p]
BY ConcatMeans DEF Types, Rest

LEMMA PartIsOctets ==
    ASSUME NEW S, NEW s \in Seq(S), NEW k \in 0..Len(s)
    PROVE  /\ SubSeq(s, 1, k) \in Seq(S) /\ Len(SubSeq(s, 1, k)) = k
           /\ \A p \in 1..k : SubSeq(s, 1, k)[p] = s[p]
           /\ SubSeq(s, k + 1, Len(s)) \in Seq(S)
           /\ SubSeq(s, 1, k) \o SubSeq(s, k + 1, Len(s)) = s
<1>1. Len(s) \in Nat /\ k \in Nat /\ k <= Len(s) /\ k \in Int /\ 1 \in Int
    OBVIOUS
<1>2. \A p \in 1..Len(s) : s[p] \in S
    OBVIOUS
<1>3. /\ SubSeq(s, 1, k) \in Seq(S) /\ Len(SubSeq(s, 1, k)) = k
      /\ \A p \in 1..k : SubSeq(s, 1, k)[p] = s[p]
    <2>1. \A p \in 1..k : s[p] \in S
        BY <1>1, <1>2
    <2>2. /\ SubSeq(s, 1, k) \in Seq(S)
          /\ Len(SubSeq(s, 1, k)) = IF 1 <= k THEN k - 1 + 1 ELSE 0
          /\ \A p \in 1..k - 1 + 1 : SubSeq(s, 1, k)[p] = s[1 + p - 1]
        BY <1>1, <2>1, SubSeqProperties
    <2> QED BY <1>1, <2>2
<1>4. SubSeq(s, k + 1, Len(s)) \in Seq(S)
    <2>1. \A p \in k + 1..Len(s) : s[p] \in S
        BY <1>1, <1>2
    <2>2. k + 1 \in Int /\ Len(s) \in Int
        BY <1>1
    <2> QED BY <2>1, <2>2, SubSeqProperties
<1>5. SubSeq(s, 1, k) \o SubSeq(s, k + 1, Len(s)) = s
    <2>1. 1 \in 1..Len(s) + 1 /\ k \in 1 - 1..Len(s) /\ Len(s) \in k..Len(s)
        BY <1>1
    <2>2. SubSeq(s, 1, k) \o SubSeq(s, k + 1, Len(s)) = SubSeq(s, 1, Len(s))
        BY <2>1, ConcatAdjacentSubSeq
    <2> QED BY <2>2, SubSeqFull
<1> QED BY <1>3, <1>4, <1>5

LEMMA MoveOver ==
    ASSUME NEW a \in Seq(Octet), NEW b \in Seq(Octet), NEW c \in Seq(Octet)
    PROVE  (a \o b) \o c = a \o (b \o c)
BY ConcatAssociative

\* Reading some octets leaves them in flight.
LEMMA FillKeepsRest ==
    ASSUME Types, NEW k \in 1..Len(stream),
           buf' = buf \o SubSeq(stream, 1, k), stream' = SubSeq(stream, k + 1, Len(stream))
    PROVE  Rest' = Rest /\ buf' \in Seq(Octet) /\ stream' \in Seq(Octet)
<1> DEFINE s == SubSeq(stream, 1, k)
           t == SubSeq(stream, k + 1, Len(stream))
<1>1. stream \in Seq(Octet) /\ buf \in Seq(Octet) /\ k \in 0..Len(stream)
    BY DEF Types
<1>2. s \in Seq(Octet) /\ t \in Seq(Octet) /\ s \o t = stream
    BY <1>1, PartIsOctets
<1>3. buf' = buf \o s /\ stream' = t
    OBVIOUS
<1> HIDE DEF s, t
<1>4. (buf \o s) \o t = buf \o (s \o t)
    <2>1. buf \in Seq(Octet) /\ s \in Seq(Octet) /\ t \in Seq(Octet)
        BY <1>1, <1>2
    <2> QED BY <2>1, MoveOver, Zenon
<1>5. buf \o s \in Seq(Octet)
    BY <1>1, <1>2, ConcatMeans
<1>6. Rest' = (buf \o s) \o t
    BY <1>3 DEF Rest
<1>7. Rest' = Rest
    BY <1>2, <1>4, <1>6 DEF Rest
<1>8. buf' \in Seq(Octet) /\ stream' \in Seq(Octet)
    BY <1>2, <1>3, <1>5
<1> QED BY <1>7, <1>8

-----------------------------------------------------------------------------
(* Steps *)

LEMMA InitIInv == Fits /\ Init => IInv
<1> SUFFICES ASSUME Fits, Init PROVE IInv
    OBVIOUS
<1>1. Types
    BY DEF Init, Types
<1>2. StageInv /\ InOrder
    BY DEF Init, StageInv, InOrder
<1>3. \E at : Layout(at) /\ Aligned(at)
    <2> DEFINE at == [k \in Nat |-> 0]
    <2>1. Len(sent) = 0 /\ Len(received) = 0 /\ Len(Rest) = 0 /\ Len(body) = 0
        BY DEF Init, Rest
    <2>2. Layout(at)
        BY <2>1 DEF Layout
    <2>3. Offset(at) = 0
        BY <2>1 DEF Offset, Init
    <2>4. Aligned(at)
        BY <2>1, <2>3 DEF Aligned, Init
    <2> QED BY <2>2, <2>4
<1> QED BY <1>1, <1>2, <1>3 DEF IInv

\* Frames lie behind one another.
LEMMA LayoutMeans ==
    ASSUME Fits, Types, InOrder, NEW at, Layout(at)
    PROVE  /\ Len(sent) \in Nat /\ Len(received) \in Nat /\ Len(received) <= Len(sent)
           /\ \A k \in 1..Len(sent) + 1 : at[k] \in Nat
           /\ Offset(at) \in Nat
           /\ \A k \in 1..Len(sent) :
                 /\ sent[k] \in Seq(Octet) /\ sent[k] \in Messages
                 /\ Len(sent[k]) \in Nat /\ Len(sent[k]) < Base * Base
                 /\ at[k + 1] = at[k] + 2 + Len(sent[k])
<1>1. Len(sent) \in Nat /\ Len(received) \in Nat /\ Len(received) <= Len(sent)
    BY DEF Types, InOrder
<1>2. \A k \in 1..Len(sent) + 1 : at[k] \in Nat
    BY <1>1 DEF Layout
<1>3. Offset(at) \in Nat
    BY <1>1, <1>2 DEF Offset
<1>4. \A k \in 1..Len(sent) : /\ sent[k] \in Seq(Octet) /\ sent[k] \in Messages
                               /\ Len(sent[k]) \in Nat /\ Len(sent[k]) < Base * Base
    BY FitsMeans DEF Types
<1> QED BY <1>1, <1>2, <1>3, <1>4 DEF Layout

\* The octets of the first frame that is not yet received, as far as they are
\* in flight.
LEMMA FirstInFlight ==
    ASSUME Fits, IInv, Reading, NEW at, Layout(at), Aligned(at), Len(buf) = need
    PROVE  /\ reader = "len" =>
                 /\ Len(received) < Len(sent)
                 /\ LengthOf(buf) = Len(sent[Len(received) + 1])
           /\ reader = "body" => buf = sent[Len(received) + 1]
<1> DEFINE r == Len(received) + 1
<1>1. /\ Len(sent) \in Nat /\ Len(received) \in Nat /\ Len(received) <= Len(sent)
      /\ \A k \in 1..Len(sent) + 1 : at[k] \in Nat
      /\ \A k \in 1..Len(sent) : /\ sent[k] \in Seq(Octet) /\ Len(sent[k]) \in Nat
                                  /\ Len(sent[k]) < Base * Base
    BY LayoutMeans DEF IInv
<1>2. /\ Len(Rest) = Len(buf) + Len(stream) /\ Len(buf) \in Nat /\ Len(stream) \in Nat
      /\ \A p \in 1..Len(buf) : Rest[p] = buf[p]
      /\ buf \in Seq(Octet)
    BY RestMeans DEF IInv, Types
<1>3. CASE reader = "len"
    <2>1. need = 2 /\ Offset(at) = at[r]
        BY <1>1, <1>3 DEF IInv, StageInv, Offset
    <2>2. Len(received) < Len(sent)
        <3>1. Offset(at) + Len(Rest) <= at[Len(sent) + 1] + 1
            <4>1. Len(body) \in Nat
                <5>1. (body = <<>>) \/ (body = sent[Len(sent)] /\ Len(sent) \in 1..Len(sent))
                    BY <1>1 DEF IInv, StageInv
                <5> QED BY <1>1, <5>1
            <4>2. at[Len(sent) + 1] \in Nat /\ Offset(at) \in Nat
                BY <1>1, LayoutMeans DEF IInv
            <4> QED BY <1>2, <4>1, <4>2 DEF Aligned
        <3>2. Len(received) # Len(sent)
            <4> SUFFICES ASSUME Len(received) = Len(sent) PROVE FALSE
                OBVIOUS
            <4>1. at[Len(sent) + 1] = Offset(at) /\ Offset(at) \in Nat
                BY <2>1, LayoutMeans DEF IInv
            <4> QED BY <1>2, <2>1, <3>1, <4>1
        <3> QED BY <1>1, <3>2
    <2>3. \A j \in 1..2 : buf[j] = LengthOctets(Len(sent[r]))[j]
        <3> TAKE j \in 1..2
        <3>1. r \in 1..Len(sent) /\ j \in 1..Len(sent[r]) + 2
            BY <1>1, <2>2
        <3>2. at[r] + j - Offset(at) = j
            BY <1>1, <2>1, <3>1
        <3>3. j \in 1..Len(Rest) /\ j \in 1..Len(buf)
            BY <1>2, <2>1
        <3>4. Rest[j] = FrameOctet(sent[r], j)
            BY <3>1, <3>2, <3>3 DEF Aligned
        <3> QED BY <1>2, <3>3, <3>4 DEF FrameOctet
    <2>4. LengthOf(buf) = Len(sent[r])
        <3>1. r \in 1..Len(sent)
            BY <1>1, <2>2
        <3>2. LengthOctets(Len(sent[r]))[1] * Base + LengthOctets(Len(sent[r]))[2] = Len(sent[r])
            BY <1>1, <3>1, LengthIsSaid
        <3>3. buf[1] = LengthOctets(Len(sent[r]))[1] /\ buf[2] = LengthOctets(Len(sent[r]))[2]
            BY <2>3
        <3> QED BY <3>2, <3>3 DEF LengthOf
    <2> QED BY <1>3, <2>2, <2>4
<1>4. CASE reader = "body"
    <2>1. Len(received) < Len(sent) /\ need = Len(sent[r]) /\ Offset(at) = at[r] + 2
        BY <1>4 DEF IInv, StageInv, Offset
    <2>2. r \in 1..Len(sent) /\ at[r] \in Nat
        BY <1>1, <2>1
    <2>3. \A j \in 1..Len(buf) : buf[j] = sent[r][j]
        <3> TAKE j \in 1..Len(buf)
        <3>1. j + 2 \in 1..Len(sent[r]) + 2 /\ j \in 1..Len(Rest) /\ j \in Nat \ {0}
            BY <1>1, <1>2, <2>1, <2>2
        <3>2. at[r] + (j + 2) - Offset(at) = j
            <4>1. PICK a \in Nat : a = at[r]
                BY <2>2
            <4>2. a + (j + 2) - (a + 2) = j
                BY <3>1
            <4> QED BY <2>1, <4>1, <4>2
        <3>3. Rest[j] = FrameOctet(sent[r], j + 2)
            <4>1. at[r] + (j + 2) - Offset(at) \in 1..Len(Rest)
                BY <3>1, <3>2
            <4>2. Rest[at[r] + (j + 2) - Offset(at)] = FrameOctet(sent[r], j + 2)
                BY <2>2, <3>1, <4>1 DEF Aligned
            <4> QED BY <3>2, <4>2
        <3>4. FrameOctet(sent[r], j + 2) = sent[r][j]
            <4>1. ~(j + 2 <= 2) /\ j + 2 - 2 = j
                BY <3>1
            <4> QED BY <4>1 DEF FrameOctet
        <3> QED BY <1>2, <3>3, <3>4
    <2>4. sent[r] \in Seq(Octet) /\ Len(sent[r]) = Len(buf)
        BY <1>1, <2>1, <2>2
    <2>5. buf = sent[r]
        BY <1>2, <2>3, <2>4, SeqEqual
    <2> QED BY <1>4, <2>5
<1> QED BY <1>3, <1>4 DEF Reading

\* A further frame lies behind the last.
LEMMA OneMoreFrame ==
    ASSUME NEW at \in [Nat -> Nat], NEW n \in Nat, NEW len \in Nat
    PROVE  \E new : /\ new \in [Nat -> Nat] /\ \A k \in 1..n + 1 : new[k] = at[k]
                    /\ new[n + 1] = at[n + 1] /\ at[n + 1] \in Nat
                    /\ new[n + 2] = at[n + 1] + 2 + len
<1> DEFINE new == [k \in Nat |-> IF k = n + 2 THEN at[n + 1] + 2 + len ELSE at[k]]
<1>1. n + 1 \in Nat /\ n + 2 \in Nat /\ n + 2 # n + 1 /\ \A k \in 1..n + 1 : k \in Nat /\ k # n + 2
    OBVIOUS
<1>2. at[n + 1] \in Nat
    BY <1>1
<1>3. at[n + 1] + 2 + len \in Nat
    BY <1>2
<1>4. new \in [Nat -> Nat]
    BY <1>3
<1>5. \A k \in 1..n + 1 : new[k] = at[k]
    BY <1>1
<1>6. new[n + 1] = at[n + 1] /\ new[n + 2] = at[n + 1] + 2 + len
    BY <1>1
<1> QED BY <1>2, <1>4, <1>5, <1>6

\* What is written lies behind what is in flight, and where its frame does.
LEMMA WriteKeepsOctets ==
    ASSUME Fits, IInv, NEW at, Layout(at), Aligned(at), writer # "closed",
           NEW x \in Seq(Octet), \A q \in 1..Len(x) : q <= Len(body) => x[q] = body[q],
           stream' = stream \o x, buf' = buf
    PROVE  /\ Len(Rest') = Len(Rest) + Len(x) /\ Len(Rest) \in Nat
           /\ \A p \in 1..Len(x) : Rest'[Len(Rest) + p] = x[p]
           /\ \A k \in 1..Len(sent) : \A j \in 1..Len(sent[k]) + 2 :
                 LET p == at[k] + j - Offset(at)
                 IN p \in 1..Len(Rest') => Rest'[p] = FrameOctet(sent[k], j)
<1> DEFINE n == Len(sent)
<1>1. /\ n \in Nat /\ \A k \in 1..n + 1 : at[k] \in Nat
      /\ Offset(at) \in Nat
      /\ \A k \in 1..n : Len(sent[k]) \in Nat /\ at[k + 1] = at[k] + 2 + Len(sent[k])
    BY LayoutMeans DEF IInv
<1>2. Rest' = Rest \o x
    <2>1. stream \in Seq(Octet) /\ buf \in Seq(Octet)
        BY DEF IInv, Types
    <2> QED BY <2>1, MoveOver DEF Rest
<1>3. Rest \in Seq(Octet)
    BY RestMeans DEF IInv
<1>4. /\ Len(Rest') = Len(Rest) + Len(x) /\ Len(Rest) \in Nat /\ Len(x) \in Nat
      /\ \A p \in 1..Len(Rest) : Rest'[p] = Rest[p]
      /\ \A p \in 1..Len(x) : Rest'[Len(Rest) + p] = x[p]
    BY <1>2, <1>3, ConcatMeans
<1>5. Offset(at) + Len(Rest) + Len(body) = at[n + 1]
    BY DEF Aligned
<1>6. /\ body # <<>> => writer = "body" /\ n >= 1 /\ body = sent[n]
      /\ body = <<>> => Len(body) = 0
      /\ Len(body) \in Nat
    <2>1. (body = <<>>) \/ (writer = "body" /\ n >= 1 /\ body = sent[n])
        BY DEF IInv, StageInv, Types
    <2>2. n >= 1 => n \in 1..n
        BY <1>1
    <2> QED BY <1>1, <2>1, <2>2
<1>7. ASSUME NEW k \in 1..n, NEW j \in 1..Len(sent[k]) + 2,
             at[k] + j - Offset(at) \in 1..Len(Rest')
      PROVE  Rest'[at[k] + j - Offset(at)] = FrameOctet(sent[k], j)
    <2> DEFINE p == at[k] + j - Offset(at)
    <2>1. CASE p \in 1..Len(Rest)
        BY <1>4, <2>1 DEF Aligned
    <2>2. CASE p > Len(Rest)
        <3>1. /\ at[k] \in Nat /\ at[k + 1] \in Nat /\ at[n + 1] \in Nat /\ j \in Nat
              /\ at[k] + j <= at[k + 1] /\ at[k + 1] <= at[n + 1]
            <4>1. k \in 1..n + 1 /\ k + 1 \in 1..n + 1 /\ n + 1 \in 1..n + 1 /\ k + 1 <= n + 1
                BY <1>1
            <4>2. at[k + 1] <= at[n + 1]
                BY <4>1 DEF Layout
            <4>3. j \in Nat /\ j <= 2 + Len(sent[k]) /\ Len(sent[k]) \in Nat
                BY <1>1
            <4>4. PICK a \in Nat, c \in Nat, l \in Nat :
                      a = at[k] /\ c = at[k + 1] /\ l = Len(sent[k])
                BY <1>1, <4>1, <4>3
            <4>5. c = a + 2 + l
                BY <1>1, <4>4
            <4>6. a + j <= c
                <5>1. j \in Nat /\ j <= 2 + l
                    BY <4>3, <4>4
                <5> HIDE DEF p
                <5> QED BY <4>5, <5>1
            <4>7. at[n + 1] \in Nat
                BY <1>1, <4>1
            <4> QED BY <4>2, <4>3, <4>4, <4>6, <4>7
        <3> DEFINE o == Offset(at)
                   r == Len(Rest)
                   b == Len(body)
        <3>0. /\ o \in Nat /\ r \in Nat /\ b \in Nat
              /\ at[k] + j - o > r /\ o + r + b = at[n + 1]
            BY <1>1, <1>4, <1>5, <1>6, <2>2
        <3> HIDE DEF o, r, b
        <3>2. b > 0
            <4>1. PICK a \in Nat, c \in Nat, e \in Nat :
                      a = at[k] /\ c = at[k + 1] /\ e = at[n + 1]
                BY <3>1
            <4>2. a + j <= c /\ c <= e
                BY <3>1, <4>1
            <4>3. a + j - o > r /\ o + r + b = e
                BY <3>0, <4>1
            <4> QED BY <3>0, <3>1, <4>2, <4>3
        <3>3. n >= 1 /\ body = sent[n] /\ n \in 1..n /\ n \in 1..n + 1
            BY <1>1, <1>6, <3>2 DEF b
        <3>4. at[n] = o + r - 2 /\ at[n] \in Nat
            <4>1. at[n + 1] = at[n] + 2 + b /\ at[n] \in Nat
                BY <1>1, <3>3 DEF b
            <4>2. PICK e \in Nat : e = at[n]
                BY <4>1
            <4>3. o + r + b = e + 2 + b
                BY <3>0, <4>1, <4>2
            <4>4. e = o + r - 2
                BY <3>0, <4>3
            <4> QED BY <4>2, <4>4
        <3>5. k = n
            <4>1. k < n => k + 1 \in 1..n + 1 /\ k + 1 <= n
                BY <1>1
            <4>2. k < n => at[k + 1] <= at[n]
                BY <3>3, <4>1 DEF Layout
            <4>3. PICK a \in Nat, c \in Nat, e \in Nat :
                      a = at[k] /\ c = at[k + 1] /\ e = at[n]
                BY <3>1, <3>4
            <4>4. a + j - o > r /\ a + j <= c /\ e = o + r - 2
                BY <3>0, <3>1, <3>4, <4>3
            <4>5. ~(c <= e)
                <5>1. PICK u \in Nat, v \in Nat, w \in Nat : u = o /\ v = r /\ w = j
                    BY <3>0, <3>1
                <5>2. a + w - u > v /\ a + w <= c /\ e = u + v - 2
                    BY <4>4, <5>1
                <5> QED BY <5>2
            <4>6. ~(k < n)
                BY <4>2, <4>3, <4>5
            <4> QED BY <1>1, <4>6
        <3>6. at[k] + j - o = r + (j - 2)
            BY <3>0, <3>1, <3>4, <3>5
        <3>7. j - 2 \in 1..Len(x) /\ j - 2 <= b /\ ~(j <= 2)
            <4>1. j <= b + 2
                BY <3>3, <3>5 DEF b
            <4>2. r + (j - 2) <= r + Len(x)
                BY <1>4, <1>7, <3>6 DEF o, r
            <4> QED BY <1>4, <3>0, <3>1, <3>6, <4>1, <4>2
        <3>8. Rest'[p] = body[j - 2]
            <4>1. Rest'[r + (j - 2)] = x[j - 2]
                BY <1>4, <3>7 DEF r
            <4>2. x[j - 2] = body[j - 2]
                BY <3>7 DEF b
            <4>3. p = r + (j - 2)
                BY <3>6 DEF o
            <4> QED BY <4>1, <4>2, <4>3
        <3> QED BY <3>3, <3>5, <3>7, <3>8 DEF FrameOctet
    <2> QED BY <1>1, <1>4, <1>7, <2>1, <2>2
<1> QED BY <1>4, <1>7

\* Taking the buffer away moves on by as much as it held.
LEMMA TakeKeepsAligned ==
    ASSUME Fits, IInv, NEW at, Layout(at), Aligned(at),
           buf' = <<>>, UNCHANGED <<sent, body, writer, stream>>,
           Offset(at)' = Offset(at) + Len(buf)
    PROVE  Layout(at)' /\ Aligned(at)'
<1>1. Layout(at)'
    BY DEF Layout
<1>2. /\ Len(sent) \in Nat /\ \A k \in 1..Len(sent) + 1 : at[k] \in Nat /\ Offset(at) \in Nat
      /\ \A k \in 1..Len(sent) : Len(sent[k]) \in Nat
    BY LayoutMeans DEF IInv
<1>3. /\ Len(Rest) = Len(buf) + Len(stream) /\ Len(buf) \in Nat /\ Len(stream) \in Nat
      /\ \A p \in 1..Len(stream) : Rest[Len(buf) + p] = stream[p]
    BY RestMeans DEF IInv
<1>4. Rest' = stream
    <2>1. stream \in Seq(Octet)
        BY DEF IInv, Types
    <2> QED BY <2>1, ConcatEmptySeq DEF Rest
<1>5. ASSUME NEW k \in 1..Len(sent), NEW j \in 1..Len(sent[k]) + 2,
             at[k] + j - Offset(at)' \in 1..Len(Rest')
      PROVE  Rest'[at[k] + j - Offset(at)'] = FrameOctet(sent[k], j)
    <2> DEFINE p == at[k] + j - Offset(at)'
    <2>1. at[k] \in Nat /\ j \in Nat /\ Offset(at) \in Nat
        BY <1>2
    <2>2. at[k] + j - Offset(at) = Len(buf) + p /\ p \in 1..Len(stream)
        BY <1>3, <1>4, <1>5, <2>1
    <2>3. Len(buf) + p \in 1..Len(Rest)
        BY <1>3, <2>2
    <2>4. Rest[Len(buf) + p] = FrameOctet(sent[k], j)
        BY <2>2, <2>3 DEF Aligned
    <2> HIDE DEF p
    <2>5. Rest'[p] = FrameOctet(sent[k], j)
        BY <1>3, <1>4, <2>2, <2>4
    <2> QED BY <2>5 DEF p
<1>6. /\ writer # "closed" => Offset(at)' + Len(Rest') + Len(body) = at[Len(sent) + 1]
      /\ writer = "closed" => Offset(at)' + Len(Rest') <= at[Len(sent) + 1] + 1
    <2>1. Offset(at)' + Len(Rest') = Offset(at) + Len(Rest)
        <3>1. Offset(at) \in Nat
            BY LayoutMeans DEF IInv
        <3> QED BY <1>3, <1>4, <3>1
    <2> QED BY <2>1 DEF Aligned
<1>7. Aligned(at)'
    BY <1>5, <1>6 DEF Aligned, FrameOctet
<1> QED BY <1>1, <1>7

LEMMA SendLengthKeepsIInv ==
    ASSUME Fits, IInv, SendLength
    PROVE  IInv'
<1>1. PICK msg \in Messages :
         /\ sent' = Append(sent, msg) /\ body' = msg
         /\ stream' = stream \o LengthOctets(Len(msg))
    BY DEF SendLength
<1>2. /\ writer = "idle" /\ writer' = "body" /\ UNCHANGED <<reader, buf, need, received>>
      /\ body = <<>>
    BY DEF SendLength, IInv, StageInv
<1> DEFINE n == Len(sent)
           x == LengthOctets(Len(msg))
<1>3. msg \in Seq(Octet) /\ Len(msg) \in Nat /\ Len(msg) < Base * Base
    BY FitsMeans
<1>4. x \in Seq(Octet) /\ Len(x) = 2
    BY <1>3, LengthIsSaid
<1>5. /\ sent' \in Seq(Messages) /\ Len(sent') = n + 1 /\ n \in Nat
      /\ \A k \in 1..n : sent'[k] = sent[k]
      /\ sent'[n + 1] = msg
    BY <1>1, AppendProperties DEF IInv, Types
<1>6. Len(received) \in Nat /\ Len(received) <= n
    BY DEF IInv, Types, InOrder
<1>7. Types'
    <2>1. stream' \in Seq(Octet)
        BY <1>1, <1>4, ConcatMeans DEF IInv, Types
    <2> QED BY <1>2, <1>5, <2>1 DEF IInv, Types
<1>8. StageInv'
    <2>1. reader = "body" => /\ Len(received) < n + 1 /\ need = Len(sent'[Len(received) + 1])
        BY <1>5, <1>6 DEF IInv, StageInv
    <2>2. reader = "len" => need = 2
        BY DEF IInv, StageInv
    <2> QED BY <1>1, <1>2, <1>5, <2>1, <2>2 DEF StageInv
<1>9. InOrder'
    BY <1>2, <1>5, <1>6 DEF IInv, InOrder
<1>10. ASSUME Reading PROVE \E at : Layout(at)' /\ Aligned(at)'
    <2>1. PICK at : Layout(at) /\ Aligned(at)
        BY <1>10 DEF IInv
    <2>2. /\ \A k \in 1..n + 1 : at[k] \in Nat
          /\ Offset(at) \in Nat
          /\ \A k \in 1..n : Len(sent[k]) \in Nat /\ at[k + 1] = at[k] + 2 + Len(sent[k])
          /\ at \in [Nat -> Nat]
        BY <2>1, LayoutMeans DEF IInv, Layout
    <2> HIDE DEF x
    <2>3. /\ Len(Rest') = Len(Rest) + 2 /\ Len(Rest) \in Nat
          /\ \A p \in 1..2 : Rest'[Len(Rest) + p] = x[p]
          /\ \A k \in 1..n : \A j \in 1..Len(sent[k]) + 2 :
                LET p == at[k] + j - Offset(at)
                IN p \in 1..Len(Rest') => Rest'[p] = FrameOctet(sent[k], j)
        <3>1. \A q \in 1..Len(x) : q <= Len(body) => x[q] = body[q]
            BY <1>2, <1>4
        <3>2. stream' = stream \o x /\ buf' = buf /\ writer # "closed"
            BY <1>1, <1>2 DEF x
        <3> QED BY <1>4, <2>1, <3>1, <3>2, WriteKeepsOctets
    <2>4. Offset(at) + Len(Rest) = at[n + 1]
        <3>1. Offset(at) + Len(Rest) + 0 = at[n + 1]
            BY <1>2, <2>1 DEF Aligned
        <3> QED BY <2>2, <2>3, <3>1
    <2>5. PICK new :
             /\ new \in [Nat -> Nat] /\ \A k \in 1..n + 1 : new[k] = at[k]
             /\ new[n + 1] = at[n + 1] /\ at[n + 1] \in Nat
             /\ new[n + 2] = at[n + 1] + 2 + Len(msg)
        <3>1. at \in [Nat -> Nat] /\ n \in Nat /\ Len(msg) \in Nat
            BY <1>3, <1>5, <2>2
        <3> HIDE DEF n
        <3> QED BY <3>1, OneMoreFrame
    <2>6. Layout(new)'
        <3>1. \A k \in 1..n + 1 : new[k + 1] = new[k] + 2 + Len(sent'[k])
            <4> TAKE k \in 1..n + 1
            <4>1. CASE k \in 1..n
                <5>1. k \in 1..n + 1 /\ k + 1 \in 1..n + 1
                    BY <1>5, <4>1
                <5>2. new[k] = at[k] /\ new[k + 1] = at[k + 1] /\ sent'[k] = sent[k]
                    BY <1>5, <2>5, <4>1, <5>1
                <5> QED BY <2>2, <4>1, <5>2
            <4>2. CASE k = n + 1
                <5>1. k + 1 = n + 2
                    BY <1>5, <4>2
                <5> QED BY <1>5, <2>5, <4>2, <5>1
            <4> QED BY <1>5, <4>1, <4>2
        <3>2. \A k, l \in 1..n + 2 : k <= l => new[k] <= new[l]
            <4> TAKE k, l \in 1..n + 2
            <4>1. CASE l \in 1..n + 1
                <5>1. k <= l => k \in 1..n + 1
                    BY <1>5, <4>1
                <5>2. k <= l => at[k] <= at[l]
                    BY <2>1, <4>1, <5>1 DEF Layout
                <5> QED BY <2>5, <4>1, <5>1, <5>2
            <4>2. CASE l = n + 2 /\ k \in 1..n + 1
                <5>1. n + 1 \in 1..n + 1 /\ k <= n + 1
                    BY <1>5, <4>2
                <5>2. at[k] <= at[n + 1] /\ at[k] \in Nat /\ at[n + 1] \in Nat
                    BY <2>1, <2>2, <4>2, <5>1 DEF Layout
                <5>3. new[k] = at[k]
                    BY <2>5, <4>2
                <5>4. at[k] <= new[l]
                    <6>1. PICK a \in Nat, b \in Nat : a = at[k] /\ b = at[n + 1] /\ a <= b
                        BY <5>2
                    <6>2. new[l] = b + 2 + Len(msg)
                        BY <2>5, <4>2, <6>1
                    <6> QED BY <1>3, <6>1, <6>2
                <5> QED BY <5>3, <5>4
            <4>3. CASE l = n + 2 /\ k = n + 2
                BY <1>5, <2>5, <4>3
            <4> QED BY <1>5, <4>1, <4>2, <4>3
        <3>3. Len(sent') + 1 = n + 2
            BY <1>5
        <3> QED BY <1>5, <2>5, <3>1, <3>2, <3>3 DEF Layout
    <2>7. Offset(new)' = Offset(at)
        <3>1. Len(received) + 1 \in 1..n + 1
            BY <1>5, <1>6
        <3> QED BY <1>2, <2>5, <3>1 DEF Offset
    <2>8. ASSUME NEW k \in 1..n + 1, NEW j \in 1..Len(sent'[k]) + 2,
                 new[k] + j - Offset(at) \in 1..Len(Rest')
          PROVE  Rest'[new[k] + j - Offset(at)] = FrameOctet(sent'[k], j)
        <3>1. CASE k \in 1..n
            <4>1. k \in 1..n + 1 /\ new[k] = at[k]
                BY <1>5, <2>5, <3>1
            <4>2. sent'[k] = sent[k]
                BY <1>5, <3>1
            <4>3. j \in 1..Len(sent[k]) + 2
                BY <2>8, <4>2
            <4>4. at[k] + j - Offset(at) \in 1..Len(Rest')
                BY <2>8, <4>1
            <4>5. Rest'[at[k] + j - Offset(at)] = FrameOctet(sent[k], j)
                BY <2>3, <3>1, <4>3, <4>4
            <4> QED BY <4>1, <4>2, <4>5
        <3>2. CASE k = n + 1
            <4>1. new[k] = at[n + 1] /\ at[n + 1] \in Nat /\ j \in Nat \ {0}
                <5>1. sent'[k] = msg
                    BY <1>5, <3>2
                <5>2. j \in 1..Len(msg) + 2
                    BY <5>1
                <5> QED BY <1>3, <2>5, <3>2, <5>2
            <4>2. new[k] + j - Offset(at) = Len(Rest) + j
                BY <2>2, <2>3, <2>4, <4>1
            <4>3. j \in 1..2
                BY <2>3, <2>8, <4>1, <4>2
            <4>4. Rest'[Len(Rest) + j] = x[j]
                BY <2>3, <4>3
            <4>5. FrameOctet(sent'[k], j) = x[j]
                BY <1>5, <3>2, <4>3 DEF FrameOctet, x
            <4> QED BY <4>2, <4>4, <4>5
        <3> QED BY <1>5, <3>1, <3>2
    <2>9. Offset(new)' + Len(Rest') + Len(body') = new[Len(sent') + 1]
        <3>1. new[Len(sent') + 1] = at[n + 1] + 2 + Len(msg)
            BY <1>5, <2>5
        <3> QED BY <1>1, <1>3, <2>2, <2>3, <2>4, <2>7, <3>1
    <2>10. Aligned(new)'
        BY <1>2, <1>5, <2>7, <2>8, <2>9 DEF Aligned, FrameOctet
    <2> QED BY <2>6, <2>10
<1> QED BY <1>2, <1>7, <1>8, <1>9, <1>10 DEF IInv, Reading, Layout, Aligned

\* The rest of a frame, or what of it leaves before the connection closes.
LEMMA SendRestKeepsIInv ==
    ASSUME Fits, IInv, SendBody \/ Close
    PROVE  IInv'
<1>1. /\ UNCHANGED <<sent, reader, buf, need, received>> /\ body' = <<>>
      /\ writer # "closed"
      /\ \/ writer = "body" /\ writer' = "idle"
         \/ writer' = "closed"
    BY DEF SendBody, Close
<1>2. /\ body \in Seq(Octet) /\ Len(body) \in Nat /\ Base \in Nat /\ Base >= 2
    <2>1. (body = <<>>) \/ (body = sent[Len(sent)] /\ Len(sent) \in 1..Len(sent))
        BY DEF IInv, StageInv, Types
    <2>2. \A k \in 1..Len(sent) : sent[k] \in Seq(Octet)
        BY FitsMeans DEF IInv, Types
    <2>3. body \in Seq(Octet)
        <3>1. CASE body = <<>>
            BY <3>1
        <3>2. CASE body = sent[Len(sent)] /\ Len(sent) \in 1..Len(sent)
            BY <2>2, <3>2
        <3> QED BY <2>1, <3>1, <3>2
    <2> QED BY <2>3, FitsMeans
<1>3. PICK x \in Seq(Octet) :
         /\ stream' = stream \o x
         /\ \A q \in 1..Len(x) : q <= Len(body) => x[q] = body[q]
         /\ writer' = "idle" => Len(x) = Len(body)
         /\ writer' = "closed" => Len(x) <= Len(body) + 1
    <2>1. CASE SendBody
        BY <1>2, <2>1 DEF SendBody
    <2>2. ASSUME NEW k \in 0..Len(body), stream' = stream \o SubSeq(body, 1, k),
                 writer' = "closed"
          PROVE  \E x \in Seq(Octet) :
                    /\ stream' = stream \o x
                    /\ \A q \in 1..Len(x) : q <= Len(body) => x[q] = body[q]
                    /\ writer' = "idle" => Len(x) = Len(body)
                    /\ writer' = "closed" => Len(x) <= Len(body) + 1
        <3>1. /\ SubSeq(body, 1, k) \in Seq(Octet) /\ Len(SubSeq(body, 1, k)) = k
              /\ \A p \in 1..k : SubSeq(body, 1, k)[p] = body[p]
            BY <1>2, PartIsOctets
        <3> DEFINE x == SubSeq(body, 1, k)
        <3>2. /\ x \in Seq(Octet) /\ stream' = stream \o x
              /\ \A q \in 1..Len(x) : x[q] = body[q]
              /\ Len(x) <= Len(body) + 1
            BY <1>2, <2>2, <3>1
        <3> HIDE DEF x
        <3> QED BY <2>2, <3>2
    <2>3. ASSUME writer = "idle", writer' = "closed", NEW octet \in 0..Base - 1,
                 stream' = Append(stream, octet)
          PROVE  \E x \in Seq(Octet) :
                    /\ stream' = stream \o x
                    /\ \A q \in 1..Len(x) : q <= Len(body) => x[q] = body[q]
                    /\ writer' = "idle" => Len(x) = Len(body)
                    /\ writer' = "closed" => Len(x) <= Len(body) + 1
        <3>1. octet \in Octet /\ stream \in Seq(Octet)
            BY DEF Octet, IInv, Types
        <3>2. stream' = stream \o <<octet>>
            BY <2>3, <3>1, AppendIsConcat
        <3>3. body = <<>>
            BY <2>3 DEF IInv, StageInv
        <3>4. <<octet>> \in Seq(Octet) /\ Len(<<octet>>) = 1 /\ Len(body) = 0
            BY <3>1, <3>3
        <3> DEFINE x == <<octet>>
        <3>5. /\ x \in Seq(Octet) /\ stream' = stream \o x
              /\ Len(x) = 1 /\ Len(body) = 0
            BY <3>2, <3>4
        <3> HIDE DEF x
        <3>6. (\A q \in 1..Len(x) : ~(q <= Len(body))) /\ Len(x) <= Len(body) + 1
            BY <3>5
        <3> QED BY <2>3, <3>5, <3>6
    <2>4. CASE Close
        BY <2>2, <2>3, <2>4 DEF Close
    <2> QED BY <2>1, <2>4
<1>4. Len(x) \in Nat
    OBVIOUS
<1>5. Types'
    <2>1. stream' \in Seq(Octet)
        BY <1>3, ConcatMeans DEF IInv, Types
    <2> QED BY <1>1, <2>1 DEF IInv, Types
<1>6. StageInv' /\ InOrder'
    BY <1>1 DEF IInv, StageInv, InOrder
<1>7. ASSUME Reading PROVE \E at : Layout(at)' /\ Aligned(at)'
    <2>1. PICK at : Layout(at) /\ Aligned(at)
        BY <1>7 DEF IInv
    <2>2. Layout(at)' /\ Offset(at)' = Offset(at)
        BY <1>1, <2>1 DEF Layout, Offset
    <2>3. /\ Len(Rest') = Len(Rest) + Len(x) /\ Len(Rest) \in Nat
          /\ \A k \in 1..Len(sent) : \A j \in 1..Len(sent[k]) + 2 :
                LET p == at[k] + j - Offset(at)
                IN p \in 1..Len(Rest') => Rest'[p] = FrameOctet(sent[k], j)
        BY <1>1, <1>3, <2>1, WriteKeepsOctets
    <2>4. Offset(at) + Len(Rest) + Len(body) = at[Len(sent) + 1] /\ Offset(at) \in Nat
        BY <1>1, <2>1, LayoutMeans DEF Aligned, IInv
    <2>5. /\ writer' # "closed" => Offset(at) + Len(Rest') + Len(body') = at[Len(sent) + 1]
          /\ writer' = "closed" => Offset(at) + Len(Rest') <= at[Len(sent) + 1] + 1
        <3>1. Len(body') = 0
            BY <1>1
        <3> QED BY <1>1, <1>2, <1>3, <1>4, <2>3, <2>4, <3>1
    <2>6. Aligned(at)'
        BY <1>1, <2>2, <2>3, <2>5 DEF Aligned, FrameOctet
    <2> QED BY <2>2, <2>6
<1> QED BY <1>1, <1>5, <1>6, <1>7 DEF IInv, Reading, Layout, Aligned

LEMMA FillKeepsIInv ==
    ASSUME Fits, IInv, Fill
    PROVE  IInv'
<1>1. PICK k \in 1..Len(stream) :
         buf' = buf \o SubSeq(stream, 1, k) /\ stream' = SubSeq(stream, k + 1, Len(stream))
    BY DEF Fill
<1>2. UNCHANGED <<sent, body, writer, reader, need, received>> /\ Reading
    BY DEF Fill
<1>3. Rest' = Rest /\ buf' \in Seq(Octet) /\ stream' \in Seq(Octet)
    BY <1>1, FillKeepsRest DEF IInv
<1>4. Types' /\ StageInv' /\ InOrder'
    BY <1>2, <1>3 DEF IInv, Types, StageInv, InOrder
<1>5. PICK at : Layout(at) /\ Aligned(at)
    BY <1>2 DEF IInv
<1>6. Layout(at)' /\ Aligned(at)'
    BY <1>2, <1>3, <1>5 DEF Layout, Aligned, Offset, FrameOctet
<1> QED BY <1>4, <1>6 DEF IInv, Layout, Aligned

\* The length is that of the next message.
LEMMA GotLengthKeepsIInv ==
    ASSUME Fits, IInv, GotLength
    PROVE  IInv'
<1>1. /\ reader = "len" /\ Len(buf) = need /\ reader' = "body" /\ buf' = <<>>
      /\ need' = LengthOf(buf) /\ UNCHANGED <<sent, body, writer, stream, received>>
      /\ Reading
    BY DEF GotLength, Reading
<1>2. PICK at : Layout(at) /\ Aligned(at)
    BY <1>1 DEF IInv
<1>3. Len(received) < Len(sent) /\ need' = Len(sent[Len(received) + 1]) /\ Len(buf) = 2
    BY <1>1, <1>2, FirstInFlight DEF IInv, StageInv
<1>4. need' \in Nat
    BY <1>2, <1>3, LayoutMeans DEF IInv
<1>5. Types'
    BY <1>1, <1>4 DEF IInv, Types
<1>6. StageInv' /\ InOrder'
    BY <1>1, <1>3 DEF IInv, StageInv, InOrder
<1>7. Offset(at)' = Offset(at) + Len(buf)
    <2>1. at[Len(received) + 1] \in Nat
        BY <1>2, LayoutMeans DEF IInv
    <2> QED BY <1>1, <1>3, <2>1 DEF Offset
<1>8. Layout(at)' /\ Aligned(at)'
    BY <1>1, <1>2, <1>7, TakeKeepsAligned
<1> QED BY <1>5, <1>6, <1>8 DEF IInv, Layout, Aligned

\* The octets read are the next message.
LEMMA GotBodyReturnsTheNext ==
    ASSUME Fits, IInv, GotBody
    PROVE  /\ Len(received) < Len(sent) /\ buf = sent[Len(received) + 1]
           /\ Len(buf) = need
           /\ received' = Append(received, sent[Len(received) + 1])
<1>1. reader = "body" /\ Len(buf) = need /\ received' = Append(received, buf) /\ Reading
    BY DEF GotBody, Reading
<1>2. PICK at : Layout(at) /\ Aligned(at)
    BY <1>1 DEF IInv
<1>3. buf = sent[Len(received) + 1] /\ Len(received) < Len(sent)
    BY <1>1, <1>2, FirstInFlight DEF IInv, StageInv
<1> QED BY <1>1, <1>3

LEMMA GotBodyKeepsIInv ==
    ASSUME Fits, IInv, GotBody
    PROVE  IInv'
<1> DEFINE r == Len(received)
<1>1. /\ reader = "body" /\ reader' = "len" /\ buf' = <<>> /\ need' = 2
      /\ UNCHANGED <<sent, body, writer, stream>> /\ Reading
    BY DEF GotBody, Restart, Reading
<1>2. r < Len(sent) /\ buf = sent[r + 1] /\ received' = Append(received, buf)
    BY GotBodyReturnsTheNext
<1>3. /\ Len(received') = r + 1 /\ r \in Nat /\ received' \in Seq(Seq(Octet))
      /\ \A k \in 1..r : received'[k] = received[k]
      /\ received'[r + 1] = buf
      /\ Len(sent) \in Nat
    BY <1>2, AppendProperties DEF IInv, Types
<1>4. Types' /\ StageInv'
    BY <1>1, <1>3 DEF IInv, Types, StageInv
<1>5. InOrder'
    <2>1. \A k \in 1..r + 1 : received'[k] = sent[k]
        <3> TAKE k \in 1..r + 1
        <3>1. CASE k \in 1..r
            BY <1>3, <3>1 DEF IInv, InOrder
        <3>2. CASE k = r + 1
            BY <1>2, <1>3, <3>2
        <3> QED BY <1>3, <3>1, <3>2
    <2> QED BY <1>1, <1>2, <1>3, <2>1 DEF InOrder
<1>6. PICK at : Layout(at) /\ Aligned(at)
    BY <1>1 DEF IInv
<1>7. Offset(at)' = Offset(at) + Len(buf)
    <2>1. /\ r + 1 \in 1..Len(sent) /\ r + 1 \in 1..Len(sent) + 1
        BY <1>2, <1>3
    <2>2. at[r + 2] = at[r + 1] + 2 + Len(buf)
        <3>1. at[r + 1 + 1] = at[r + 1] + 2 + Len(sent[r + 1])
            BY <2>1, <1>6, LayoutMeans DEF IInv
        <3>2. r + 1 + 1 = r + 2
            BY <1>3
        <3> QED BY <1>2, <3>1, <3>2
    <2>3. at[r + 1] \in Nat /\ Len(buf) \in Nat
        BY <2>1, <1>6, LayoutMeans DEF IInv, Types
    <2>4. Offset(at)' = at[r + 2] + 0
        <3>1. Len(received') + 1 = r + 2
            BY <1>3
        <3> QED BY <1>1, <3>1 DEF Offset
    <2>5. Offset(at) = at[r + 1] + 2
        BY <1>1 DEF Offset
    <2> QED BY <2>2, <2>3, <2>4, <2>5
<1>8. Layout(at)' /\ Aligned(at)'
    BY <1>1, <1>6, <1>7, TakeKeepsAligned
<1> QED BY <1>4, <1>5, <1>8 DEF IInv, Layout, Aligned

\* Whoever stops reading has read whole messages so far.
LEMMA StopKeepsIInv ==
    ASSUME IInv, Eof \/ Drop
    PROVE  IInv'
<1>1. /\ UNCHANGED <<sent, body, writer, stream, received>>
      /\ reader' \in {"failed", "dropped"} /\ buf' = <<>> /\ need' = 0
    BY DEF Eof, Drop
<1>2. Types' /\ StageInv' /\ InOrder'
    BY <1>1 DEF IInv, Types, StageInv, InOrder
<1> QED BY <1>1, <1>2 DEF IInv, Reading

LEMMA NextIInv == Fits /\ IInv /\ [Next]_vars => IInv'
<1> SUFFICES ASSUME Fits, IInv, [Next]_vars PROVE IInv'
    OBVIOUS
<1>1. CASE UNCHANGED vars
    <2>1. UNCHANGED <<sent, body, writer, stream, reader, buf, need, received>>
        BY <1>1 DEF vars
    <2>2. Types' /\ StageInv'
        BY <2>1 DEF IInv, Types, StageInv
    <2>3. InOrder'
        BY <2>1 DEF IInv, InOrder
    <2>4. ASSUME NEW at, Layout(at), Aligned(at) PROVE Layout(at)' /\ Aligned(at)'
        <3>1. Layout(at)'
            BY <2>1, <2>4 DEF Layout
        <3>2. Aligned(at)'
            BY <2>1, <2>4 DEF Aligned, Offset, Rest
        <3> QED BY <3>1, <3>2
    <2>5. Reading' => \E at : Layout(at)' /\ Aligned(at)'
        BY <2>1, <2>4 DEF IInv, Reading
    <2> QED BY <2>2, <2>3, <2>5 DEF IInv
<1>2. CASE Next /\ ~UNCHANGED vars
    BY <1>2, SendLengthKeepsIInv, SendRestKeepsIInv, FillKeepsIInv, GotLengthKeepsIInv,
       GotBodyKeepsIInv, StopKeepsIInv DEF Next, Progress, Over
<1> QED BY <1>1, <1>2

-----------------------------------------------------------------------------
(* Theorem *)

(* Over send_framed and recv_framed (turns_alloc.rs) whole messages come   *)
(* out as they went in, in order, whatever pieces the stream hands over    *)
(* and wherever the writer or the reader stops, provided that their        *)
(* lengths fit the prefix, which `msg.len() as u16` does not check.        *)
THEOREM ImplementsChannelHolds ==
    ASSUME Fits
    PROVE  Spec => ImplementsChannel
<1>1. Init => IInv /\ Abstract!Init
    BY InitIInv DEF Init, Abstract!Init
<1>2. IInv /\ [Next]_vars => IInv' /\ [Abstract!Send \/ Abstract!Receive]_<<sent, received>>
    <2> SUFFICES ASSUME IInv, [Next]_vars, ~UNCHANGED <<sent, received>>
                 PROVE  Abstract!Send \/ Abstract!Receive
        BY NextIInv
    <2>1. CASE SendLength
        BY <2>1 DEF SendLength, Abstract!Send
    <2>2. CASE GotBody
        BY <2>2, GotBodyReturnsTheNext DEF GotBody, Abstract!Receive
    <2> QED
        BY <2>1, <2>2 DEF Next, Progress, SendBody, Close, Fill, GotLength, Eof, Drop, Over, vars
<1> QED BY <1>1, <1>2, PTL DEF Spec, ImplementsChannel, Abstract!Spec
=============================================================================
