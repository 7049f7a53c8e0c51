--------------------------- MODULE TurnEchoProofs ---------------------------
(***************************************************************************)
(* Theorems about the echo check for every number of packets, every length *)
(* of interval, timeout and lifetime, every buffer, and any loss, delay,   *)
(* repetition or reordering on the way: first what it reports, then when a *)
(* task that runs as soon as it can sends, answers and calls a packet      *)
(* lost.                                                                   *)
(***************************************************************************)
EXTENDS TurnEcho, FiniteSetTheorems, TLAPS

-----------------------------------------------------------------------------
(* Constants and the receive buffer *)

LEMMA Numbers ==
    /\ MaxCount \in Nat /\ MaxCount >= 1
    /\ RecvTimeout \in Nat /\ RecvTimeout >= 1
    /\ Lifetime \in Nat /\ Lifetime >= 1
    /\ Interval \in Nat /\ BufferSize \in Nat /\ MaxCopies \in Nat
    /\ MaxNoise \in Nat /\ MaxTime \in Nat
<1>1. /\ MaxCount \in Nat \ {0} /\ RecvTimeout \in Nat \ {0} /\ Lifetime \in Nat \ {0}
      /\ Interval \in Nat /\ BufferSize \in Nat /\ MaxCopies \in Nat
      /\ MaxNoise \in Nat /\ MaxTime \in Nat
    BY EchoAssumption
<1> QED BY <1>1

\* The larger of a number and one.
LEMMA MaxOfOne ==
    ASSUME NEW n \in Nat
    PROVE  /\ Max({n, 1}) = IF n >= 1 THEN n ELSE 1
<1> DEFINE m == IF n >= 1 THEN n ELSE 1
<1>1. m \in {n, 1} /\ \A y \in {n, 1} : m >= y
    OBVIOUS
<1>2. \A x \in {n, 1} : (\A y \in {n, 1} : x >= y) => x = m
    OBVIOUS
<1> QED BY <1>1, <1>2, Zenon DEF Max

\* How much is ever buffered: a datagram may be left over from the allocation
\* whatever the buffer's size.
Room == IF BufferSize >= 1 THEN BufferSize ELSE 1

\* A datagram that arrives is last in the buffer, or dropped.
LEMMA ArriveMeans ==
    ASSUME NEW d \in Datagram, Arrive(d), inbox \in Seq(Datagram), Len(inbox) <= Room
    PROVE  /\ inbox' \in Seq(Datagram) /\ Len(inbox') <= Room
           /\ \A k \in 1..Len(inbox) : k \in 1..Len(inbox') /\ inbox'[k] = inbox[k]
           /\ IF HasRoom
              THEN Len(inbox') = Len(inbox) + 1 /\ inbox'[Len(inbox')] = d
              ELSE inbox' = inbox
<1> USE Numbers
<1>1. CASE HasRoom
    <2>1. inbox' = Append(inbox, d)
        BY <1>1 DEF Arrive
    <2>2. /\ inbox' \in Seq(Datagram) /\ Len(inbox') = Len(inbox) + 1
          /\ \A k \in 1..Len(inbox) : inbox'[k] = inbox[k]
          /\ inbox'[Len(inbox) + 1] = d
        BY <2>1
    <2>3. Len(inbox') <= Room
        BY <1>1, <2>2 DEF HasRoom, Room
    <2> QED BY <1>1, <2>2, <2>3
<1>2. CASE ~HasRoom
    BY <1>2 DEF Arrive
<1> QED BY <1>1, <1>2

\* Reading takes the first datagram and moves the others up.
LEMMA TailMeans ==
    ASSUME inbox \in Seq(Datagram), inbox # <<>>, inbox' = Tail(inbox)
    PROVE  /\ inbox' \in Seq(Datagram) /\ Len(inbox') = Len(inbox) - 1
           /\ Len(inbox) \in Nat \ {0}
           /\ Head(inbox) = inbox[1] /\ Head(inbox) \in Datagram
           /\ \A k \in 1..Len(inbox') : k + 1 \in 1..Len(inbox) /\ inbox'[k] = inbox[k + 1]
<1>1. Len(inbox) \in Nat \ {0}
    OBVIOUS
<1> QED BY <1>1

-----------------------------------------------------------------------------
(* The inductive invariant *)

\* Type correctness but for the bound on `received`, which comes of counting.
Types ==
    /\ prompt \in BOOLEAN /\ permitted \in BOOLEAN /\ overflow \in BOOLEAN
    /\ now \in 0..MaxTime
    /\ pc \in {"start", "permission", "sending", "collecting", "done"}
    /\ ctx \in ProbeContext
    /\ count \in 1..MaxCount
    /\ inbox \in Seq(Datagram) /\ Len(inbox) <= Room
    /\ sendTimes \in Seq(Nat)
    /\ wake \in Nat
    /\ rtts \in [Seqs -> Int]
    /\ received \in Nat
    /\ duplicates \in Nat
    /\ status \in {"none", "pass", "warn", "fail", "skip"}
    /\ expires \in Nat
    /\ copies \in [Seqs -> 0..MaxCopies]
    /\ arrivals \in [Seqs -> Int]
    /\ noise \in 0..MaxNoise

\* How far the check is.
StageInv ==
    /\ pc \in {"start", "permission"} => sendTimes = <<>>
    /\ pc = "sending" => Sent < count
    /\ pc = "collecting" => Sent = count
    /\ Sent <= count
    /\ pc # "done" <=> status = "none"
    /\ pc \in {"permission", "sending", "collecting"} => HasPeer(ctx)
    /\ pc \in {"sending", "collecting"} => permitted
    /\ Sent > 0 => permitted
    /\ status = "pass" => received = count
    /\ status = "warn" => received # count /\ Sent = count

\* What has been sent, and what came of it at the socket.
EchoInv ==
    /\ \A k \in 1..Sent : sendTimes[k] <= now
    /\ \A seq \in Seqs :
          /\ copies[seq] > 0 => seq < Sent
          /\ arrivals[seq] # NoTime => /\ copies[seq] > 0
                                       /\ SendTime(seq) <= arrivals[seq]
                                       /\ arrivals[seq] <= now

\* What waits in the buffer was sent to be there.
BufferInv ==
    \A k \in 1..Len(inbox) :
        /\ Ours(inbox[k]) => arrivals[inbox[k].seq] # NoTime
        /\ inbox[k].kind = "permitted" => permitted

\* What is reported came, and late rather than early.
RttInv ==
    \A seq \in Seqs : rtts[seq] # NoTime =>
        arrivals[seq] # NoTime /\ rtts[seq] >= arrivals[seq] - SendTime(seq)

Answered == {seq \in Seqs : rtts[seq] # NoTime}
Waiting == {k \in 1..Len(inbox) : Ours(inbox[k])}
Delivered == {sc \in Seqs \X (1..MaxCopies) : sc[2] <= copies[sc[1]]}

\* Every copy delivered is counted once, waits to be counted, or was dropped.
CountInv ==
    /\ received = Cardinality(Answered)
    /\ received + duplicates + Cardinality(Waiting) <= Cardinality(Delivered)

IInv == Types /\ StageInv /\ EchoInv /\ BufferInv /\ RttInv /\ CountInv

-----------------------------------------------------------------------------
(* Counting *)

LEMMA SeqsAreCounted ==
    ASSUME Types
    PROVE  /\ count \in Nat /\ count >= 1
           /\ IsFiniteSet(Seqs) /\ Cardinality(Seqs) = count
           /\ \A seq \in Seqs : seq \in Nat /\ seq < count
<1>1. count \in Nat /\ count >= 1
    BY Numbers DEF Types
<1>2. IsFiniteSet(Seqs) /\ Cardinality(Seqs) = count
    BY <1>1, FS_Interval DEF Seqs
<1> QED BY <1>1, <1>2 DEF Seqs

LEMMA AllFinite ==
    ASSUME Types
    PROVE  /\ IsFiniteSet(Answered) /\ Cardinality(Answered) \in Nat
           /\ Cardinality(Answered) <= count
           /\ Cardinality(Answered) = count => Answered = Seqs
           /\ IsFiniteSet(Waiting) /\ Cardinality(Waiting) \in Nat
           /\ IsFiniteSet(Delivered) /\ Cardinality(Delivered) \in Nat
<1>1. Answered \in SUBSET Seqs
    BY DEF Answered
<1>2. /\ IsFiniteSet(Answered) /\ Cardinality(Answered) <= count
      /\ Cardinality(Answered) = count => Answered = Seqs
    BY <1>1, SeqsAreCounted, FS_Subset
<1>3. Len(inbox) \in Nat /\ Waiting \in SUBSET (1..Len(inbox))
    BY DEF Waiting, Types
<1>4. IsFiniteSet(Waiting)
    <2>1. Len(inbox) \in Int
        BY <1>3
    <2>2. IsFiniteSet(1..Len(inbox))
        BY <2>1, FS_Interval
    <2> QED BY <1>3, <2>2, FS_Subset
<1>5. IsFiniteSet(Seqs \X (1..MaxCopies))
    <2>1. MaxCopies \in Int
        BY Numbers
    <2>2. IsFiniteSet(1..MaxCopies)
        BY <2>1, FS_Interval
    <2> QED BY <2>2, SeqsAreCounted, FS_Product
<1>6. Delivered \in SUBSET (Seqs \X (1..MaxCopies))
    BY DEF Delivered
<1>7. IsFiniteSet(Delivered)
    BY <1>5, <1>6, FS_Subset
<1> QED BY <1>2, <1>4, <1>7, FS_CardinalityType

-----------------------------------------------------------------------------
(* The beginning *)

LEMMA InitIInv == Init => IInv
<1> SUFFICES ASSUME Init PROVE IInv
    OBVIOUS
<1>1. PICK session \in {NoSession} \cup Sessions, srflx \in {NoAddr} \cup Addrs :
         ctx = [NewContext(TRUE, TRUE, TRUE, TRUE) EXCEPT
                   !.ips = TRUE, !.session = session, !.relayed = session.relayed,
                   !.srflx = srflx]
    BY DEF Init
<1>2. ctx \in ProbeContext
    <2>1. session.relayed \in Addrs \cup {NoAddr}
        BY DEF Sessions, NoSession
    <2> QED BY <1>1, <2>1 DEF NewContext, ProbeContext
<1>3. count \in 1..MaxCount
    <2>1. PICK n \in 0..MaxCount : count = EchoCount(n)
        BY DEF Init
    <2>2. n \in Nat /\ count = IF n >= 1 THEN n ELSE 1
        BY <2>1, MaxOfOne DEF EchoCount
    <2> QED BY <2>1, <2>2, Numbers
<1>4. inbox \in Seq(Datagram) /\ Len(inbox) <= Room /\ \A k \in 1..Len(inbox) : inbox[k].kind = "other"
    <2>1. Leftover \in Datagram /\ Leftover.kind = "other"
        BY Numbers DEF Leftover, Packet, Datagram
    <2>2. Room >= 1 /\ Room \in Nat
        BY Numbers DEF Room
    <2>3. CASE inbox = <<>>
        BY <2>2, <2>3
    <2>4. CASE inbox = <<Leftover>>
        BY <2>1, <2>2, <2>4
    <2> QED BY <2>3, <2>4 DEF Init
<1>5. NoTime \in Int /\ 0 \in 0..MaxCopies /\ 0 \in 0..MaxNoise /\ 0 \in 0..MaxTime
    BY Numbers DEF NoTime
<1>6. Types
    <2>1. rtts \in [Seqs -> Int] /\ arrivals \in [Seqs -> Int] /\ copies \in [Seqs -> 0..MaxCopies]
        BY <1>5 DEF Init
    <2>2. prompt \in BOOLEAN /\ permitted \in BOOLEAN /\ overflow \in BOOLEAN
        BY DEF Init
    <2> QED BY <1>2, <1>3, <1>4, <1>5, <2>1, <2>2 DEF Init, Types
<1>7. StageInv
    BY <1>3, Numbers DEF Init, StageInv, Sent
<1>8. EchoInv /\ BufferInv /\ RttInv
    BY <1>4, Numbers DEF Init, EchoInv, BufferInv, RttInv, Sent, Ours
<1>9. CountInv
    <2>1. Answered = {} /\ Waiting = {}
        BY <1>4 DEF Init, Answered, Waiting, Ours
    <2>2. Cardinality(Answered) = 0 /\ Cardinality(Waiting) = 0
        BY <2>1, FS_EmptySet
    <2>3. Cardinality(Delivered) \in Nat
        BY <1>6, AllFinite
    <2> QED BY <2>2, <2>3 DEF Init, CountInv
<1> QED BY <1>6, <1>7, <1>8, <1>9 DEF IInv

-----------------------------------------------------------------------------
(* Steps *)

\* A step that neither sends nor reads nor counts keeps the invariant if it
\* keeps the stages in order.
LEMMA QuietKeepsIInv ==
    ASSUME IInv,
           UNCHANGED <<prompt, permitted, overflow, now, ctx, count, inbox, sendTimes, rtts,
                       received, duplicates, expires, copies, arrivals, noise>>,
           wake' \in Nat,
           pc' \in {"start", "permission", "sending", "collecting", "done"},
           status' \in {"none", "pass", "warn", "fail", "skip"},
           StageInv'
    PROVE  IInv'
<1>1. Types'
    BY DEF IInv, Types, Seqs
<1>2. EchoInv'
    BY DEF IInv, EchoInv, Seqs, Sent, SendTime
<1>3. BufferInv'
    BY DEF IInv, BufferInv, Ours, Seqs
<1>4. RttInv'
    BY DEF IInv, RttInv, Seqs, SendTime
<1>5. CountInv'
    <2>1. Answered' = Answered /\ Waiting' = Waiting /\ Delivered' = Delivered
        BY DEF Answered, Waiting, Delivered, Ours, Seqs
    <2> QED BY <2>1 DEF IInv, CountInv
<1> QED BY <1>1, <1>2, <1>3, <1>4, <1>5 DEF IInv

\* The steps that wait, give up or say the verdict on what was counted.
LEMMA WaitKeepsIInv ==
    ASSUME IInv, Skip \/ SocketError \/ SendPermission \/ PermissionTimeout \/ Expire
    PROVE  IInv'
<1>1. CASE Skip
    <2>1. StageInv'
        BY <1>1 DEF Skip, Return, IInv, StageInv, Sent, netVars
    <2> QED BY <1>1, <2>1, QuietKeepsIInv DEF Skip, Return, netVars, IInv, Types
<1>2. CASE SocketError
    <2>1. StageInv'
        BY <1>2 DEF SocketError, Return, IInv, StageInv, Sent, netVars
    <2> QED BY <1>2, <2>1, QuietKeepsIInv DEF SocketError, Return, netVars, IInv, Types
<1>3. CASE SendPermission
    <2>1. StageInv'
        BY <1>3 DEF SendPermission, HasPeer, IInv, StageInv, Sent, netVars
    <2>2. wake' \in Nat
        BY <1>3, Numbers DEF SendPermission, IInv, Types
    <2> QED BY <1>3, <2>1, <2>2, QuietKeepsIInv DEF SendPermission, netVars, IInv, Types
<1>4. CASE PermissionTimeout
    <2>1. StageInv'
        BY <1>4 DEF PermissionTimeout, Return, IInv, StageInv, Sent, netVars
    <2> QED BY <1>4, <2>1, QuietKeepsIInv DEF PermissionTimeout, Return, netVars, IInv, Types
<1>5. CASE Expire
    <2>1. StageInv'
        BY <1>5, SeqsAreCounted DEF Expire, Return, Verdict, IInv, Types, StageInv, Sent, netVars
    <2>2. status' \in {"fail", "pass", "warn"}
        BY <1>5 DEF Expire, Return, Verdict
    <2> QED BY <1>5, <2>1, <2>2, QuietKeepsIInv DEF Expire, Return, netVars, IInv, Types
<1> QED BY <1>1, <1>2, <1>3, <1>4, <1>5

LEMMA TickKeepsIInv ==
    ASSUME IInv, Tick
    PROVE  IInv'
<1> USE Numbers
<1>1. /\ UNCHANGED <<prompt, permitted, overflow, pc, ctx, count, inbox, sendTimes, wake, rtts,
                     received, duplicates, status, expires, copies, arrivals, noise>>
      /\ now \in Nat /\ now' = now + 1 /\ now' \in 0..MaxTime
    BY DEF Tick, clientVars, netVars, IInv, Types
<1>2. Types'
    BY <1>1 DEF IInv, Types, Seqs
<1>3. StageInv'
    BY <1>1 DEF IInv, StageInv, Sent
<1>4. EchoInv'
    <2>1. sendTimes \in Seq(Nat) /\ arrivals \in [Seqs -> Int]
        BY DEF IInv, Types
    <2>2. \A k \in 1..Sent' : sendTimes'[k] <= now'
        <3>1. \A k \in 1..Sent : sendTimes[k] \in Nat /\ sendTimes[k] <= now
            BY <2>1 DEF IInv, EchoInv, Sent
        <3> QED BY <1>1, <3>1 DEF Sent
    <2>3. \A seq \in Seqs : /\ copies[seq] > 0 => seq < Sent
                            /\ arrivals[seq] # NoTime => /\ copies[seq] > 0
                                                         /\ SendTime(seq) <= arrivals[seq]
                                                         /\ arrivals[seq] <= now'
        BY <1>1, <2>1 DEF IInv, EchoInv
    <2> QED BY <1>1, <2>2, <2>3 DEF EchoInv, Seqs, Sent, SendTime
<1>5. BufferInv' /\ RttInv'
    BY <1>1 DEF IInv, BufferInv, RttInv, Ours, Seqs, SendTime
<1>6. CountInv'
    <2>1. Answered' = Answered /\ Waiting' = Waiting /\ Delivered' = Delivered
        BY <1>1 DEF Answered, Waiting, Delivered, Ours, Seqs
    <2> QED BY <1>1, <2>1 DEF IInv, CountInv
<1> QED BY <1>2, <1>3, <1>4, <1>5, <1>6 DEF IInv

\* Reading a datagram takes no more from what waits than the one that is read.
LEMMA ReadingShrinksWaiting ==
    ASSUME Types, inbox # <<>>, inbox' = Tail(inbox), count' = count
    PROVE  /\ Cardinality(Waiting') \in Nat
           /\ Cardinality(Waiting') <= IF Ours(Head(inbox)) THEN Cardinality(Waiting) - 1
                                                            ELSE Cardinality(Waiting)
<1> DEFINE Rest == Waiting \ {1}
           f == [k \in Waiting' |-> k + 1]
<1>1. /\ inbox' \in Seq(Datagram) /\ Len(inbox') = Len(inbox) - 1
      /\ Len(inbox) \in Nat \ {0}
      /\ Head(inbox) = inbox[1]
      /\ \A k \in 1..Len(inbox') : k + 1 \in 1..Len(inbox) /\ inbox'[k] = inbox[k + 1]
    BY TailMeans DEF Types
<1>2. IsFiniteSet(Rest)
      /\ Cardinality(Rest) = IF 1 \in Waiting THEN Cardinality(Waiting) - 1 ELSE Cardinality(Waiting)
    BY AllFinite, FS_RemoveElement
<1>3. f \in Injection(Waiting', Rest)
    <2>1. \A k \in Waiting' : k \in Nat \ {0} /\ k + 1 \in Rest
        <3> SUFFICES ASSUME NEW k \in Waiting' PROVE k \in Nat \ {0} /\ k + 1 \in Rest
            OBVIOUS
        <3>1. k \in 1..Len(inbox') /\ Ours(inbox'[k])
            BY DEF Waiting, Ours, Seqs
        <3>2. k + 1 \in 1..Len(inbox) /\ inbox'[k] = inbox[k + 1] /\ k \in Nat \ {0}
            BY <1>1, <3>1
        <3>3. k + 1 # 1
            BY <3>2
        <3> QED BY <3>1, <3>2, <3>3 DEF Waiting
    <2>2. f \in [Waiting' -> Rest]
        BY <2>1
    <2>3. \A a, b \in Waiting' : f[a] = f[b] => a = b
        BY <2>1
    <2> QED BY <2>2, <2>3 DEF Injection, IsInjective
<1>4. IsFiniteSet(Waiting') /\ Cardinality(Waiting') <= Cardinality(Rest)
    BY <1>2, <1>3, FS_Injection
<1>5. Ours(Head(inbox)) <=> 1 \in Waiting
    BY <1>1 DEF Waiting
<1> QED BY <1>2, <1>4, <1>5, FS_CardinalityType

LEMMA ReadingKeepsBufferInv ==
    ASSUME Types, BufferInv, inbox # <<>>, inbox' = Tail(inbox),
           UNCHANGED <<count, arrivals, permitted>>
    PROVE  BufferInv'
<1>1. \A k \in 1..Len(inbox') : k + 1 \in 1..Len(inbox) /\ inbox'[k] = inbox[k + 1]
    BY TailMeans DEF Types
<1>2. \A k \in 1..Len(inbox') : /\ Ours(inbox'[k]) => arrivals[inbox'[k].seq] # NoTime
                                /\ inbox'[k].kind = "permitted" => permitted
    BY <1>1 DEF BufferInv
<1> QED BY <1>2 DEF BufferInv, Ours, Seqs

LEMMA RecvPermissionKeepsIInv ==
    ASSUME IInv, RecvPermission
    PROVE  IInv'
<1>1. /\ UNCHANGED <<prompt, permitted, overflow, now, ctx, count, sendTimes, rtts,
                     received, duplicates, expires, copies, arrivals, noise>>
      /\ pc = "permission" /\ inbox # <<>> /\ inbox' = Tail(inbox)
    BY DEF RecvPermission, netVars
<1>2. /\ inbox' \in Seq(Datagram) /\ Len(inbox') = Len(inbox) - 1 /\ Len(inbox) \in Nat \ {0}
      /\ Head(inbox) = inbox[1] /\ Head(inbox) \in Datagram
    BY <1>1, TailMeans DEF IInv, Types
<1>3. Room \in Nat /\ now \in Nat
    BY Numbers DEF Room, IInv, Types
<1>4. \/ pc' = "sending" /\ wake' = now /\ status' = status /\ permitted
      \/ pc' = "done" /\ status' = "fail" /\ wake' = wake
    <2>1. Grants(Head(inbox)) => permitted
        BY <1>2 DEF Grants, IInv, BufferInv
    <2> QED BY <2>1 DEF RecvPermission, Return
<1>5. Types'
    <2>1. Len(inbox') <= Room
        BY <1>2, <1>3 DEF IInv, Types
    <2>2. wake' \in Nat
        BY <1>3, <1>4 DEF IInv, Types
    <2>3. /\ pc' \in {"start", "permission", "sending", "collecting", "done"}
          /\ status' \in {"none", "pass", "warn", "fail", "skip"}
        BY <1>4 DEF IInv, Types
    <2> QED BY <1>1, <1>2, <2>1, <2>2, <2>3 DEF IInv, Types, Seqs
<1>6. StageInv'
    <2>1. sendTimes = <<>> /\ Sent' = 0 /\ count \in Nat /\ count >= 1
        BY <1>1, SeqsAreCounted DEF IInv, StageInv, Sent
    <2> QED BY <1>1, <1>4, <2>1 DEF IInv, StageInv
<1>7. EchoInv' /\ RttInv'
    BY <1>1 DEF IInv, EchoInv, RttInv, Seqs, Sent, SendTime
<1>8. BufferInv'
    BY <1>1, ReadingKeepsBufferInv DEF IInv
<1>9. CountInv'
    <2>1. Answered' = Answered /\ Delivered' = Delivered
        BY <1>1 DEF Answered, Delivered, Seqs
    <2>2. Cardinality(Waiting') \in Nat /\ Cardinality(Waiting') <= Cardinality(Waiting)
        BY <1>1, ReadingShrinksWaiting, AllFinite DEF IInv
    <2>3. received \in Nat /\ duplicates \in Nat /\ Cardinality(Waiting) \in Nat /\ Cardinality(Delivered) \in Nat
        BY AllFinite DEF IInv, Types
    <2> QED BY <1>1, <2>1, <2>2, <2>3 DEF IInv, CountInv
<1> QED BY <1>5, <1>6, <1>7, <1>8, <1>9 DEF IInv

LEMMA SendPacketKeepsIInv ==
    ASSUME IInv, SendPacket
    PROVE  IInv'
<1>1. /\ UNCHANGED <<prompt, permitted, overflow, now, ctx, count, inbox, rtts,
                     received, duplicates, status, expires, copies, arrivals, noise>>
      /\ pc = "sending" /\ sendTimes' = Append(sendTimes, now)
    BY DEF SendPacket, netVars
<1>2. now \in Nat /\ Sent \in Nat /\ count \in Nat /\ sendTimes \in Seq(Nat)
    BY SeqsAreCounted, Numbers DEF IInv, Types, Sent
<1>3. /\ sendTimes' \in Seq(Nat) /\ Sent' = Sent + 1
      /\ \A k \in 1..Sent : sendTimes'[k] = sendTimes[k]
      /\ sendTimes'[Sent + 1] = now
    BY <1>1, <1>2 DEF Sent
<1>4. \/ Sent + 1 < count /\ wake' = now + Interval /\ pc' = pc
      \/ Sent + 1 = count /\ wake' = now + RecvTimeout /\ pc' = "collecting"
    BY <1>1, <1>2 DEF SendPacket, IInv, StageInv
<1>5. Types'
    <2>1. wake' \in Nat
        BY <1>2, <1>4, Numbers
    <2>2. pc' \in {"start", "permission", "sending", "collecting", "done"}
        BY <1>4 DEF IInv, Types
    <2> QED BY <1>1, <1>3, <2>1, <2>2 DEF IInv, Types, Seqs
<1>6. StageInv'
    <2>1. status = "none" /\ HasPeer(ctx) /\ permitted
        BY <1>1 DEF IInv, StageInv
    <2>2. CASE Sent + 1 < count /\ pc' = pc
        <3>1. Sent' < count /\ Sent' <= count
            BY <1>2, <1>3, <2>2
        <3> QED BY <1>1, <2>1, <2>2, <3>1 DEF StageInv
    <2>3. CASE Sent + 1 = count /\ pc' = "collecting"
        <3>1. Sent' = count /\ Sent' <= count
            BY <1>2, <1>3, <2>3
        <3> QED BY <1>1, <2>1, <2>3, <3>1 DEF StageInv
    <2> QED BY <1>4, <2>2, <2>3
<1>7. \A seq \in Seqs : seq < Sent => SendTime(seq)' = SendTime(seq)
    BY <1>2, <1>3, SeqsAreCounted DEF IInv, SendTime
<1>8. EchoInv'
    <2>1. \A k \in 1..Sent' : sendTimes'[k] <= now
        <3> TAKE k \in 1..Sent'
        <3>1. CASE k \in 1..Sent
            BY <1>3, <3>1 DEF IInv, EchoInv
        <3>2. CASE k = Sent + 1
            BY <1>2, <1>3, <3>2
        <3> QED BY <1>2, <1>3, <3>1, <3>2
    <2>2. \A seq \in Seqs : copies[seq] > 0 => seq < Sent'
        <3> TAKE seq \in Seqs
        <3>1. copies[seq] > 0 => seq < Sent
            BY DEF IInv, EchoInv
        <3>2. seq \in Nat
            BY SeqsAreCounted DEF IInv
        <3> QED BY <1>2, <1>3, <3>1, <3>2
    <2>3. \A seq \in Seqs : arrivals[seq] # NoTime => /\ copies[seq] > 0
                                                      /\ SendTime(seq)' <= arrivals[seq]
                                                      /\ arrivals[seq] <= now
        BY <1>7 DEF IInv, EchoInv
    <2> QED BY <1>1, <2>1, <2>2, <2>3 DEF EchoInv, Seqs, SendTime
<1>9. BufferInv'
    BY <1>1 DEF IInv, BufferInv, Ours, Seqs
<1>10. RttInv'
    <2>1. \A seq \in Seqs : rtts[seq] # NoTime => SendTime(seq)' = SendTime(seq)
        BY <1>7 DEF IInv, RttInv, EchoInv
    <2> QED BY <1>1, <2>1 DEF IInv, RttInv, Seqs, SendTime
<1>11. CountInv'
    <2>1. Answered' = Answered /\ Waiting' = Waiting /\ Delivered' = Delivered
        BY <1>1 DEF Answered, Waiting, Delivered, Ours, Seqs
    <2> QED BY <1>1, <2>1 DEF IInv, CountInv
<1> QED BY <1>5, <1>6, <1>8, <1>9, <1>10, <1>11 DEF IInv

\* What the tally makes of a datagram that was in the buffer.
LEMMA TallyMeans ==
    ASSUME IInv, NEW d \in Datagram, Tally(d), UNCHANGED <<count, now, sendTimes, arrivals>>,
           Ours(d) => arrivals[d.seq] # NoTime
    PROVE  /\ rtts' \in [Seqs -> Int] /\ received' \in Nat /\ duplicates' \in Nat
           /\ \A seq \in Seqs : rtts[seq] # NoTime => rtts'[seq] = rtts[seq]
           /\ \A seq \in Seqs : rtts'[seq] # NoTime /\ rtts[seq] = NoTime =>
                 /\ seq = d.seq /\ Ours(d)
                 /\ rtts'[seq] = now - SendTime(seq)
           /\ received' = Cardinality(Answered')
           /\ received' + duplicates' = received + duplicates + IF Ours(d) THEN 1 ELSE 0
           /\ Ours(d) => rtts'[d.seq] # NoTime
<1>1. /\ rtts \in [Seqs -> Int] /\ received \in Nat /\ duplicates \in Nat
      /\ received = Cardinality(Answered) /\ IsFiniteSet(Answered)
      /\ Answered' = {seq \in Seqs : rtts'[seq] # NoTime}
    BY AllFinite DEF IInv, Types, CountInv, Answered, Seqs
<1>2. CASE ~Ours(d)
    <2>1. rtts' = rtts /\ received' = received /\ duplicates' = duplicates
        BY <1>2 DEF Tally
    <2>2. Answered' = Answered
        BY <1>1, <2>1 DEF Answered
    <2>3. received' = Cardinality(Answered')
        BY <1>1, <2>1, <2>2
    <2>4. received' + duplicates' = received + duplicates + 0
        BY <1>1, <2>1
    <2>5. rtts' \in [Seqs -> Int] /\ received' \in Nat /\ duplicates' \in Nat
        BY <1>1, <2>1
    <2> QED BY <1>2, <2>1, <2>3, <2>4, <2>5
<1>3. CASE Ours(d) /\ rtts[d.seq] # NoTime
    BY <1>1, <1>3 DEF Tally, Answered
<1>4. CASE Ours(d) /\ rtts[d.seq] = NoTime
    <2>1. /\ d.seq \in Seqs
          /\ rtts' = [rtts EXCEPT ![d.seq] = now - SendTime(d.seq)]
          /\ received' = received + 1 /\ duplicates' = duplicates
        BY <1>4 DEF Tally, Ours
    <2>2. d.seq < Sent /\ d.seq \in Nat
        BY <1>4, <2>1, SeqsAreCounted DEF IInv, EchoInv
    <2>3. d.seq + 1 \in 1..Sent
        BY <2>2 DEF Sent, IInv, Types
    <2>4. SendTime(d.seq) \in Nat /\ SendTime(d.seq) <= now /\ now \in Nat
        BY <2>3, Numbers DEF IInv, Types, EchoInv, SendTime, Sent
    <2>5. now - SendTime(d.seq) \in Int /\ now - SendTime(d.seq) # NoTime
        BY <2>4 DEF NoTime
    <2>6. /\ rtts' \in [Seqs -> Int]
          /\ rtts'[d.seq] = now - SendTime(d.seq)
          /\ \A seq \in Seqs : seq # d.seq => rtts'[seq] = rtts[seq]
        BY <1>1, <2>1, <2>5
    <2>7. Answered' = Answered \cup {d.seq} /\ d.seq \notin Answered
        BY <1>1, <1>4, <2>1, <2>5, <2>6 DEF Answered
    <2>8. received' = Cardinality(Answered')
        BY <1>1, <2>1, <2>7, FS_AddElement
    <2> QED BY <1>1, <1>4, <2>1, <2>5, <2>6, <2>8
<1> QED BY <1>2, <1>3, <1>4

LEMMA CollectKeepsIInv ==
    ASSUME IInv, Collect
    PROVE  IInv'
<1> DEFINE d == Head(inbox)
<1>1. /\ UNCHANGED <<prompt, permitted, overflow, now, ctx, count, sendTimes, wake,
                     expires, copies, arrivals, noise>>
      /\ pc = "collecting" /\ inbox # <<>> /\ inbox' = Tail(inbox) /\ Tally(d)
    BY DEF Collect, netVars
<1>2. /\ inbox' \in Seq(Datagram) /\ Len(inbox') = Len(inbox) - 1 /\ Len(inbox) \in Nat \ {0}
      /\ d = inbox[1] /\ d \in Datagram
    BY <1>1, TailMeans DEF IInv, Types
<1>3. Ours(d) => arrivals[d.seq] # NoTime
    BY <1>2 DEF IInv, BufferInv
<1> HIDE DEF d
<1>4. /\ rtts' \in [Seqs -> Int] /\ received' \in Nat /\ duplicates' \in Nat
      /\ \A seq \in Seqs : rtts[seq] # NoTime => rtts'[seq] = rtts[seq]
      /\ \A seq \in Seqs : rtts'[seq] # NoTime /\ rtts[seq] = NoTime =>
            seq = d.seq /\ Ours(d) /\ rtts'[seq] = now - SendTime(seq)
      /\ received' = Cardinality(Answered')
      /\ received' + duplicates' = received + duplicates + IF Ours(d) THEN 1 ELSE 0
    BY <1>1, <1>2, <1>3, TallyMeans
<1>5. \/ /\ received' = count \/ now >= wake
         /\ pc' = "done"
         /\ status' = IF received' = 0 THEN "fail" ELSE IF received' = count THEN "pass" ELSE "warn"
      \/ received' # count /\ now < wake /\ pc' = pc /\ status' = status
    BY Numbers DEF Collect, Return, Verdict, IInv, Types
<1>6. Types'
    <2>1. Room \in Nat
        BY Numbers DEF Room
    <2>2. Len(inbox') <= Room
        BY <1>2, <2>1 DEF IInv, Types
    <2>3. /\ pc' \in {"start", "permission", "sending", "collecting", "done"}
          /\ status' \in {"none", "pass", "warn", "fail", "skip"}
        BY <1>5 DEF IInv, Types
    <2> QED BY <1>1, <1>2, <1>4, <2>2, <2>3 DEF IInv, Types, Seqs
<1>7. StageInv'
    <2>1. Sent' = Sent /\ Sent = count /\ count' = count /\ count >= 1 /\ count \in Nat /\ status = "none"
          /\ HasPeer(ctx) /\ ctx' = ctx /\ permitted' = permitted /\ permitted
        BY <1>1, SeqsAreCounted DEF IInv, StageInv, Sent
    <2> QED BY <1>1, <1>5, <2>1 DEF StageInv
<1>8. EchoInv'
    BY <1>1 DEF IInv, EchoInv, Seqs, Sent, SendTime
<1>9. BufferInv'
    BY <1>1, ReadingKeepsBufferInv DEF IInv
<1>10. RttInv'
    <2>1. \A seq \in Seqs : rtts'[seq] # NoTime =>
             arrivals[seq] # NoTime /\ rtts'[seq] >= arrivals[seq] - SendTime(seq)
        <3> TAKE seq \in Seqs
        <3>1. CASE rtts[seq] # NoTime
            BY <1>4, <3>1 DEF IInv, RttInv
        <3>2. CASE rtts[seq] = NoTime /\ rtts'[seq] # NoTime
            <4>1. /\ seq = d.seq /\ arrivals[seq] # NoTime
                  /\ rtts'[seq] = now - SendTime(seq)
                BY <1>3, <1>4, <3>2
            <4>2. arrivals[seq] <= now /\ arrivals[seq] \in Int /\ now \in Int
                BY <4>1 DEF IInv, EchoInv, Types
            <4>3. seq < Sent /\ seq \in Nat
                BY <4>1, SeqsAreCounted DEF IInv, EchoInv
            <4>4. SendTime(seq) \in Int
                BY <4>3 DEF SendTime, Sent, IInv, Types
            <4> QED BY <4>1, <4>2, <4>4
        <3> QED BY <3>1, <3>2
    <2> QED BY <1>1, <2>1 DEF RttInv, Seqs, SendTime
<1>11. CountInv'
    <2>1. Delivered' = Delivered
        BY <1>1 DEF Delivered, Seqs
    <2>2. /\ Cardinality(Waiting') \in Nat
          /\ Cardinality(Waiting') <= IF Ours(d) THEN Cardinality(Waiting) - 1 ELSE Cardinality(Waiting)
        BY <1>1, ReadingShrinksWaiting DEF IInv, d
    <2>3. received \in Nat /\ duplicates \in Nat /\ Cardinality(Waiting) \in Nat /\ Cardinality(Delivered) \in Nat
        BY AllFinite DEF IInv, Types
    <2>4. received + duplicates + Cardinality(Waiting) <= Cardinality(Delivered)
        BY DEF IInv, CountInv
    <2>5. received' + duplicates' + Cardinality(Waiting') <= Cardinality(Delivered)
        BY <1>4, <2>2, <2>3, <2>4
    <2> QED BY <1>4, <2>1, <2>5 DEF CountInv
<1> QED BY <1>6, <1>7, <1>8, <1>9, <1>10, <1>11 DEF IInv

-----------------------------------------------------------------------------
(* The network *)

LEMMA PacketIsDatagram ==
    ASSUME NEW from \in {"server", "elsewhere"},
           NEW kind \in {"permitted", "rejected", "data", "other"}, NEW seq \in 0..MaxCount
    PROVE  Packet(from, kind, seq) \in Datagram
BY DEF Packet, Datagram

\* A datagram that arrives adds to what waits if it is one of ours and there
\* is room.
LEMMA ArrivalGrowsWaiting ==
    ASSUME Types, NEW d \in Datagram, Arrive(d)
    PROVE  /\ Cardinality(Waiting') \in Nat
           /\ Cardinality(Waiting') <= Cardinality(Waiting) + IF Ours(d) THEN 1 ELSE 0
<1> DEFINE last == Len(inbox) + 1
<1>1. /\ inbox' \in Seq(Datagram) /\ Len(inbox) \in Nat /\ count' = count
      /\ \A k \in 1..Len(inbox) : k \in 1..Len(inbox') /\ inbox'[k] = inbox[k]
      /\ IF HasRoom THEN Len(inbox') = last /\ inbox'[last] = d ELSE inbox' = inbox
    BY ArriveMeans DEF Types, Arrive, clientVars
<1>2. Waiting' \subseteq IF Ours(d) THEN Waiting \cup {last} ELSE Waiting
    <2>1. Waiting' = {k \in 1..Len(inbox') : Ours(inbox'[k])}
        BY <1>1 DEF Waiting, Ours, Seqs
    <2>2. CASE HasRoom
        <3>1. \A k \in 1..Len(inbox') : k \in 1..Len(inbox) \/ k = last
            BY <1>1, <2>2
        <3> QED BY <1>1, <2>1, <2>2, <3>1 DEF Waiting
    <2>3. CASE ~HasRoom
        BY <1>1, <2>1, <2>3 DEF Waiting
    <2> QED BY <2>2, <2>3
<1>3. last \notin Waiting
    BY <1>1 DEF Waiting
<1>4. /\ IsFiniteSet(Waiting) /\ Cardinality(Waiting) \in Nat
      /\ IsFiniteSet(Waiting \cup {last})
      /\ Cardinality(Waiting \cup {last}) = Cardinality(Waiting) + 1
    BY <1>3, AllFinite, FS_AddElement
<1>5. CASE Ours(d)
    <2>1. Waiting' \in SUBSET (Waiting \cup {last})
        BY <1>2, <1>5
    <2>2. IsFiniteSet(Waiting') /\ Cardinality(Waiting') <= Cardinality(Waiting \cup {last})
        BY <1>4, <2>1, FS_Subset
    <2> QED BY <1>4, <1>5, <2>2, FS_CardinalityType
<1>6. CASE ~Ours(d)
    <2>1. Waiting' \in SUBSET Waiting
        BY <1>2, <1>6
    <2>2. IsFiniteSet(Waiting') /\ Cardinality(Waiting') <= Cardinality(Waiting)
        BY <1>4, <2>1, FS_Subset
    <2> QED BY <1>4, <1>6, <2>2, FS_CardinalityType
<1> QED BY <1>5, <1>6

\* A datagram that is no echo changes nothing but the buffer.
LEMMA StrangerKeepsIInv ==
    ASSUME IInv, pc # "done", NEW d \in Datagram, Arrive(d), ~Ours(d),
           UNCHANGED <<copies, arrivals>>,
           permitted' \in BOOLEAN, expires' \in Nat, noise' \in 0..MaxNoise,
           permitted => permitted',
           d.kind = "permitted" => permitted'
    PROVE  IInv'
<1>1. UNCHANGED <<prompt, now, pc, ctx, count, sendTimes, wake, rtts, received, duplicates, status>>
    BY DEF Arrive, clientVars
<1>2. /\ inbox' \in Seq(Datagram) /\ Len(inbox') <= Room
      /\ Len(inbox) \in Nat
      /\ \A k \in 1..Len(inbox) : k \in 1..Len(inbox') /\ inbox'[k] = inbox[k]
      /\ IF HasRoom THEN Len(inbox') = Len(inbox) + 1 /\ inbox'[Len(inbox')] = d
                    ELSE inbox' = inbox
    <2>1. inbox \in Seq(Datagram) /\ Len(inbox) <= Room /\ Len(inbox) \in Nat
        BY DEF IInv, Types
    <2> QED BY <2>1, ArriveMeans
<1>3. Types'
    <2>1. overflow' \in BOOLEAN
        BY DEF Arrive, IInv, Types
    <2> QED BY <1>1, <1>2, <2>1 DEF IInv, Types, Seqs
<1>4. StageInv'
    BY <1>1 DEF IInv, StageInv, Sent
<1>5. EchoInv' /\ RttInv'
    BY <1>1 DEF IInv, EchoInv, RttInv, Seqs, Sent, SendTime
<1>6. BufferInv'
    <2>1. \A k \in 1..Len(inbox') : (k \in 1..Len(inbox) /\ inbox'[k] = inbox[k]) \/ inbox'[k] = d
        BY <1>2
    <2>2. \A k \in 1..Len(inbox') : /\ Ours(inbox'[k]) => arrivals[inbox'[k].seq] # NoTime
                                    /\ inbox'[k].kind = "permitted" => permitted'
        BY <2>1 DEF IInv, BufferInv
    <2> QED BY <1>1, <2>2 DEF BufferInv, Ours, Seqs
<1>7. CountInv'
    <2>1. Answered' = Answered /\ Delivered' = Delivered
        BY <1>1 DEF Answered, Delivered, Seqs
    <2>2. Cardinality(Waiting') \in Nat /\ Cardinality(Waiting') <= Cardinality(Waiting)
        BY ArrivalGrowsWaiting, AllFinite DEF IInv
    <2>3. received \in Nat /\ duplicates \in Nat /\ Cardinality(Waiting) \in Nat /\ Cardinality(Delivered) \in Nat
        BY AllFinite DEF IInv, Types
    <2> QED BY <1>1, <2>1, <2>2, <2>3 DEF IInv, CountInv
<1> QED BY <1>3, <1>4, <1>5, <1>6, <1>7 DEF IInv

LEMMA AnswerPermissionKeepsIInv ==
    ASSUME IInv, pc # "done", NEW kind \in {"permitted", "rejected"}, AnswerPermission(kind)
    PROVE  IInv'
<1> DEFINE d == Packet("server", kind, 0)
<1>1. d \in Datagram /\ d.kind = kind /\ ~Ours(d)
    <2>1. 0 \in 0..MaxCount
        BY Numbers
    <2> QED BY <2>1, PacketIsDatagram DEF Packet, Ours
<1>2. expires' \in Nat
    BY Numbers DEF AnswerPermission, IInv, Types
<1>3. noise' \in 0..MaxNoise
    BY DEF AnswerPermission, IInv, Types
<1>4. permitted' \in BOOLEAN /\ ~permitted /\ (kind = "permitted" => permitted')
    BY DEF AnswerPermission
<1> QED BY <1>1, <1>2, <1>3, <1>4, StrangerKeepsIInv DEF AnswerPermission

LEMMA DisturbKeepsIInv ==
    ASSUME IInv, pc # "done", NEW d \in Noises, Disturb(d)
    PROVE  IInv'
<1>1. d \in Datagram /\ d.kind # "permitted" /\ ~Ours(d)
    <2>1. 0 \in 0..MaxCount /\ MaxCount \in 0..MaxCount
        BY Numbers
    <2>2. MaxCount \notin Seqs
        BY SeqsAreCounted, Numbers DEF IInv, Types
    <2> QED BY <2>1, <2>2, PacketIsDatagram DEF Noises, Leftover, Packet, Ours
<1>2. noise' \in 0..MaxNoise
    BY Numbers DEF Disturb, IInv, Types
<1>3. permitted' = permitted /\ expires' = expires /\ permitted \in BOOLEAN /\ expires \in Nat
    BY DEF Disturb, IInv, Types
<1> QED BY <1>1, <1>2, <1>3, StrangerKeepsIInv DEF Disturb

LEMMA EchoKeepsIInv ==
    ASSUME IInv, pc # "done", NEW seq \in Seqs, Echo(seq)
    PROVE  IInv'
<1> DEFINE d == Packet("server", "data", seq)
<1>1. /\ UNCHANGED <<prompt, now, pc, ctx, count, sendTimes, wake, rtts, received, duplicates,
                     status, permitted, expires, noise>>
      /\ seq < Sent /\ copies[seq] < MaxCopies
      /\ copies' = [copies EXCEPT ![seq] = copies[seq] + 1]
      /\ arrivals' = [arrivals EXCEPT ![seq] =
                        IF arrivals[seq] = NoTime /\ HasRoom THEN now ELSE arrivals[seq]]
      /\ Arrive(d)
    BY DEF Echo, Arrive, clientVars
<1>2. /\ d \in Datagram /\ Ours(d) /\ d.seq = seq /\ d.kind = "data"
    <2>1. seq \in 0..MaxCount
        BY SeqsAreCounted, Numbers DEF IInv, Types
    <2> QED BY <2>1, PacketIsDatagram DEF Packet, Ours
<1>3. /\ inbox' \in Seq(Datagram) /\ Len(inbox') <= Room /\ Len(inbox) \in Nat
      /\ \A k \in 1..Len(inbox) : k \in 1..Len(inbox') /\ inbox'[k] = inbox[k]
      /\ IF HasRoom THEN Len(inbox') = Len(inbox) + 1 /\ inbox'[Len(inbox')] = d
                    ELSE inbox' = inbox
    <2>1. inbox \in Seq(Datagram) /\ Len(inbox) <= Room /\ Len(inbox) \in Nat
        BY DEF IInv, Types
    <2> HIDE DEF d
    <2> QED BY <1>1, <1>2, <2>1, ArriveMeans
<1>4. /\ copies \in [Seqs -> 0..MaxCopies] /\ arrivals \in [Seqs -> Int]
      /\ now \in Nat /\ MaxCopies \in Nat /\ copies[seq] \in Nat
    BY Numbers DEF IInv, Types
<1>5. /\ copies' \in [Seqs -> 0..MaxCopies] /\ arrivals' \in [Seqs -> Int]
      /\ copies'[seq] = copies[seq] + 1
      /\ \A t \in Seqs : t # seq => copies'[t] = copies[t] /\ arrivals'[t] = arrivals[t]
      /\ arrivals[seq] # NoTime => arrivals'[seq] = arrivals[seq]
      /\ arrivals[seq] = NoTime /\ HasRoom => arrivals'[seq] = now
      /\ ~HasRoom => arrivals'[seq] = arrivals[seq]
    BY <1>1, <1>4
<1>6. \A t \in Seqs : arrivals[t] # NoTime => arrivals'[t] = arrivals[t]
    BY <1>5
<1>7. HasRoom => arrivals'[seq] # NoTime
    BY <1>4, <1>5 DEF NoTime
<1>8. Types'
    <2>1. overflow' \in BOOLEAN
        BY <1>1 DEF Arrive, IInv, Types
    <2> QED BY <1>1, <1>3, <1>5, <2>1 DEF IInv, Types, Seqs
<1>9. StageInv'
    BY <1>1 DEF IInv, StageInv, Sent
<1>10. EchoInv'
    <2>1. SendTime(seq) \in Nat /\ SendTime(seq) <= now
        <3>1. seq + 1 \in 1..Sent
            BY <1>1, SeqsAreCounted DEF IInv, Types, Sent
        <3> QED BY <3>1 DEF IInv, Types, EchoInv, SendTime, Sent
    <2>2. \A t \in Seqs : /\ copies'[t] > 0 => t < Sent
                          /\ arrivals'[t] # NoTime => /\ copies'[t] > 0
                                                      /\ SendTime(t) <= arrivals'[t]
                                                      /\ arrivals'[t] <= now
        <3> TAKE t \in Seqs
        <3>1. CASE t # seq
            BY <1>5, <3>1 DEF IInv, EchoInv
        <3>2. CASE t = seq
            <4>1. copies'[t] > 0 /\ t < Sent
                BY <1>1, <1>4, <1>5, <3>2
            <4>2. arrivals'[t] = arrivals[t] \/ arrivals'[t] = now
                BY <1>5, <3>2
            <4> QED BY <1>4, <2>1, <3>2, <4>1, <4>2 DEF IInv, EchoInv
        <3> QED BY <3>1, <3>2
    <2> QED BY <1>1, <2>2 DEF IInv, EchoInv, Seqs, Sent, SendTime
<1>11. BufferInv'
    <2>1. \A k \in 1..Len(inbox') :
             \/ k \in 1..Len(inbox) /\ inbox'[k] = inbox[k]
             \/ HasRoom /\ inbox'[k] = d
        BY <1>3
    <2>2. \A k \in 1..Len(inbox') : /\ Ours(inbox'[k]) => arrivals'[inbox'[k].seq] # NoTime
                                    /\ inbox'[k].kind = "permitted" => permitted
        <3> TAKE k \in 1..Len(inbox')
        <3>1. CASE k \in 1..Len(inbox) /\ inbox'[k] = inbox[k]
            BY <1>6, <3>1 DEF IInv, BufferInv, Ours
        <3>2. CASE HasRoom /\ inbox'[k] = d
            BY <1>2, <1>7, <3>2
        <3> QED BY <2>1, <3>1, <3>2
    <2> QED BY <1>1, <2>2 DEF BufferInv, Ours, Seqs
<1>12. RttInv'
    <2>1. \A t \in Seqs : rtts[t] # NoTime =>
             arrivals'[t] # NoTime /\ rtts[t] >= arrivals'[t] - SendTime(t)
        BY <1>6 DEF IInv, RttInv
    <2> QED BY <1>1, <2>1 DEF RttInv, Seqs, SendTime
<1>13. CountInv'
    <2> DEFINE copy == <<seq, copies[seq] + 1>>
    <2>1. Answered' = Answered
        BY <1>1 DEF Answered, Seqs
    <2>2. Delivered' = Delivered \cup {copy} /\ copy \notin Delivered
        <3>1. copy \in Seqs \X (1..MaxCopies)
            BY <1>1, <1>4
        <3>2. Delivered' = {sc \in Seqs \X (1..MaxCopies) : sc[2] <= copies'[sc[1]]}
            BY <1>1 DEF Delivered, Seqs
        <3>3. \A sc \in Seqs \X (1..MaxCopies) :
                 sc[2] <= copies'[sc[1]] <=> sc[2] <= copies[sc[1]] \/ sc = copy
            <4> TAKE sc \in Seqs \X (1..MaxCopies)
            <4>1. sc = <<sc[1], sc[2]>> /\ sc[1] \in Seqs /\ sc[2] \in Nat
                BY <1>4
            <4>2. CASE sc[1] = seq
                BY <1>4, <1>5, <4>1, <4>2
            <4>3. CASE sc[1] # seq
                BY <1>5, <4>1, <4>3
            <4> QED BY <4>2, <4>3
        <3>4. ~(copy[2] <= copies[copy[1]])
            BY <1>4
        <3> HIDE DEF copy
        <3> QED BY <3>1, <3>2, <3>3, <3>4 DEF Delivered
    <2>3. Cardinality(Delivered') = Cardinality(Delivered) + 1
        BY <2>2, AllFinite, FS_AddElement DEF IInv
    <2>4. Cardinality(Waiting') \in Nat /\ Cardinality(Waiting') <= Cardinality(Waiting) + 1
        BY <1>1, <1>2, ArrivalGrowsWaiting DEF IInv
    <2>5. received \in Nat /\ duplicates \in Nat /\ Cardinality(Waiting) \in Nat /\ Cardinality(Delivered) \in Nat
        BY AllFinite DEF IInv, Types
    <2> QED BY <1>1, <2>1, <2>3, <2>4, <2>5 DEF IInv, CountInv
<1> QED BY <1>8, <1>9, <1>10, <1>11, <1>12, <1>13 DEF IInv

-----------------------------------------------------------------------------
LEMMA NextIInv == IInv /\ [Next]_vars => IInv'
<1> SUFFICES ASSUME IInv, [Next]_vars PROVE IInv'
    OBVIOUS
<1>1. CASE Skip \/ SocketError \/ SendPermission \/ PermissionTimeout \/ Expire
    BY <1>1, WaitKeepsIInv
<1>2. CASE RecvPermission
    BY <1>2, RecvPermissionKeepsIInv
<1>3. CASE SendPacket
    BY <1>3, SendPacketKeepsIInv
<1>4. CASE Collect
    BY <1>4, CollectKeepsIInv
<1>5. CASE Tick
    BY <1>5, TickKeepsIInv
<1>6. CASE NetNext
    BY <1>6, AnswerPermissionKeepsIInv, EchoKeepsIInv, DisturbKeepsIInv DEF NetNext
<1>7. CASE UNCHANGED vars
    <2>1. StageInv'
        BY <1>7 DEF vars, clientVars, netVars, IInv, StageInv, Sent
    <2> QED BY <1>7, <2>1, QuietKeepsIInv DEF vars, clientVars, netVars, IInv, Types
<1> QED BY <1>1, <1>2, <1>3, <1>4, <1>5, <1>6, <1>7 DEF Next, Progress, Returned

LEMMA IInvHolds == Spec => []IInv
BY InitIInv, NextIInv, PTL DEF Spec

-----------------------------------------------------------------------------
(* Theorems *)

(* The state of check, network and clock is well typed; in particular no   *)
(* more echoes are received than packets were asked for.                   *)
THEOREM TypeCorrect == Spec => []TypeOK
<1>1. IInv => TypeOK
    <2> SUFFICES ASSUME IInv PROVE TypeOK
        OBVIOUS
    <2>1. received \in 0..count
        BY AllFinite, SeqsAreCounted DEF IInv, CountInv
    <2>2. Max({BufferSize, 1}) = Room
        BY MaxOfOne, Numbers DEF Room
    <2> QED BY <2>1, <2>2 DEF IInv, Types, StageInv, TypeOK
<1> QED BY <1>1, IInvHolds, PTL

(* A Pass of the echo means that the relay sent back every packet.         *)
THEOREM PassMeansAllEchoedHolds == Spec => []PassMeansAllEchoed
<1>1. IInv => PassMeansAllEchoed
    <2> SUFFICES ASSUME IInv, status = "pass", NEW seq \in Seqs PROVE copies[seq] > 0
        BY DEF PassMeansAllEchoed
    <2>1. Answered = Seqs
        BY AllFinite DEF IInv, StageInv, CountInv
    <2>2. rtts[seq] # NoTime
        BY <2>1 DEF Answered
    <2> QED BY <2>2 DEF IInv, RttInv, EchoInv
<1> QED BY <1>1, IInvHolds, PTL

(* Received packets, duplicates and RTTs of the report are those of echoes *)
(* that came, none counted twice and none reported faster than it was.     *)
THEOREM FiguresAreTrueHolds == Spec => []FiguresAreTrue
<1>1. IInv => FiguresAreTrue
    <2> SUFFICES ASSUME IInv PROVE FiguresAreTrue
        OBVIOUS
    <2>1. received + duplicates <= Cardinality(Delivered)
        BY AllFinite DEF IInv, CountInv, Types
    <2>2. CountsAgree
        BY <2>1 DEF IInv, CountInv, CountsAgree, Answered, Delivered
    <2>3. RttIsNoLess
        BY DEF IInv, RttInv, EchoInv, RttIsNoLess
    <2> QED BY <2>2, <2>3 DEF FiguresAreTrue
<1> QED BY <1>1, IInvHolds, PTL

(* The exchange, with all its waiting, counting and noise, implements the  *)
(* one-step contract that the composition is built on: a skip exactly when *)
(* there is no session or no srflx, and never a word in the context.       *)
THEOREM ImplementsContractHolds == Spec => ImplementsContract
<1>1. Init => Contract!Init
    <2> SUFFICES ASSUME Init PROVE Contract!Init
        OBVIOUS
    <2>1. ctx \in ProbeContext
        BY InitIInv DEF IInv, Types
    <2> QED
        BY <2>1 DEF Init, Contract!Init, Contract!ProbeContext, ProbeContext,
                    Contract!Sessions, Sessions, Contract!NoSession, NoSession
<1>2. IInv /\ [Next]_vars => [Contract!Run]_<<status, ctx>>
    <2> SUFFICES ASSUME IInv, [Next]_vars PROVE [Contract!Run]_<<status, ctx>>
        OBVIOUS
    <2>1. ASSUME NEW s, Answer(s, ctx) \in EchoOutcomes(ctx),
                 pc # "done", status' = s, ctx' = ctx
          PROVE  Contract!Run
        <3>1. status = "none"
            BY <2>1 DEF IInv, StageInv
        <3>2. Answer(s, ctx).status = status' /\ Answer(s, ctx).ctx = ctx'
            BY <2>1 DEF Answer
        <3> QED BY <2>1, <3>1, <3>2 DEF Contract!Run
    <2>2. HasPeer(ctx) => \A s \in {"pass", "warn", "fail"} : Answer(s, ctx) \in EchoOutcomes(ctx)
        BY DEF HasPeer, EchoOutcomes
    <2>3. CASE Skip
        <3>1. Answer("skip", ctx) \in EchoOutcomes(ctx)
            BY <2>3 DEF Skip, HasPeer, EchoOutcomes
        <3> QED BY <2>1, <2>3, <3>1 DEF Skip, Return
    <2>4. CASE SocketError \/ PermissionTimeout \/ Expire
        <3>1. HasPeer(ctx) /\ ctx' = ctx /\ pc # "done" /\ status' \in {"pass", "warn", "fail"}
            BY <2>4 DEF SocketError, PermissionTimeout, Expire, Return, Verdict, IInv, StageInv
        <3> QED BY <2>1, <2>2, <3>1
    <2>5. CASE RecvPermission \/ Collect
        <3>1. HasPeer(ctx) /\ ctx' = ctx /\ pc # "done"
            BY <2>5 DEF RecvPermission, Collect, IInv, StageInv
        <3>2. status' = status \/ status' \in {"pass", "warn", "fail"}
            BY <2>5 DEF RecvPermission, Collect, Return, Verdict
        <3> QED BY <2>1, <2>2, <3>1, <3>2
    <2>6. SendPermission \/ SendPacket \/ Tick \/ NetNext \/ UNCHANGED vars
              => UNCHANGED <<status, ctx>>
        BY DEF SendPermission, SendPacket, Tick, NetNext, AnswerPermission, Echo, Disturb, Arrive,
               vars, clientVars
    <2> QED BY <2>3, <2>4, <2>5, <2>6 DEF Next, Progress, Returned
<1> QED BY <1>1, <1>2, InitIInv, NextIInv, PTL DEF Spec, ImplementsContract, Contract!Spec

-----------------------------------------------------------------------------
(* Plans.  A prompt task does what is due before time passes, so that each *)
(* wait ends when it was meant to: `Begin` is when the permission was      *)
(* granted and read, and packet k goes out at Begin + (k - 1) * Interval.  *)

Begin == expires - Lifetime
Latest == 2 * RecvTimeout + (count - 1) * Interval

PlanInv ==
    prompt =>
        /\ pc = "start" => now = 0 /\ ~permitted
        /\ pc = "permission" =>
              /\ wake = RecvTimeout /\ now <= wake
              /\ \A k \in 1..Len(inbox) : inbox[k].kind = "permitted" => now = Begin
        /\ pc = "sending" => now <= wake /\ wake = Begin + Sent * Interval
        /\ pc = "sending" \/ Sent > 0 => Begin <= RecvTimeout
        /\ \A k \in 1..Sent : sendTimes[k] = Begin + (k - 1) * Interval
        /\ pc = "collecting" => now <= wake /\ wake = sendTimes[count] + RecvTimeout
        /\ now <= Latest

\* What arrived and was not dropped is counted or waits to be; once the last
\* packet is gone, a prompt task leaves nothing waiting while time passes.
Landed == ~overflow => \A seq \in Seqs : copies[seq] > 0 => arrivals[seq] # NoTime

Unread(seq) == arrivals[seq] # NoTime /\ rtts[seq] = NoTime

Queued ==
    \A seq \in Seqs : Unread(seq) => \E k \in 1..Len(inbox) : Ours(inbox[k]) /\ inbox[k].seq = seq

Fresh ==
    prompt /\ pc = "collecting" /\ now > sendTimes[count] =>
        \A seq \in Seqs : Unread(seq) => arrivals[seq] = now

LossInv == Landed /\ Queued /\ Fresh /\ NoFalseLoss

-----------------------------------------------------------------------------
(* Products *)

LEMMA Products ==
    /\ \A n \in Nat : n * Interval \in Nat /\ (n + 1) * Interval = n * Interval + Interval
    /\ \A m, n \in Nat : m <= n => m * Interval <= n * Interval
<1>1. Interval \in Nat
    BY Numbers
<1>2. \A n \in Nat : n * Interval \in Nat /\ (n + 1) * Interval = n * Interval + Interval
    BY <1>1, Z3
<1>3. \A m, n \in Nat : m <= n => m * Interval <= n * Interval
    BY <1>1, Z3
<1> QED BY <1>2, <1>3

\* Every wait of the plan ends by `Latest`.
LEMMA PlanEndsInTime ==
    ASSUME IInv
    PROVE  /\ Latest \in Nat /\ 2 * RecvTimeout <= Latest
           /\ Sent \in Nat /\ count \in Nat
           /\ Sent < count => RecvTimeout + Sent * Interval <= Latest
           /\ RecvTimeout + (count - 1) * Interval + RecvTimeout <= Latest
<1>1. count \in Nat /\ count - 1 \in Nat /\ Sent \in Nat
    BY SeqsAreCounted DEF IInv, Types, Sent
<1>2. PICK c \in Nat : c = (count - 1) * Interval
    BY <1>1, Products
<1>3. PICK s \in Nat : s = Sent * Interval
    BY <1>1, Products
<1>4. Sent < count => s <= c
    <2>1. Sent < count => Sent <= count - 1
        BY <1>1
    <2> QED BY <1>1, <1>2, <1>3, <2>1, Products
<1>5. Latest = 2 * RecvTimeout + c
    BY <1>2 DEF Latest
<1> QED BY <1>1, <1>2, <1>3, <1>4, <1>5, Numbers

-----------------------------------------------------------------------------
(* The plan is kept *)

LEMMA InitPlan == Init => PlanInv
<1> SUFFICES ASSUME Init PROVE PlanInv
    OBVIOUS
<1>1. IInv
    BY InitIInv
<1>2. sendTimes = <<>> /\ Sent = 0 /\ now = 0 /\ pc = "start" /\ ~permitted
    BY DEF Init, Sent
<1>3. now <= Latest
    BY <1>1, <1>2, PlanEndsInTime
<1> QED BY <1>2, <1>3 DEF PlanInv

LEMMA CheckKeepsPlan ==
    ASSUME IInv, IInv', PlanInv,
           Skip \/ SocketError \/ SendPermission \/ PermissionTimeout \/ Collect \/ Expire
    PROVE  PlanInv'
<1>1. UNCHANGED <<prompt, now, sendTimes, count, expires, permitted, Sent, Begin, Latest>>
    BY DEF Skip, SocketError, SendPermission, PermissionTimeout, Collect, Expire, netVars,
           Sent, Begin, Latest
<1>2. CASE pc' = "done"
    BY <1>1, <1>2 DEF PlanInv
<1>3. CASE SendPermission
    <2>1. pc = "start" /\ pc' = "permission" /\ wake' = now + RecvTimeout /\ inbox' = inbox
        BY <1>3 DEF SendPermission
    <2>2. ~permitted => \A k \in 1..Len(inbox) : inbox[k].kind # "permitted"
        BY DEF IInv, BufferInv
    <2>3. sendTimes = <<>>
        BY <2>1 DEF IInv, StageInv
    <2>4. Sent = 0
        BY <2>3 DEF Sent
    <2> QED BY <1>1, <2>1, <2>2, <2>4, Numbers DEF PlanInv
<1>4. CASE Collect /\ pc' # "done"
    <2>1. pc = "collecting" /\ pc' = pc /\ wake' = wake
        BY <1>4 DEF Collect, Return
    <2> QED BY <1>1, <2>1 DEF PlanInv
<1> QED BY <1>2, <1>3, <1>4 DEF Skip, SocketError, PermissionTimeout, Expire, Return

LEMMA RecvPermissionKeepsPlan ==
    ASSUME IInv, IInv', PlanInv, RecvPermission
    PROVE  PlanInv'
<1>1. /\ UNCHANGED <<prompt, now, sendTimes, count, expires, permitted>>
      /\ pc = "permission" /\ inbox # <<>> /\ sendTimes = <<>>
    BY DEF RecvPermission, netVars, IInv, StageInv
<1>2. /\ Sent = 0 /\ Sent' = 0 /\ Begin' = Begin /\ Latest' = Latest
      /\ now \in Int /\ expires \in Int /\ Lifetime \in Int
    BY <1>1, Numbers DEF Sent, Begin, Latest, IInv, Types
<1>3. CASE ~Grants(Head(inbox))
    BY <1>1, <1>2, <1>3 DEF RecvPermission, Return, PlanInv
<1>4. CASE Grants(Head(inbox))
    <2>1. pc' = "sending" /\ wake' = now
        BY <1>4 DEF RecvPermission
    <2>2. prompt => now = Begin /\ now <= RecvTimeout /\ now <= Latest
        <3>1. 1 \in 1..Len(inbox) /\ Head(inbox) = inbox[1]
            BY <1>1, TailMeans DEF IInv, Types
        <3> QED BY <1>1, <1>4, <3>1 DEF Grants, PlanInv
    <2>3. Begin + 0 * Interval = Begin
        BY <1>2, Numbers DEF Begin
    <2>4. 1..Sent' = {}
        BY <1>2
    <2> QED BY <1>1, <1>2, <2>1, <2>2, <2>3, <2>4 DEF PlanInv
<1> QED BY <1>3, <1>4

LEMMA SendPacketKeepsPlan ==
    ASSUME IInv, IInv', PlanInv, SendPacket
    PROVE  PlanInv'
<1>1. /\ UNCHANGED <<prompt, now, count, expires, permitted>>
      /\ pc = "sending" /\ now >= wake
      /\ sendTimes' = Append(sendTimes, now)
    BY DEF SendPacket, netVars
<1>2. /\ Begin' = Begin /\ Latest' = Latest /\ Begin \in Int
      /\ now \in Nat /\ wake \in Nat /\ Sent \in Nat /\ count \in Nat /\ sendTimes \in Seq(Nat)
    BY <1>1, Numbers, SeqsAreCounted DEF Begin, Latest, IInv, Types, Sent
<1>3. /\ Sent' = Sent + 1
      /\ \A k \in 1..Sent : sendTimes'[k] = sendTimes[k]
      /\ sendTimes'[Sent + 1] = now
    BY <1>1, <1>2 DEF Sent
<1>4. \/ Sent + 1 < count /\ wake' = now + Interval /\ pc' = pc
      \/ Sent + 1 = count /\ wake' = now + RecvTimeout /\ pc' = "collecting"
    BY <1>1, <1>2 DEF SendPacket, IInv, StageInv
<1> SUFFICES ASSUME prompt PROVE PlanInv'
    BY <1>1 DEF PlanInv
<1>5. now = wake /\ wake = Begin + Sent * Interval /\ Begin <= RecvTimeout /\ now <= Latest
    BY <1>1, <1>2 DEF PlanInv
<1>6. \A k \in 1..Sent' : sendTimes'[k] = Begin + (k - 1) * Interval
    <2> TAKE k \in 1..Sent'
    <2>1. CASE k \in 1..Sent
        BY <1>3, <2>1 DEF PlanInv
    <2>2. CASE k = Sent + 1
        <3>1. k - 1 = Sent
            BY <1>2, <2>2
        <3> QED BY <1>3, <1>5, <2>2, <3>1
    <2> QED BY <1>2, <1>3, <2>1, <2>2
<1>7. pc' = "sending" => now <= wake' /\ wake' = Begin + Sent' * Interval
    <2>1. PICK s \in Nat : s = Sent * Interval
        BY <1>2, Products
    <2>2. Sent' * Interval = s + Interval
        BY <1>2, <1>3, <2>1, Products
    <2> QED BY <1>2, <1>4, <1>5, <2>1, <2>2, Numbers
<1>8. pc' = "collecting" => now <= wake' /\ wake' = sendTimes'[count] + RecvTimeout
    <2> SUFFICES ASSUME pc' = "collecting"
                 PROVE  now <= wake' /\ wake' = sendTimes'[count] + RecvTimeout
        OBVIOUS
    <2>1. count = Sent + 1 /\ wake' = now + RecvTimeout
        BY <1>1, <1>4
    <2>2. sendTimes'[count] = now
        BY <1>3, <2>1
    <2> QED BY <1>2, <2>1, <2>2, Numbers
<1>9. pc' \notin {"start", "permission"}
    BY <1>1, <1>4
<1> QED BY <1>1, <1>2, <1>5, <1>6, <1>7, <1>8, <1>9 DEF PlanInv

LEMMA TickKeepsPlan ==
    ASSUME IInv, IInv', PlanInv, Tick
    PROVE  PlanInv'
<1>1. /\ UNCHANGED <<prompt, pc, sendTimes, count, expires, permitted, wake, inbox>>
      /\ now' = now + 1 /\ pc # "done" /\ ~(prompt /\ Due)
    BY DEF Tick, clientVars, netVars
<1>2. /\ Sent' = Sent /\ Begin' = Begin /\ Latest' = Latest
      /\ Begin \in Int /\ now \in Nat /\ wake \in Nat
    BY <1>1, Numbers DEF Sent, Begin, Latest, IInv, Types
<1> SUFFICES ASSUME prompt PROVE PlanInv'
    BY <1>1 DEF PlanInv
<1>3. /\ pc \in {"permission", "sending", "collecting"} /\ now < wake
      /\ pc = "permission" => inbox = <<>>
    BY <1>1, <1>2 DEF Due, IInv, Types
<1>4. wake <= Latest
    <2>1. CASE pc = "permission"
        BY <2>1, PlanEndsInTime, Numbers DEF PlanInv
    <2>2. CASE pc = "sending"
        <3>1. PICK s \in Nat : s = Sent * Interval
            BY PlanEndsInTime, Products
        <3>2. RecvTimeout + s <= Latest
            BY <2>2, <3>1, PlanEndsInTime DEF IInv, StageInv
        <3>3. wake = Begin + s /\ Begin <= RecvTimeout
            BY <2>2, <3>1 DEF PlanInv
        <3> QED BY <1>2, <3>2, <3>3, PlanEndsInTime, Numbers
    <2>3. CASE pc = "collecting"
        <3>1. count - 1 \in Nat /\ count \in 1..Sent /\ Sent > 0
            BY <2>3, SeqsAreCounted DEF IInv, StageInv
        <3>2. PICK c \in Nat : c = (count - 1) * Interval
            BY <3>1, Products
        <3>3. RecvTimeout + c + RecvTimeout <= Latest
            BY <3>2, PlanEndsInTime
        <3>4. sendTimes[count] = Begin + c /\ Begin <= RecvTimeout /\ wake = sendTimes[count] + RecvTimeout
            BY <2>3, <3>1, <3>2 DEF PlanInv
        <3> QED BY <1>2, <3>3, <3>4, PlanEndsInTime, Numbers
    <2> QED BY <1>3, <2>1, <2>2, <2>3
<1>5. now' <= wake /\ now' <= Latest
    BY <1>1, <1>2, <1>3, <1>4, PlanEndsInTime
<1> QED BY <1>1, <1>2, <1>3, <1>5 DEF PlanInv

LEMMA NetKeepsPlan ==
    ASSUME IInv, IInv', PlanInv, NetNext
    PROVE  PlanInv'
<1>1. /\ UNCHANGED <<prompt, now, pc, sendTimes, count, wake>> /\ pc # "done"
      /\ Sent' = Sent /\ Latest' = Latest
    BY DEF NetNext, AnswerPermission, Echo, Disturb, Arrive, clientVars, Sent, Latest
<1>2. CASE \E kind \in {"permitted", "rejected"} : AnswerPermission(kind)
    <2>1. pc = "permission" /\ expires' = now + Lifetime
        BY <1>2 DEF AnswerPermission
    <2>2. sendTimes = <<>>
        BY <2>1 DEF IInv, StageInv
    <2>3. Begin' = now /\ Sent = 0 /\ 1..Sent = {}
        <3>1. now \in Int /\ Lifetime \in Int
            BY Numbers DEF IInv, Types
        <3>2. Begin' = expires' - Lifetime
            BY DEF Begin
        <3> QED BY <2>1, <2>2, <3>1, <3>2 DEF Sent
    <2> QED BY <1>1, <2>1, <2>3 DEF PlanInv
<1>3. ASSUME NEW d \in Datagram, d.kind # "permitted", Arrive(d), UNCHANGED <<expires, permitted>>
      PROVE  PlanInv'
    <2>1. Begin' = Begin
        BY <1>3 DEF Begin
    <2>2. \A k \in 1..Len(inbox') : (k \in 1..Len(inbox) /\ inbox'[k] = inbox[k]) \/ inbox'[k] = d
        <3>1. inbox \in Seq(Datagram) /\ Len(inbox) <= Room /\ Len(inbox) \in Nat
            BY DEF IInv, Types
        <3>2. /\ \A k \in 1..Len(inbox) : inbox'[k] = inbox[k]
              /\ \/ Len(inbox') = Len(inbox) + 1 /\ inbox'[Len(inbox')] = d
                 \/ inbox' = inbox
            BY <1>3, <3>1, ArriveMeans
        <3> QED BY <3>1, <3>2
    <2>3. (\A k \in 1..Len(inbox) : inbox[k].kind = "permitted" => now = Begin)
             => \A k \in 1..Len(inbox') : inbox'[k].kind = "permitted" => now = Begin
        BY <1>3, <2>2
    <2> QED BY <1>1, <1>3, <2>1, <2>3 DEF PlanInv
<1>4. CASE \E seq \in Seqs : Echo(seq)
    <2>1. PICK seq \in Seqs : Echo(seq)
        BY <1>4
    <2>2. seq \in 0..MaxCount
        <3>1. count \in Nat /\ count <= MaxCount
            BY Numbers DEF IInv, Types
        <3> QED BY <3>1, SeqsAreCounted, Numbers DEF IInv
    <2>3. /\ Packet("server", "data", seq) \in Datagram
          /\ Packet("server", "data", seq).kind # "permitted"
        BY <2>2, PacketIsDatagram DEF Packet
    <2> QED BY <1>3, <2>1, <2>3 DEF Echo
<1>5. CASE \E d \in Noises : Disturb(d)
    <2>1. PICK d \in Noises : Disturb(d)
        BY <1>5
    <2>2. 0 \in 0..MaxCount /\ MaxCount \in 0..MaxCount
        BY Numbers
    <2>3. d \in Datagram /\ d.kind # "permitted"
        BY <2>2, PacketIsDatagram DEF Noises, Leftover, Packet
    <2> QED BY <1>3, <2>1, <2>3 DEF Disturb
<1> QED BY <1>2, <1>4, <1>5 DEF NetNext

LEMMA NextPlan == IInv /\ IInv' /\ PlanInv /\ [Next]_vars => PlanInv'
<1> SUFFICES ASSUME IInv, IInv', PlanInv, [Next]_vars PROVE PlanInv'
    OBVIOUS
<1>1. CASE UNCHANGED vars
    BY <1>1 DEF vars, clientVars, netVars, PlanInv, Begin, Latest, Sent
<1> QED
    BY <1>1, CheckKeepsPlan, RecvPermissionKeepsPlan, SendPacketKeepsPlan, TickKeepsPlan, NetKeepsPlan
       DEF Next, Progress, Returned

LEMMA PlanHolds == Spec => []PlanInv
BY InitPlan, NextPlan, IInvHolds, PTL DEF Spec

-----------------------------------------------------------------------------
(* Theorems about the plan *)

(* A prompt check answers within two timeouts and the pauses between its   *)
(* packets, whatever else reaches its socket (turn_echo.rs, step 3).       *)
THEOREM TimelyVerdictHolds == Spec => []TimelyVerdict
<1>1. PlanInv => TimelyVerdict
    BY DEF PlanInv, TimelyVerdict, Latest
<1> QED BY <1>1, PlanHolds, PTL

(* No packet is sent before the server has installed the permission, and   *)
(* in a prompt check those whose pauses fit into its lifetime go out under *)
(* it; the code never renews it.                                           *)
THEOREM PermissionStandsHolds == Spec => []PermissionStands
<1>1. IInv /\ PlanInv => PermissionStands
    <2> SUFFICES ASSUME IInv, PlanInv, prompt, NEW k \in 1..Sent, (k - 1) * Interval < Lifetime
                 PROVE  sendTimes[k] < expires
        BY DEF PermissionStands, IInv, StageInv
    <2>1. k - 1 \in Nat
        OBVIOUS
    <2>2. PICK n \in Nat : n = (k - 1) * Interval
        BY <2>1, Products
    <2>3. sendTimes[k] = Begin + n
        BY <2>2 DEF PlanInv
    <2>4. expires \in Int /\ Lifetime \in Int /\ n < Lifetime
        BY <2>2, Numbers DEF IInv, Types
    <2> QED BY <2>3, <2>4 DEF Begin
<1> QED BY <1>1, IInvHolds, PlanHolds, PTL

-----------------------------------------------------------------------------
(* Losses *)

LEMMA InitLoss == Init => LossInv
<1> SUFFICES ASSUME Init PROVE LossInv
    OBVIOUS
<1>1. \A seq \in Seqs : copies[seq] = 0 /\ arrivals[seq] = NoTime
    BY DEF Init
<1>2. pc = "start" /\ status = "none"
    BY DEF Init
<1> QED BY <1>1, <1>2 DEF LossInv, Landed, Queued, Unread, Fresh, NoFalseLoss

\* A verdict of loss at the deadline is true: whatever has no RTT by then did
\* not come, met a full buffer, or came too late to be read.
LEMMA LateIsLost ==
    ASSUME IInv, PlanInv, LossInv, prompt, pc = "collecting", now >= wake,
           NEW seq \in Seqs, rtts[seq] = NoTime
    PROVE  NotThereInTime(seq)
<1>1. /\ count \in 1..Sent /\ count - 1 + 1 = count
      /\ now \in Nat /\ sendTimes[count] \in Nat /\ copies[seq] \in Nat
    <2>1. count \in Nat /\ count >= 1 /\ Sent = count
        BY SeqsAreCounted DEF IInv, StageInv
    <2>2. count \in 1..Len(sendTimes) /\ sendTimes \in Seq(Nat)
        BY <2>1 DEF IInv, Types, Sent
    <2>3. copies \in [Seqs -> 0..MaxCopies]
        BY DEF IInv, Types
    <2> QED BY <2>1, <2>2, <2>3, Numbers DEF IInv, Types
<1>2. wake = sendTimes[count] + RecvTimeout
    BY DEF PlanInv
<1>3. now > sendTimes[count]
    BY <1>1, <1>2, Numbers
<1>4. CASE copies[seq] > 0 /\ arrivals[seq] # NoTime
    <2>1. arrivals[seq] = now
        BY <1>3, <1>4 DEF LossInv, Fresh, Unread
    <2> QED BY <1>1, <1>2, <2>1 DEF SendTime, NotThereInTime
<1>5. CASE copies[seq] > 0 /\ arrivals[seq] = NoTime
    BY <1>5 DEF LossInv, Landed, NotThereInTime
<1> QED BY <1>1, <1>4, <1>5 DEF NotThereInTime

\* Steps of the check that read nothing.
LEMMA WaitKeepsLoss ==
    ASSUME IInv, PlanInv, LossInv,
           Skip \/ SocketError \/ SendPermission \/ PermissionTimeout \/ Expire
    PROVE  LossInv'
<1>1. /\ UNCHANGED <<prompt, overflow, copies, arrivals, rtts, inbox, count, now, sendTimes>>
      /\ pc' # "collecting" /\ pc # "done"
    BY DEF Skip, SocketError, SendPermission, PermissionTimeout, Expire, Return, netVars
<1>2. Landed' /\ Queued' /\ Fresh'
    BY <1>1 DEF LossInv, Landed, Queued, Unread, Fresh, Seqs, Ours
<1>3. NoFalseLoss'
    <2> SUFFICES ASSUME status' = "warn", prompt
                 PROVE  /\ \E seq \in Seqs : rtts[seq] = NoTime
                        /\ \A seq \in Seqs : rtts[seq] = NoTime => NotThereInTime(seq)
        BY <1>1 DEF NoFalseLoss, NotThereInTime, Seqs, SendTime
    <2>1. Expire
        BY <1>1 DEF Skip, SocketError, SendPermission, PermissionTimeout, Return, IInv, StageInv
    <2>2. pc = "collecting" /\ now >= wake /\ received # count
        BY <2>1 DEF Expire, Return, Verdict
    <2>3. \E seq \in Seqs : rtts[seq] = NoTime
        <3>1. Answered # Seqs
            BY <2>2, SeqsAreCounted DEF IInv, CountInv
        <3> QED BY <3>1 DEF Answered
    <2> QED BY <2>2, <2>3, LateIsLost
<1> QED BY <1>2, <1>3 DEF LossInv

\* Before the first packet there is nothing to lose.
LEMMA RecvPermissionKeepsLoss ==
    ASSUME IInv, LossInv, RecvPermission
    PROVE  LossInv'
<1>1. /\ UNCHANGED <<prompt, overflow, copies, arrivals, rtts, count, now, sendTimes>>
      /\ pc = "permission" /\ pc' # "collecting" /\ status' # "warn"
    BY DEF RecvPermission, Return, netVars, IInv, StageInv
<1>2. \A seq \in Seqs : arrivals[seq] = NoTime
    <2>1. sendTimes = <<>>
        BY <1>1 DEF IInv, StageInv
    <2>2. Sent = 0
        BY <2>1 DEF Sent
    <2> QED BY <2>2, SeqsAreCounted DEF IInv, EchoInv
<1> QED BY <1>1, <1>2 DEF LossInv, Landed, Queued, Unread, Fresh, NoFalseLoss, Seqs

LEMMA SendPacketKeepsLoss ==
    ASSUME IInv, LossInv, SendPacket
    PROVE  LossInv'
<1>1. /\ UNCHANGED <<prompt, overflow, copies, arrivals, rtts, inbox, count, now, status>>
      /\ pc = "sending" /\ sendTimes' = Append(sendTimes, now)
    BY DEF SendPacket, netVars
<1>2. Landed' /\ Queued'
    BY <1>1 DEF LossInv, Landed, Queued, Unread, Seqs, Ours
<1>3. pc' = "collecting" => ~(now > sendTimes'[count])
    <2>1. /\ Sent \in Nat /\ count \in Nat /\ now \in Nat /\ sendTimes \in Seq(Nat)
        BY SeqsAreCounted, Numbers DEF IInv, Types, Sent
    <2>2. pc' = "collecting" => Sent + 1 = count
        BY <1>1, <2>1 DEF SendPacket, IInv, StageInv
    <2>3. sendTimes'[Sent + 1] = now
        BY <1>1, <2>1 DEF Sent
    <2> QED BY <2>1, <2>2, <2>3
<1>4. Fresh'
    BY <1>1, <1>3 DEF Fresh
<1>5. NoFalseLoss'
    BY <1>1 DEF NoFalseLoss, IInv, StageInv
<1> QED BY <1>2, <1>4, <1>5 DEF LossInv

LEMMA CollectKeepsLoss ==
    ASSUME IInv, PlanInv, LossInv, Collect
    PROVE  LossInv'
<1> DEFINE d == Head(inbox)
<1>1. /\ UNCHANGED <<prompt, overflow, copies, arrivals, count, now, sendTimes>>
      /\ pc = "collecting" /\ inbox # <<>> /\ inbox' = Tail(inbox) /\ Tally(d)
    BY DEF Collect, netVars
<1>2. /\ Len(inbox') = Len(inbox) - 1 /\ Len(inbox) \in Nat \ {0}
      /\ d = inbox[1] /\ d \in Datagram
      /\ \A k \in 1..Len(inbox') : inbox'[k] = inbox[k + 1]
    BY <1>1, TailMeans DEF IInv, Types
<1>3. Ours(d) => arrivals[d.seq] # NoTime
    BY <1>2 DEF IInv, BufferInv
<1> HIDE DEF d
<1>4. /\ \A seq \in Seqs : rtts[seq] # NoTime => rtts'[seq] = rtts[seq]
      /\ received' = Cardinality(Answered')
      /\ Ours(d) => rtts'[d.seq] # NoTime
    BY <1>1, <1>2, <1>3, TallyMeans
<1>5. \A seq \in Seqs : Unread(seq)' => Unread(seq) /\ ~(Ours(d) /\ d.seq = seq)
    BY <1>1, <1>4 DEF Unread
<1>6. Landed'
    BY <1>1 DEF LossInv, Landed, Seqs
<1>7. Queued'
    <2>1. ASSUME NEW seq \in Seqs, Unread(seq)'
          PROVE  \E k \in 1..Len(inbox') : Ours(inbox'[k]) /\ inbox'[k].seq = seq
        <3>1. PICK k \in 1..Len(inbox) : Ours(inbox[k]) /\ inbox[k].seq = seq
            BY <1>5, <2>1 DEF LossInv, Queued
        <3>2. k # 1
            BY <1>2, <1>5, <2>1, <3>1
        <3>3. k - 1 \in 1..Len(inbox') /\ k - 1 + 1 = k
            BY <1>2, <3>1, <3>2
        <3>4. inbox'[k - 1] = inbox[k]
            BY <1>2, <3>3
        <3> QED BY <3>1, <3>3, <3>4
    <2> QED BY <1>1, <2>1 DEF Queued, Seqs, Ours
<1>8. Fresh'
    BY <1>1, <1>5 DEF LossInv, Fresh, Seqs
<1>9. NoFalseLoss'
    <2> SUFFICES ASSUME status' = "warn", prompt
                 PROVE  /\ \E seq \in Seqs : rtts'[seq] = NoTime
                        /\ \A seq \in Seqs : rtts'[seq] = NoTime => NotThereInTime(seq)
        BY <1>1 DEF NoFalseLoss, NotThereInTime, Seqs, SendTime
    <2>1. now >= wake /\ received' # count
        BY <1>1 DEF Collect, Return, Verdict, IInv, StageInv
    <2>2. \E seq \in Seqs : rtts'[seq] = NoTime
        <3>1. Answered' # Seqs
            BY <1>4, <2>1, SeqsAreCounted DEF IInv
        <3> QED BY <1>1, <3>1 DEF Answered, Seqs
    <2>3. \A seq \in Seqs : rtts'[seq] = NoTime => rtts[seq] = NoTime
        BY <1>4
    <2> QED BY <1>1, <2>1, <2>2, <2>3, LateIsLost
<1> QED BY <1>6, <1>7, <1>8, <1>9 DEF LossInv

\* Time passes over a prompt task only when its buffer is empty.
LEMMA TickKeepsLoss ==
    ASSUME IInv, LossInv, Tick
    PROVE  LossInv'
<1>1. /\ UNCHANGED <<prompt, pc, overflow, copies, arrivals, rtts, inbox, count, sendTimes, status>>
      /\ pc # "done" /\ ~(prompt /\ Due)
    BY DEF Tick, clientVars, netVars
<1>2. Landed' /\ Queued'
    BY <1>1 DEF LossInv, Landed, Queued, Unread, Seqs, Ours
<1>3. Fresh'
    <2>1. prompt /\ pc = "collecting" => \A seq \in Seqs : ~Unread(seq)
        <3> SUFFICES ASSUME prompt, pc = "collecting", NEW seq \in Seqs PROVE ~Unread(seq)
            OBVIOUS
        <3>1. inbox = <<>>
            BY <1>1 DEF Due
        <3> QED BY <3>1 DEF LossInv, Queued
    <2> QED BY <1>1, <2>1 DEF Fresh, Unread, Seqs
<1>4. NoFalseLoss'
    BY <1>1 DEF NoFalseLoss, IInv, StageInv
<1> QED BY <1>2, <1>3, <1>4 DEF LossInv

LEMMA StrangerKeepsLoss ==
    ASSUME IInv, LossInv, pc # "done", NEW d \in Datagram, Arrive(d), UNCHANGED <<copies, arrivals>>
    PROVE  LossInv'
<1>1. /\ UNCHANGED <<prompt, now, pc, count, sendTimes, rtts, status>>
      /\ overflow' = (overflow \/ ~HasRoom)
    BY DEF Arrive, clientVars
<1>2. \A k \in 1..Len(inbox) : k \in 1..Len(inbox') /\ inbox'[k] = inbox[k]
    BY ArriveMeans DEF IInv, Types
<1>3. Landed' /\ Fresh' /\ NoFalseLoss'
    BY <1>1 DEF LossInv, Landed, Fresh, Unread, NoFalseLoss, Seqs, IInv, StageInv
<1>4. Queued'
    BY <1>1, <1>2 DEF LossInv, Queued, Unread, Seqs, Ours
<1> QED BY <1>3, <1>4 DEF LossInv

\* A delivered echo waits to be read, or the buffer was full.
LEMMA EchoKeepsLoss ==
    ASSUME IInv, LossInv, pc # "done", NEW seq \in Seqs, Echo(seq)
    PROVE  LossInv'
<1> DEFINE d == Packet("server", "data", seq)
<1>1. /\ UNCHANGED <<prompt, now, pc, count, sendTimes, rtts, status>>
      /\ overflow' = (overflow \/ ~HasRoom)
      /\ arrivals' = [arrivals EXCEPT ![seq] =
                        IF arrivals[seq] = NoTime /\ HasRoom THEN now ELSE arrivals[seq]]
      /\ copies' = [copies EXCEPT ![seq] = copies[seq] + 1]
      /\ Arrive(d)
    BY DEF Echo, Arrive, clientVars
<1>2. d \in Datagram /\ Ours(d) /\ d.seq = seq
    <2>1. seq \in 0..MaxCount
        BY SeqsAreCounted, Numbers DEF IInv, Types
    <2> QED BY <2>1, PacketIsDatagram DEF Packet, Ours
<1>3. /\ Len(inbox) \in Nat
      /\ \A k \in 1..Len(inbox) : k \in 1..Len(inbox') /\ inbox'[k] = inbox[k]
      /\ HasRoom => Len(inbox') = Len(inbox) + 1 /\ inbox'[Len(inbox')] = d
    BY <1>1, <1>2, ArriveMeans DEF IInv, Types
<1>4. /\ now \in Nat /\ arrivals \in [Seqs -> Int] /\ copies \in [Seqs -> 0..MaxCopies]
    BY DEF IInv, Types
<1>5. /\ \A t \in Seqs : t # seq => copies'[t] = copies[t] /\ arrivals'[t] = arrivals[t]
      /\ (arrivals'[seq] = arrivals[seq]) \/ (HasRoom /\ arrivals'[seq] = now)
      /\ HasRoom => arrivals'[seq] # NoTime
    BY <1>1, <1>4 DEF NoTime
<1>6. Landed'
    <2>1. ~overflow' => \A t \in Seqs : copies'[t] > 0 => arrivals'[t] # NoTime
        BY <1>1, <1>5 DEF LossInv, Landed
    <2> QED BY <1>1, <2>1 DEF Landed, Seqs
<1>7. Queued'
    <2>1. ASSUME NEW t \in Seqs, Unread(t)'
          PROVE  \E k \in 1..Len(inbox') : Ours(inbox'[k]) /\ inbox'[k].seq = t
        <3>1. CASE Unread(t)
            BY <1>3, <3>1 DEF LossInv, Queued
        <3>2. CASE ~Unread(t)
            <4>1. HasRoom /\ t = seq
                BY <1>1, <1>5, <2>1, <3>2 DEF Unread
            <4>2. Len(inbox') \in 1..Len(inbox') /\ inbox'[Len(inbox')] = d
                BY <1>3, <4>1
            <4> QED BY <1>2, <4>1, <4>2
        <3> QED BY <3>1, <3>2
    <2> QED BY <1>1, <2>1 DEF Queued, Seqs, Ours
<1>8. Fresh'
    <2>1. prompt /\ pc = "collecting" /\ now > sendTimes[count] =>
             \A t \in Seqs : Unread(t)' => arrivals'[t] = now
        BY <1>1, <1>5 DEF LossInv, Fresh, Unread
    <2> QED BY <1>1, <2>1 DEF Fresh, Seqs
<1>9. NoFalseLoss'
    BY <1>1 DEF NoFalseLoss, IInv, StageInv
<1> QED BY <1>6, <1>7, <1>8, <1>9 DEF LossInv

LEMMA NetKeepsLoss ==
    ASSUME IInv, LossInv, NetNext
    PROVE  LossInv'
<1>1. pc # "done" /\ 0 \in 0..MaxCount /\ MaxCount \in 0..MaxCount
    BY Numbers DEF NetNext
<1>2. ASSUME NEW kind \in {"permitted", "rejected"}, AnswerPermission(kind)
      PROVE  LossInv'
    <2>1. Packet("server", kind, 0) \in Datagram
        BY <1>1, PacketIsDatagram
    <2> QED BY <1>1, <1>2, <2>1, StrangerKeepsLoss DEF AnswerPermission
<1>3. ASSUME NEW d \in Noises, Disturb(d)
      PROVE  LossInv'
    <2>1. d \in Datagram
        BY <1>1, PacketIsDatagram DEF Noises, Leftover
    <2> QED BY <1>1, <1>3, <2>1, StrangerKeepsLoss DEF Disturb
<1> QED BY <1>1, <1>2, <1>3, EchoKeepsLoss DEF NetNext

LEMMA NextLoss == IInv /\ PlanInv /\ LossInv /\ [Next]_vars => LossInv'
<1> SUFFICES ASSUME IInv, PlanInv, LossInv, [Next]_vars PROVE LossInv'
    OBVIOUS
<1>1. CASE UNCHANGED vars
    BY <1>1 DEF vars, clientVars, netVars, LossInv, Landed, Queued, Unread, Fresh, NoFalseLoss,
                NotThereInTime, Seqs, Ours, SendTime
<1> QED
    BY <1>1, WaitKeepsLoss, RecvPermissionKeepsLoss, SendPacketKeepsLoss, CollectKeepsLoss,
       TickKeepsLoss, NetKeepsLoss
       DEF Next, Progress, Returned

(* "Warn on partial loss (relay reachable but lossy)" (turn_echo.rs:33): a *)
(* prompt check warns because a packet is missing, and no packet it reports*)
(* as lost had an echo that found room at its socket within a full timeout *)
(* after the last packet went out.                                         *)
THEOREM NoFalseLossHolds == Spec => []NoFalseLoss
<1>1. LossInv => NoFalseLoss
    BY DEF LossInv
<1> QED BY <1>1, InitLoss, NextLoss, IInvHolds, PlanHolds, PTL DEF Spec
=============================================================================
