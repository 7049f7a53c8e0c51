------------------------------ MODULE TurnEcho ------------------------------
(***************************************************************************)
(* TurnEchoCheck::run, probe-core/src/checks/turn_echo.rs: permission for  *)
(* our own address, then `count` datagrams to the relay at a fixed         *)
(* interval, and only then the echoes are read, until all are there or the *)
(* deadline has passed.                                                    *)
(*                                                                         *)
(* Time is a counter of ticks.  The socket's receive buffer is a queue of  *)
(* bounded length that drops what does not fit.  The network and the relay *)
(* may lose, delay, repeat and reorder; other datagrams reach the socket   *)
(* as well, left over from the allocation or from elsewhere.               *)
(***************************************************************************)
EXTENDS Context, Integers, Sequences, FiniteSets, FiniteSetsExt

CONSTANTS MaxCount,     \* bound: largest echo_count
          Interval,     \* ECHO_INTERVAL in ticks
          RecvTimeout,  \* recv_timeout in ticks
          Lifetime,     \* of a permission at the server, in ticks
          BufferSize,   \* datagrams the socket buffers
          MaxCopies,    \* bound: times the network delivers one echo
          MaxNoise,     \* bound: other datagrams
          MaxTime       \* bound: the clock stops here

ASSUME EchoAssumption ==
    /\ {MaxCount, RecvTimeout, Lifetime} \subseteq Nat \ {0}
    /\ {Interval, BufferSize, MaxCopies, MaxNoise, MaxTime} \subseteq Nat

VARIABLES prompt,     \* the task runs as soon as it can, or at any later time
          now,        \* the clock
          pc,         \* where `run` waits
          ctx,        \* the ProbeContext
          count,      \* echo_count.max(1)
          inbox,      \* the socket's receive buffer
          sendTimes,  \* send_times of the packets sent so far
          wake,       \* when the current wait or sleep ends
          rtts,       \* rtts, NoTime for None
          received,
          duplicates,
          status,     \* "none" until `run` returns
          permitted,  \* the server has installed the permission
          expires,    \* when it lapses
          copies,     \* history: echoes of each packet the relay delivered
          arrivals,   \* history: when the first echo of a packet was buffered
          noise,      \* history: other datagrams so far
          overflow    \* history: a full buffer has dropped a datagram

clientVars == <<pc, ctx, count, sendTimes, wake, rtts, received, duplicates, status>>
netVars == <<prompt, permitted, expires, copies, arrivals, noise, overflow>>
vars == <<now, inbox, clientVars, netVars>>

NoTime == -1
Seqs == 0..(count - 1)
Sent == Len(sendTimes)
SendTime(seq) == sendTimes[seq + 1]

Datagram == [from : {"server", "elsewhere"},
             kind : {"permitted", "rejected", "data", "other"},
             seq  : 0..MaxCount]

\* A data indication with a payload that is not one of ours has the sequence
\* number MaxCount, which is out of range for every count.
Packet(from, kind, seq) == [from |-> from, kind |-> kind, seq |-> seq]

\* What the allocation check may leave on its way to the socket.
Leftover == Packet("server", "other", 0)

Noises == {Leftover, Packet("server", "data", MaxCount), Packet("elsewhere", "data", 0)}

\* Mutant: a request for no packets at all is taken as it is.
EchoCountRaw(n) == n

EchoCount(n) == Max({n, 1})

Init ==
    /\ prompt \in BOOLEAN
    /\ now = 0
    /\ pc = "start"
    /\ \E session \in {NoSession} \cup Sessions, srflx \in {NoAddr} \cup Addrs :
         ctx = [NewContext(TRUE, TRUE, TRUE, TRUE) EXCEPT
                   !.ips = TRUE, !.session = session, !.relayed = session.relayed,
                   !.srflx = srflx]
    /\ \E echoCount \in 0..MaxCount : count = EchoCount(echoCount)
    /\ inbox \in {<<>>, <<Leftover>>}
    /\ sendTimes = <<>>
    /\ wake = 0
    /\ rtts = [seq \in Seqs |-> NoTime]
    /\ received = 0
    /\ duplicates = 0
    /\ status = "none"
    /\ permitted = FALSE
    /\ expires = 0
    /\ copies = [seq \in Seqs |-> 0]
    /\ arrivals = [seq \in Seqs |-> NoTime]
    /\ noise = 0
    /\ overflow = FALSE

-----------------------------------------------------------------------------
(* The check *)

Return(s) ==
    /\ status' = s
    /\ pc' = "done"

\* Mutant: the address to ask permission for is not looked at.
HasSessionOnly(c) == c.session # NoSession

HasPeer(c) == c.session # NoSession /\ c.srflx # NoAddr

Skip ==
    /\ pc = "start"
    /\ ~HasPeer(ctx)
    /\ Return("skip")
    /\ UNCHANGED <<now, inbox, ctx, count, sendTimes, wake, rtts, received, duplicates, netVars>>

\* Any send_to or recv_from fails.
SocketError ==
    /\ pc # "done"
    /\ HasPeer(ctx)
    /\ Return("fail")
    /\ UNCHANGED <<now, inbox, ctx, count, sendTimes, wake, rtts, received, duplicates, netVars>>

SendPermission ==
    /\ pc = "start"
    /\ HasPeer(ctx)
    /\ pc' = "permission"
    /\ wake' = now + RecvTimeout
    /\ UNCHANGED <<now, inbox, ctx, count, sendTimes, rtts, received, duplicates, status, netVars>>

PermissionTimeout ==
    /\ pc = "permission"
    /\ now >= wake
    /\ Return("fail")
    /\ UNCHANGED <<now, inbox, ctx, count, sendTimes, wake, rtts, received, duplicates, netVars>>

\* parse_create_permission_response of whatever datagram comes first: all but
\* the success of this very request ends the check.
\* Mutant: only an error response does.
GrantsUnlessRejected(d) == d.kind # "rejected"

Grants(d) == d.kind = "permitted"

RecvPermission ==
    /\ pc = "permission"
    /\ inbox # <<>>
    /\ inbox' = Tail(inbox)
    /\ IF Grants(Head(inbox))
       THEN pc' = "sending" /\ wake' = now /\ UNCHANGED status
       ELSE Return("fail") /\ UNCHANGED wake
    /\ UNCHANGED <<now, ctx, count, sendTimes, rtts, received, duplicates, netVars>>

\* Nothing is read while the packets go out; the sleep follows every packet
\* but the last, whose sending starts the deadline of the collection.
\* Mutant: the deadline runs from the first packet.
SendPacketEarlyDeadline ==
    /\ pc = "sending"
    /\ now >= wake
    /\ sendTimes' = Append(sendTimes, now)
    /\ IF Sent + 1 < count
       THEN wake' = now + Interval /\ UNCHANGED pc
       ELSE wake' = sendTimes'[1] + RecvTimeout /\ pc' = "collecting"
    /\ UNCHANGED <<now, inbox, ctx, count, rtts, received, duplicates, status, netVars>>

\* Mutant: the pause between packets is as long as a timeout.
SendPacketSlowly ==
    /\ pc = "sending"
    /\ now >= wake
    /\ sendTimes' = Append(sendTimes, now)
    /\ IF Sent + 1 < count
       THEN wake' = now + RecvTimeout /\ UNCHANGED pc
       ELSE wake' = now + RecvTimeout /\ pc' = "collecting"
    /\ UNCHANGED <<now, inbox, ctx, count, rtts, received, duplicates, status, netVars>>

SendPacket ==
    /\ pc = "sending"
    /\ now >= wake
    /\ sendTimes' = Append(sendTimes, now)
    /\ IF Sent + 1 < count
       THEN wake' = now + Interval /\ UNCHANGED pc
       ELSE wake' = now + RecvTimeout /\ pc' = "collecting"
    /\ UNCHANGED <<now, inbox, ctx, count, rtts, received, duplicates, status, netVars>>

\* The verdict on the packets seen.
Verdict(n) == IF n = 0 THEN "fail" ELSE IF n = count THEN "pass" ELSE "warn"

\* parse_data_indication and parse_seq behind the filter on the source.
\* Mutant: the filter on the source is dropped.
OursFromAnyone(d) == d.kind = "data" /\ d.seq \in Seqs

Ours(d) == d.from = "server" /\ d.kind = "data" /\ d.seq \in Seqs

\* Mutant: a repeated echo counts again.
TallyRepeats(d) ==
    IF Ours(d)
    THEN /\ rtts' = [rtts EXCEPT ![d.seq] = now - SendTime(d.seq)]
         /\ received' = received + 1
         /\ UNCHANGED duplicates
    ELSE UNCHANGED <<rtts, received, duplicates>>

\* Mutant: the time is taken from the last packet sent.
TallyLastSend(d) ==
    IF ~Ours(d) THEN UNCHANGED <<rtts, received, duplicates>>
    ELSE IF rtts[d.seq] # NoTime
    THEN duplicates' = duplicates + 1 /\ UNCHANGED <<rtts, received>>
    ELSE /\ rtts' = [rtts EXCEPT ![d.seq] = now - SendTime(count - 1)]
         /\ received' = received + 1
         /\ UNCHANGED duplicates

Tally(d) ==
    IF ~Ours(d) THEN UNCHANGED <<rtts, received, duplicates>>
    ELSE IF rtts[d.seq] # NoTime
    THEN duplicates' = duplicates + 1 /\ UNCHANGED <<rtts, received>>
    ELSE /\ rtts' = [rtts EXCEPT ![d.seq] = now - SendTime(d.seq)]
         /\ received' = received + 1
         /\ UNCHANGED duplicates

\* The wait was begun before the deadline; the loop looks at the deadline
\* again only after it has dealt with the datagram.
\* Mutant: every datagram grants a new timeout.
CollectRearmed ==
    /\ pc = "collecting"
    /\ inbox # <<>>
    /\ inbox' = Tail(inbox)
    /\ Tally(Head(inbox))
    /\ wake' = now + RecvTimeout
    /\ IF received' = count THEN Return(Verdict(received')) ELSE UNCHANGED <<pc, status>>
    /\ UNCHANGED <<now, ctx, count, sendTimes, netVars>>

Collect ==
    /\ pc = "collecting"
    /\ inbox # <<>>
    /\ inbox' = Tail(inbox)
    /\ Tally(Head(inbox))
    /\ IF received' = count \/ now >= wake
       THEN Return(Verdict(received'))
       ELSE UNCHANGED <<pc, status>>
    /\ UNCHANGED <<now, ctx, count, sendTimes, wake, netVars>>

\* Mutant: the wait for the first echo has no end.
ExpireHeardSomething ==
    /\ pc = "collecting"
    /\ now >= wake
    /\ received > 0
    /\ Return(Verdict(received))
    /\ UNCHANGED <<now, inbox, ctx, count, sendTimes, wake, rtts, received, duplicates, netVars>>

Expire ==
    /\ pc = "collecting"
    /\ now >= wake
    /\ Return(Verdict(received))
    /\ UNCHANGED <<now, inbox, ctx, count, sendTimes, wake, rtts, received, duplicates, netVars>>

Progress ==
    \/ Skip \/ SendPermission \/ PermissionTimeout \/ RecvPermission
    \/ SendPacket \/ Collect \/ Expire

-----------------------------------------------------------------------------
(* The network, the server and the clock *)

\* A datagram reaches the socket; a full buffer drops it.
HasRoom == Len(inbox) < BufferSize

Arrive(d) ==
    /\ inbox' = IF HasRoom THEN Append(inbox, d) ELSE inbox
    /\ overflow' = (overflow \/ ~HasRoom)
    /\ UNCHANGED <<prompt, now, clientVars>>

AnswerPermission(kind) ==
    /\ pc = "permission"
    /\ ~permitted
    /\ permitted' = (kind = "permitted")
    /\ expires' = now + Lifetime
    /\ Arrive(Packet("server", kind, 0))
    /\ UNCHANGED <<copies, arrivals, noise>>

\* The relay has received packet `seq` while the permission stood, and its data
\* indication arrives.
Echo(seq) ==
    /\ permitted
    /\ seq < Sent /\ SendTime(seq) < expires
    /\ copies[seq] < MaxCopies
    /\ copies' = [copies EXCEPT ![seq] = @ + 1]
    /\ arrivals' = [arrivals EXCEPT ![seq] =
                      IF @ = NoTime /\ HasRoom THEN now ELSE @]
    /\ Arrive(Packet("server", "data", seq))
    /\ UNCHANGED <<permitted, expires, noise>>

Disturb(d) ==
    /\ noise < MaxNoise
    /\ noise' = noise + 1
    /\ Arrive(d)
    /\ UNCHANGED <<permitted, expires, copies, arrivals>>

\* Some step of the check can be taken now.
Due == \/ pc = "start"
       \/ pc \in {"permission", "collecting"} /\ (inbox # <<>> \/ now >= wake)
       \/ pc = "sending" /\ now >= wake

Tick ==
    /\ now < MaxTime
    /\ pc # "done"
    /\ ~(prompt /\ Due)
    /\ now' = now + 1
    /\ UNCHANGED <<inbox, clientVars, netVars>>

NetNext ==
    /\ pc # "done"
    /\ \/ \E kind \in {"permitted", "rejected"} : AnswerPermission(kind)
       \/ \E seq \in Seqs : Echo(seq)
       \/ \E d \in Noises : Disturb(d)

Returned == pc = "done" /\ UNCHANGED vars

Next == Progress \/ SocketError \/ NetNext \/ Tick \/ Returned

Spec == Init /\ [][Next]_vars

\* Time passes, and the runtime polls the task when a timer has fired.
FairSpec == Spec /\ WF_vars(Tick) /\ WF_vars(Progress)

-----------------------------------------------------------------------------
(* Properties *)

TypeOK ==
    /\ {prompt, permitted, overflow} \subseteq BOOLEAN
    /\ now \in 0..MaxTime
    /\ pc \in {"start", "permission", "sending", "collecting", "done"}
    /\ ctx \in ProbeContext
    /\ count \in 1..MaxCount
    /\ inbox \in Seq(Datagram) /\ Len(inbox) <= Max({BufferSize, 1})
    /\ sendTimes \in Seq(Nat) /\ Sent <= count
    /\ wake \in Nat
    /\ rtts \in [Seqs -> Int]
    /\ received \in 0..count
    /\ duplicates \in Nat
    /\ status \in {"none", "pass", "warn", "fail", "skip"}
    /\ expires \in Nat
    /\ copies \in [Seqs -> 0..MaxCopies]
    /\ arrivals \in [Seqs -> Int]
    /\ noise \in 0..MaxNoise

(* A Pass means that the relay relayed every packet: nothing that merely   *)
(* reached the socket, repeated, left over or from elsewhere, makes up for *)
(* a lost echo.                                                            *)
PassMeansAllEchoed ==
    status = "pass" => \A seq \in Seqs : copies[seq] > 0

\* The received packets are those with an RTT, and every duplicate is a
\* further copy of one of them.
CountsAgree ==
    LET answered == {seq \in Seqs : rtts[seq] # NoTime}
    IN /\ received = Cardinality(answered)
       /\ received + duplicates <= Cardinality({sc \in Seqs \X (1..MaxCopies) : sc[2] <= copies[sc[1]]})

\* An RTT never understates the round trip: it counts from this packet's
\* own sending to no earlier than its first echo.
RttIsNoLess ==
    \A seq \in Seqs : rtts[seq] # NoTime =>
        /\ arrivals[seq] # NoTime
        /\ rtts[seq] >= arrivals[seq] - SendTime(seq)
        /\ arrivals[seq] >= SendTime(seq)

(* The figures of the report (sent, received, duplicates, RTT) agree with  *)
(* each other and with what came (turn_echo.rs, Tally).                    *)
FiguresAreTrue == CountsAgree /\ RttIsNoLess

\* The check as the runner sees it: one answer, out of EchoOutcomes.
Contract == INSTANCE AtomicCheck WITH Outcomes <- EchoOutcomes

(* The exchange implements the contract the composition uses.              *)
ImplementsContract == Contract!Spec

(* "Stragglers get the full recv_timeout after the last send", and no      *)
(* more: other traffic cannot keep the check alive, and a prompt task is   *)
(* done after both timeouts and the pauses between packets.                *)
TimelyVerdict == prompt => now <= 2 * RecvTimeout + (count - 1) * Interval

\* No echo reached the socket by the deadline: none was delivered, or the
\* socket's own buffer was full, or it came too late.
NotThereInTime(seq) ==
    \/ copies[seq] = 0
    \/ arrivals[seq] = NoTime /\ overflow
    \/ arrivals[seq] >= SendTime(count - 1) + RecvTimeout

(* "Warn on partial loss (relay reachable but lossy)" (turn_echo.rs:33): a *)
(* prompt task warns because a packet is missing, and each one it reports  *)
(* as lost was not at its socket a full timeout after the last packet went *)
(* out.  What a full buffer drops is counted as loss, and no more: an echo *)
(* that found room is counted, however many did not.                       *)
NoFalseLoss ==
    status = "warn" /\ prompt =>
        /\ \E seq \in Seqs : rtts[seq] = NoTime
        /\ \A seq \in Seqs : rtts[seq] = NoTime => NotThereInTime(seq)

(* The check of a prompt task answers: no wait outlives its timeout.       *)
Terminates == prompt => <>(pc = "done")

(* "Measures the round-trip time" (docs/PROTOCOLS.md:133).  The code takes *)
(* the time at which it reads an echo, and reads none before the last of   *)
(* several packets has been sent: also with a task that is scheduled       *)
(* promptly, an early packet's figure contains the pauses after it.        *)
RttIsRoundTrip ==
    prompt /\ count >= 2 =>
        \A seq \in Seqs : rtts[seq] # NoTime => rtts[seq] = arrivals[seq] - SendTime(seq)

(* "Our srflx, which we just permitted in step 1, so the permission check  *)
(* passes" (turn_echo.rs:11): no packet goes out before the server has     *)
(* installed the permission, and those of a prompt task go out under it as *)
(* long as their pauses fit into its lifetime.  It is never renewed, and a *)
(* longer run outlives it.                                                 *)
PermissionStands ==
    /\ Sent > 0 => permitted
    /\ prompt => \A i \in 1..Sent : (i - 1) * Interval < Lifetime => sendTimes[i] < expires
=============================================================================
