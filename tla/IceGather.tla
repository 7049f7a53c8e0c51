------------------------------- MODULE IceGather -------------------------------
(***************************************************************************)
(* IceGatherCheck::run, probe-core/src/checks/ice_gather.rs: one host      *)
(* candidate for each useful address of the machine, then what the checks  *)
(* before left in the context.  An address is its octets, 4 or 16 of them. *)
(* The operating system enumerates the interfaces.                         *)
(***************************************************************************)
EXTENDS Context, Integers, Sequences, FiniteSets

CONSTANT Enumerations   \* what the enumeration may return: sequences of addresses

VARIABLES pc,          \* "start", "hosts", "srflx", "relay", "done"
          ctx,         \* the ProbeContext
          status,      \* "none" until `run` returns
          addrs,       \* history: the addresses of the interfaces
          rest,        \* the iterator over them
          candidates,  \* kinds and addresses, in order
          counts       \* of the report's detail

vars == <<pc, ctx, status, addrs, rest, candidates, counts>>

Octet == 0..255
Address == [1..4 -> Octet] \cup [1..16 -> Octet]

\* What the two checks before may have left.
Init ==
    /\ pc = "start"
    /\ \E srflx \in {NoAddr} \cup Addrs, session \in {NoSession} \cup Sessions :
          ctx = [NewContext(TRUE, TRUE, TRUE, TRUE) EXCEPT
                    !.ips = TRUE, !.srflx = srflx, !.session = session,
                    !.relayed = session.relayed]
    /\ status = "none"
    /\ addrs = <<>> /\ rest = <<>> /\ candidates = <<>>
    /\ counts = [host |-> 0, srflx |-> 0, relay |-> 0]

-----------------------------------------------------------------------------
(* Host addresses *)

\* is_useful_v4, in the terms of the standard library's predicates.
IsUsefulV4(o) ==
    /\ o[1] # 127
    /\ ~(o[1] = 169 /\ o[2] = 254)
    /\ o # <<0, 0, 0, 0>>
    /\ o[1] \notin 224..239
    /\ o # <<255, 255, 255, 255>>

Segment0(o) == 256 * o[1] + o[2]
Zeros(o, last) == (\A i \in 1..15 : o[i] = 0) /\ o[16] = last

\* is_useful_v6: loopback, unspecified, multicast, and the prefix by its mask.
\* Mutant: the mask takes the whole segment.
IsUsefulV6Exact(o) ==
    /\ ~Zeros(o, 1) /\ ~Zeros(o, 0)
    /\ o[1] # 255
    /\ Segment0(o) # 65152

IsUsefulV6(o) ==
    /\ ~Zeros(o, 1) /\ ~Zeros(o, 0)
    /\ o[1] # 255
    /\ 64 * (Segment0(o) \div 64) # 65152    \* 0xffc0, 0xfe80

IsUseful(o) == IF Len(o) = 4 THEN IsUsefulV4(o) ELSE IsUsefulV6(o)

-----------------------------------------------------------------------------
(* The check *)

Candidate(kind, addr) == [kind |-> kind, addr |-> addr]

\* count_kinds.
CountKinds(cs) ==
    [k \in {"host", "srflx", "relay"} |-> Cardinality({i \in DOMAIN cs : cs[i].kind = k})]

EnumerateError ==
    /\ pc = "start"
    /\ pc' = "done" /\ status' = "fail"
    /\ UNCHANGED <<ctx, addrs, rest, candidates, counts>>

Enumerate ==
    /\ pc = "start"
    /\ pc' = "hosts"
    /\ addrs' \in Enumerations /\ rest' = addrs'
    /\ UNCHANGED <<ctx, status, candidates, counts>>

\* One pass of the loop over the addresses.
\* Mutant: the loop ends at the first that is of no use.
TakeAddressUntil ==
    /\ pc = "hosts" /\ rest # <<>>
    /\ IF IsUseful(Head(rest))
       THEN rest' = Tail(rest) /\ candidates' = Append(candidates, Candidate("host", Head(rest)))
       ELSE rest' = <<>> /\ UNCHANGED candidates
    /\ UNCHANGED <<pc, ctx, status, addrs, counts>>

TakeAddress ==
    /\ pc = "hosts" /\ rest # <<>>
    /\ rest' = Tail(rest)
    /\ candidates' = IF IsUseful(Head(rest)) THEN Append(candidates, Candidate("host", Head(rest)))
                     ELSE candidates
    /\ UNCHANGED <<pc, ctx, status, addrs, counts>>

\* scratch["srflx"], which is a printed SocketAddr.
AddSrflx ==
    /\ pc = "hosts" /\ rest = <<>>
    /\ pc' = "relay"
    /\ candidates' = IF ctx.srflx = NoAddr THEN candidates
                     ELSE Append(candidates, Candidate("srflx", ctx.srflx))
    /\ UNCHANGED <<ctx, status, addrs, rest, counts>>

\* The TURN session's relay, the counts and the verdict.
\* Mutant: what is reported is settled before the relay is added.
ReturnEarlyCount ==
    /\ pc = "relay"
    /\ LET all == IF ctx.session = NoSession THEN candidates
                  ELSE Append(candidates, Candidate("relay", ctx.session.relayed))
       IN /\ candidates' = all
          /\ counts' = CountKinds(candidates)
          /\ status' = IF candidates = <<>> THEN "warn" ELSE "pass"
    /\ pc' = "done"
    /\ UNCHANGED <<ctx, addrs, rest>>

Return ==
    /\ pc = "relay"
    /\ LET all == IF ctx.session = NoSession THEN candidates
                  ELSE Append(candidates, Candidate("relay", ctx.session.relayed))
       IN /\ candidates' = all
          /\ counts' = CountKinds(all)
          /\ status' = IF all = <<>> THEN "warn" ELSE "pass"
    /\ pc' = "done"
    /\ UNCHANGED <<ctx, addrs, rest>>

Returned == pc = "done" /\ UNCHANGED vars

Next == EnumerateError \/ Enumerate \/ TakeAddress \/ AddSrflx \/ Return \/ Returned

Spec == Init /\ [][Next]_vars

-----------------------------------------------------------------------------
(* Properties *)

\* The first n bits of an address are those of the block.
Weight == <<128, 64, 32, 16, 8, 4, 2, 1>>
Bit(octet, i) == (octet \div Weight[i]) % 2

InBlock(o, block, n) ==
    \A k \in 0..n - 1 :
        Bit(o[(k \div 8) + 1], (k % 8) + 1) = Bit(block[(k \div 8) + 1], (k % 8) + 1)

Block6(first, second, last) ==
    [i \in 1..16 |-> CASE i = 1 -> first [] i = 2 -> second [] i = 16 -> last [] OTHER -> 0]

\* The blocks by their prefixes.
Useless(o) ==
    IF Len(o) = 4
    THEN \/ InBlock(o, <<127, 0, 0, 0>>, 8) \/ InBlock(o, <<169, 254, 0, 0>>, 16)
         \/ InBlock(o, <<0, 0, 0, 0>>, 32)  \/ InBlock(o, <<224, 0, 0, 0>>, 4)
         \/ InBlock(o, <<255, 255, 255, 255>>, 32)
    ELSE \/ InBlock(o, Block6(0, 0, 1), 128) \/ InBlock(o, Block6(0, 0, 0), 128)
         \/ InBlock(o, Block6(255, 0, 0), 8) \/ InBlock(o, Block6(254, 128, 0), 10)

\* The interfaces whose address is a candidate, and the place of one of them.
Useful == {k \in DOMAIN addrs : ~Useless(addrs[k])}
Rank(k) == Cardinality({j \in Useful : j <= k})

(* "Filtering rules for host candidates" (ice_gather.rs:36): of all        *)
(* addresses of the machine those outside the blocks, in their order, none *)
(* left out and none listed twice, before anything else; and the counts    *)
(* are those of the list.                                                  *)
HostsAreTheUseful ==
    status \in {"pass", "warn"} =>
        /\ Cardinality(Useful) <= Len(candidates)
        /\ \A k \in Useful : candidates[Rank(k)] = Candidate("host", addrs[k])
        /\ \A n \in DOMAIN candidates : candidates[n].kind = "host" <=> n <= Cardinality(Useful)
        /\ counts.host + counts.srflx + counts.relay = Len(candidates)

Contract == INSTANCE AtomicCheck WITH Outcomes <- IceOutcomes

(* Seen from the runner, one answer: a Warn when there is nothing at all,  *)
(* neither of the machine nor of the checks before.                        *)
ImplementsContract == Contract!Spec
=============================================================================
