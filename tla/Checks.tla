-------------------------------- MODULE Checks --------------------------------
(***************************************************************************)
(* The checks that have a module of their own and no peer but the network, *)
(* as the runner sees them: a value of type Box<dyn Check>, one of several *)
(* (trait Check, check.rs:76-94).  A behaviour is one run of one of them,  *)
(* `part`.  The modules share the variables that have the same name, and   *)
(* those a part does not have stay as they are.                            *)
(***************************************************************************)
EXTENDS Context, Sequences

CONSTANTS Ips, MaxAnswers,   \* of Lookup
          Enumerations       \* of IceGather

VARIABLES part,              \* which check runs
          pc, ctx, result,
          rest, seen, expired, faulty,
          resolved, answers, ips,
          requests, datagrams, mapping,
          url, auth, request, answer, endpoint, peerClose,
          status, addrs, candidates, counts,
          server, flight, mode,
          txid, challenge, toServer, toClient, up, peer, allocation,
          rejected, garbled, anonymous, credsValid

Dns == INSTANCE Lookup
Stun == INSTANCE StunBinding
Ws == INSTANCE Signaling
Ice == INSTANCE IceGather
Dtls == INSTANCE DtlsCheck
Turns == INSTANCE TurnsAlloc

ASSUME EnumerationsAssumption == Enumerations \subseteq Seq(Ice!Address)

\* What only one of the parts has.
dnsOwn == <<resolved, answers, ips>>
stunOwn == <<requests, datagrams, mapping>>
wsOwn == <<url, auth, request, answer, endpoint, peerClose>>
iceOwn == <<status, addrs, candidates, counts>>
dtlsOwn == <<server, flight, mode>>
turnsOwn == <<txid, challenge, toServer, toClient, up, peer, allocation, rejected,
              garbled, anonymous, credsValid>>

vars == <<part, pc, ctx, result, rest, seen, expired, faulty,
          dnsOwn, stunOwn, wsOwn, iceOwn, dtlsOwn, turnsOwn>>

Unused == "unused"

NoDns == resolved = Unused /\ answers = Unused /\ ips = Unused
NoStun == requests = Unused /\ datagrams = Unused /\ mapping = Unused
NoWs == /\ url = Unused /\ auth = Unused /\ request = Unused
        /\ answer = Unused /\ endpoint = Unused /\ peerClose = Unused
NoIce == status = Unused /\ addrs = Unused /\ candidates = Unused /\ counts = Unused
NoDtls == server = Unused /\ flight = Unused /\ mode = Unused
NoTurns == /\ txid = Unused /\ challenge = Unused /\ toServer = Unused
           /\ toClient = Unused /\ up = Unused /\ peer = Unused
           /\ allocation = Unused /\ rejected = Unused /\ garbled = Unused
           /\ anonymous = Unused /\ credsValid = Unused

Init ==
    \/ /\ part = "dns" /\ Dns!Init
       /\ NoStun /\ NoWs /\ NoIce /\ NoDtls /\ NoTurns
       /\ expired = Unused /\ faulty = Unused
    \/ /\ part = "stun" /\ Stun!Init
       /\ NoDns /\ NoWs /\ NoIce /\ NoDtls /\ NoTurns
       /\ rest = Unused /\ faulty = Unused
    \/ /\ part = "signaling" /\ Ws!Init
       /\ NoDns /\ NoStun /\ NoIce /\ NoDtls /\ NoTurns
       /\ rest = Unused /\ seen = Unused /\ faulty = Unused
    \/ /\ part = "ice" /\ Ice!Init
       /\ NoDns /\ NoStun /\ NoWs /\ NoDtls /\ NoTurns
       /\ result = Unused /\ seen = Unused /\ expired = Unused /\ faulty = Unused
    \/ /\ part = "dtls" /\ Dtls!Init
       /\ NoDns /\ NoStun /\ NoWs /\ NoIce /\ NoTurns
       /\ rest = Unused /\ seen = Unused
    \/ /\ part = "turns" /\ Turns!Init
       /\ NoDns /\ NoStun /\ NoWs /\ NoIce /\ NoDtls
       /\ rest = Unused /\ seen = Unused /\ expired = Unused

Next ==
    /\ UNCHANGED part
    /\ \/ /\ part = "dns" /\ Dns!Next
          /\ UNCHANGED <<stunOwn, wsOwn, iceOwn, dtlsOwn, turnsOwn, expired, faulty>>
       \/ /\ part = "stun" /\ Stun!Next
          /\ UNCHANGED <<dnsOwn, wsOwn, iceOwn, dtlsOwn, turnsOwn, rest, faulty>>
       \/ /\ part = "signaling" /\ Ws!Next
          /\ UNCHANGED <<dnsOwn, stunOwn, iceOwn, dtlsOwn, turnsOwn, rest, seen, faulty>>
       \/ /\ part = "ice" /\ Ice!Next
          /\ UNCHANGED <<dnsOwn, stunOwn, wsOwn, dtlsOwn, turnsOwn, result, seen, expired, faulty>>
       \/ /\ part = "dtls" /\ Dtls!Next
          /\ UNCHANGED <<dnsOwn, stunOwn, wsOwn, iceOwn, turnsOwn, rest, seen>>
       \/ /\ part = "turns" /\ Turns!Next
          /\ UNCHANGED <<dnsOwn, stunOwn, wsOwn, iceOwn, dtlsOwn, rest, seen, expired>>

Spec == Init /\ [][Next]_vars

stunVars == Stun!vars
wsVars == Ws!vars
dtlsVars == Dtls!vars
turnsVars == Turns!vars

\* Each check's own fairness: the task is polled and time passes.  Only where
\* the setting is not faulty does the other side owe anything.
FairSpec ==
    /\ Spec
    /\ WF_stunVars(part = "stun" /\ Stun!Prompt) /\ WF_stunVars(part = "stun" /\ Stun!Expire)
    /\ WF_wsVars(part = "signaling" /\ Ws!Prompt) /\ WF_wsVars(part = "signaling" /\ Ws!Expire)
    /\ WF_dtlsVars(part = "dtls" /\ Dtls!Prompt) /\ WF_dtlsVars(part = "dtls" /\ faulty /\ Dtls!Expire)
    /\ WF_dtlsVars(part = "dtls" /\ ~faulty /\ Dtls!ClientNext)
    /\ WF_dtlsVars(part = "dtls" /\ ~faulty /\ Dtls!ServerNext)
    /\ WF_turnsVars(part = "turns" /\ Turns!Progress)
    /\ WF_turnsVars(part = "turns" /\ ~faulty /\ Turns!Serve)

-----------------------------------------------------------------------------
(* Properties *)

TypeOK ==
    /\ part = "stun" => Stun!TypeOK
    /\ part = "signaling" => Ws!TypeOK
    /\ part = "dtls" => Dtls!TypeOK
    /\ part = "turns" => Turns!TypeOK

OutcomesOf(check, c) ==
    CASE check = "dns" -> DnsOutcomes(c)
      [] check = "stun" -> StunOutcomes(c)
      [] check = "signaling" -> SignalingOutcomes(c)
      [] check = "ice" -> IceOutcomes(c)
      [] check = "loopback" -> DtlsLoopbackOutcomes(c)
      [] check = "remote" -> DtlsRemoteOutcomes(c)
      [] check = "turns" -> TurnsOutcomes(c)

Contract == INSTANCE AnyCheck WITH
    check <- IF part = "dtls" THEN mode ELSE part,
    status <- IF part = "ice" THEN status ELSE result.status,
    Outcomes <- OutcomesOf

(* Seen from the runner every check is one step from a context to one of   *)
(* its contract's answers, which is all the composition in Probe uses: a   *)
(* resolver's Pass leaves an address, the TURNS check leaves no session,   *)
(* whose socket would be a UDP one, DTLS and signaling leave nothing.      *)
ImplementContracts == Contract!Spec

(* Every check with a timeout answers: silence, noise and a peer that      *)
(* hangs at any point run into it.  DNS is not among them, its lookup has  *)
(* none (dns.rs:56).                                                       *)
Terminates == part \in {"stun", "signaling", "dtls", "turns"} => <>(pc = "done")

\* What each check says, if it is the one that runs.
DnsIsTrue == part = "dns" => Dns!ResolvedIsTheAnswer
StunIsTrue == part = "stun" => Stun!SrflxWasSeen
WsIsTrue == part = "signaling" => Ws!AuthOkIsMeant
IceIsTrue == part = "ice" => Ice!HostsAreTheUseful
DtlsIsTrue == part = "dtls" => Dtls!PassMeansBothEnds
TurnsIsTrue ==
    part = "turns" => Turns!PassIsAllocated /\ Turns!MalformedHasCause /\ Turns!CredentialsBlamedFairly

(* What a check reports is so: the addresses are those the resolver gave,  *)
(* in its order; a srflx address is one the server saw; "auth OK" was said *)
(* to this request's header; the host candidates are the machine's useful  *)
(* addresses; a DTLS Pass means both ends; a TURNS Pass is an allocation   *)
(* at the address reported, "malformed" was no response, and credentials   *)
(* are blamed when they were refused.                                      *)
ReportsAreTrue == DnsIsTrue /\ StunIsTrue /\ WsIsTrue /\ IceIsTrue /\ DtlsIsTrue /\ TurnsIsTrue

(* A peer that does its part is recognised: the tasks of the loopback do   *)
(* not wait for each other and a DTLS handshake that works passes, unless  *)
(* its time is over first; a TURNS server that accepts the credentials and *)
(* frames as the client does is never reported as failing.                 *)
GoodPeersPass ==
    /\ <>(part = "dtls" => Dtls!PassedInTime)
    /\ (part = "turns" /\ Turns!GoodServer) ~> (part = "turns" /\ Turns!Recognised)
=============================================================================
