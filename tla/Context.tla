------------------------------- MODULE Context -------------------------------
(***************************************************************************)
(* ProbeContext (probe-core/src/check.rs), the one mutable value the       *)
(* checks of a pipeline share, and what each check may do to it: the       *)
(* contract the runner sees, one atomic step from a context to a status    *)
(* and a new context.  Addresses are members of a set; an Option is a      *)
(* BOOLEAN when only its presence matters.                                 *)
(***************************************************************************)
EXTENDS Naturals

CONSTANTS Addrs,    \* transport addresses
          NoAddr,   \* no address yet
          Nonces    \* nonces a server gives out

ASSUME NoAddrAssumption == NoAddr \notin Addrs
ASSUME NoncesAssumption == Nonces \subseteq Nat

\* TurnSession: socket, server and key follow from the run that made it.
Sessions == [relayed : Addrs, nonce : Nonces]
NoSession == [relayed |-> NoAddr, nonce |-> 0]

ProbeContext ==
    [host    : BOOLEAN,
     port    : BOOLEAN,
     ips     : BOOLEAN,                  \* resolved_ips is not empty
     user    : BOOLEAN,
     pass    : BOOLEAN,
     srflx   : Addrs \cup {NoAddr},      \* scratch["srflx"]
     relayed : Addrs \cup {NoAddr},      \* scratch["relayed"]
     session : Sessions \cup {NoSession}]

\* ProbeContext::new with the fields the command line fills in.
NewContext(host, port, user, pass) ==
    [host |-> host, port |-> port, ips |-> FALSE, user |-> user, pass |-> pass,
     srflx |-> NoAddr, relayed |-> NoAddr, session |-> NoSession]

HasTarget(c) == c.port /\ c.ips
HasCredentials(c) == c.user /\ c.pass

-----------------------------------------------------------------------------
(* Contracts *)

Answer(s, c) == [status |-> s, ctx |-> c]

\* DnsCheck::run.
DnsOutcomes(c) ==
    IF ~c.host THEN {Answer("skip", c)}
    ELSE {Answer("fail", c), Answer("pass", [c EXCEPT !.ips = TRUE])}

\* StunBindingCheck::run.
\* Mutant: the srflx is reported but not kept.
StunOutcomesForgetful(c) ==
    IF ~HasTarget(c) THEN {Answer("skip", c)}
    ELSE {Answer("fail", c), Answer("pass", c)}

StunOutcomes(c) ==
    IF ~HasTarget(c) THEN {Answer("skip", c)}
    ELSE {Answer("fail", c)} \cup {Answer("pass", [c EXCEPT !.srflx = a]) : a \in Addrs}

\* TurnAllocateCheck::run: no address without a Pass, and a session only from
\* a Pass that used the credentials.
AllocOutcomes(c) ==
    IF ~HasTarget(c) THEN {Answer("skip", c)}
    ELSE {Answer("fail", c)}
         \cup {Answer("pass", [c EXCEPT !.relayed = r]) : r \in Addrs}
         \cup (IF HasCredentials(c)
               THEN {Answer("pass", [c EXCEPT !.relayed = s.relayed, !.session = s])
                        : s \in Sessions}
               ELSE {Answer("warn", c)})

\* TurnEchoCheck::run leaves the context alone; it skips itself when there is
\* no session or no srflx, and warns only of a partial loss.
EchoOutcomes(c) ==
    IF c.session = NoSession \/ c.srflx = NoAddr THEN {Answer("skip", c)}
    ELSE {Answer(s, c) : s \in {"pass", "warn", "fail"}}

\* TurnsAllocateCheck::run, the allocation over TLS: it needs a name for SNI
\* and never leaves a session.
TurnsOutcomes(c) ==
    IF ~HasTarget(c) \/ ~c.host THEN {Answer("skip", c)}
    ELSE {Answer("fail", c)}
         \cup {Answer("pass", [c EXCEPT !.relayed = r]) : r \in Addrs}
         \cup (IF HasCredentials(c) THEN {} ELSE {Answer("warn", c)})

\* IceGatherCheck::run: the candidates are the host addresses enumerated, the
\* srflx and the relay of the session.
CandidateKinds(c, host) ==
    (IF host THEN {"host"} ELSE {})
    \cup (IF c.srflx # NoAddr THEN {"srflx"} ELSE {})
    \cup (IF c.session # NoSession THEN {"relay"} ELSE {})

IceOutcomes(c) ==
    {Answer("fail", c)}
    \cup {Answer(IF CandidateKinds(c, host) = {} THEN "warn" ELSE "pass", c)
             : host \in BOOLEAN}

\* SignalingCheck::run reads nothing of the context but the timeout.
SignalingOutcomes(c) == {Answer("pass", c), Answer("fail", c)}

\* DtlsRemoteCheck::run and DtlsLoopbackCheck::run.
DtlsRemoteOutcomes(c) ==
    IF ~HasTarget(c) THEN {Answer("skip", c)}
    ELSE {Answer("pass", c), Answer("fail", c)}

DtlsLoopbackOutcomes(c) == {Answer("pass", c), Answer("fail", c)}
=============================================================================
