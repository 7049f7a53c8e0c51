------------------------------ MODULE TurnAlloc ------------------------------
(***************************************************************************)
(* TurnAllocateCheck::run, probe-core/src/checks/turn_alloc.rs: an         *)
(* unauthenticated Allocate, then, challenged, an authenticated one.  Each *)
(* round sends one datagram, never again, and takes the first datagram     *)
(* that reaches the socket, whoever sent it, or gives up after the         *)
(* timeout.  A timeout may strike at any moment of a wait.                 *)
(***************************************************************************)
EXTENDS TurnServer

CONSTANT Strays   \* datagrams other hosts may send to the socket

ASSUME StraysAssumption == Strays \subseteq [type : {"garbled"}, tx : {0},
                                             relayed : {NoAddr}, nonce : {0}]

VARIABLES pc,       \* where `run` waits
          txid,     \* transaction id of the last request built
          challenge,  \* nonce of the 401, 0 before it
          ctx,      \* the ProbeContext
          result    \* status and which return statement gave it

vars == <<requests, replies, allocation, nonce, rejected, anonymous, credsValid,
          pc, txid, challenge, ctx, result>>

Why == {"running", "no target", "local", "timeout", "malformed", "refused",
        "challenge only", "credentials", "anonymous", "long-term"}
Result == [status : {"none", "pass", "warn", "fail", "skip"}, why : Why]

Init ==
    /\ ServerInit
    /\ pc = "start"
    /\ txid = 0
    /\ challenge = 0
    /\ \E port, user, pass \in BOOLEAN :
          ctx = [NewContext(TRUE, port, user, pass) EXCEPT !.ips = TRUE]
    /\ result = [status |-> "none", why |-> "running"]

-----------------------------------------------------------------------------
\* new_txid: the clock has moved on since the last call.
\* Mutant: a clock that stands still (before 1970 the code reads 0).
NewTxidFrozen(last) == 1

NewTxid(last) == last + 1

Finish(status, why) ==
    /\ pc' = "done"
    /\ result' = [status |-> status, why |-> why]

\* A return that leaves the context alone and sends nothing.
Return(status, why) ==
    /\ Finish(status, why)
    /\ UNCHANGED <<requests, txid, challenge, ctx>>

\* parse_allocate_response: the header is checked against the transaction
\* first, whatever the message says.
ParseAllocateResponse(m, tx) ==
    IF m.tx # tx \/ m.type = "garbled" THEN "malformed" ELSE m.type

-----------------------------------------------------------------------------
Skip ==
    /\ pc = "start" /\ ~HasTarget(ctx)
    /\ Return("skip", "no target")
    /\ UNCHANGED serverVars

\* Binding the socket or handing the datagram to the kernel fails.
LocalError ==
    /\ pc = "start" /\ HasTarget(ctx)
    /\ Return("fail", "local")
    /\ UNCHANGED serverVars

SendUnauth ==
    /\ pc = "start" /\ HasTarget(ctx)
    /\ txid' = NewTxid(txid)
    /\ requests' = requests \cup {[tx |-> txid', auth |-> "none", nonce |-> 0]}
    /\ pc' = "recv1"
    /\ UNCHANGED <<challenge, ctx, result>> /\ UNCHANGED serverVars

\* Mutant: the wait for the second answer has no timeout.
TimeoutFirstRound ==
    /\ pc = "recv1"
    /\ Return("fail", "timeout")
    /\ UNCHANGED serverVars

Timeout ==
    /\ pc \in {"recv1", "recv2"}
    /\ Return("fail", "timeout")
    /\ UNCHANGED serverVars

RecvError ==
    /\ pc \in {"recv1", "recv2"}
    /\ Return("fail", "local")
    /\ UNCHANGED serverVars

\* The datagram a wait ends with, and what the parser makes of it.
Recv(round, m, outcome) ==
    /\ pc = round
    /\ m \in replies \cup Strays
    /\ ParseAllocateResponse(m, txid) = outcome
    /\ UNCHANGED serverVars

Malformed(m) ==
    /\ \E round \in {"recv1", "recv2"} : Recv(round, m, "malformed")
    /\ Return("fail", "malformed")

\* Mutant: a server that refuses is only warned of.
RefusedWarns(m) ==
    /\ \E round \in {"recv1", "recv2"} : Recv(round, m, "error")
    /\ Return("warn", "refused")

Refused(m) ==
    /\ \E round \in {"recv1", "recv2"} : Recv(round, m, "error")
    /\ Return("fail", "refused")

\* Some relays allocate for anyone: the address is kept, no session is.
\* Mutant: the anonymous branch makes a session as the other one does.
AnonymousSession(m) ==
    /\ Recv("recv1", m, "success")
    /\ Finish("pass", "anonymous")
    /\ ctx' = [ctx EXCEPT !.relayed = m.relayed,
                          !.session = [relayed |-> m.relayed, nonce |-> 1]]
    /\ UNCHANGED <<requests, txid, challenge>>

Anonymous(m) ==
    /\ Recv("recv1", m, "success")
    /\ Finish("pass", "anonymous")
    /\ ctx' = [ctx EXCEPT !.relayed = m.relayed]
    /\ UNCHANGED <<requests, txid, challenge>>

\* Mutant: the credentials are not looked at before the warning.
ChallengeFirst(m) ==
    /\ Recv("recv1", m, "unauthorized")
    /\ Return("warn", "challenge only")

ChallengeOnly(m) ==
    /\ Recv("recv1", m, "unauthorized")
    /\ ~HasCredentials(ctx)
    /\ Return("warn", "challenge only")

\* Mutant: one of the two credentials is taken for both.
SendAuthedHalf(m) ==
    /\ Recv("recv1", m, "unauthorized")
    /\ ctx.user \/ ctx.pass
    /\ txid' = NewTxid(txid)
    /\ requests' = requests \cup {[tx |-> txid', auth |-> "long-term", nonce |-> m.nonce]}
    /\ challenge' = m.nonce
    /\ pc' = "recv2"
    /\ UNCHANGED <<ctx, result>>

SendAuthed(m) ==
    /\ Recv("recv1", m, "unauthorized")
    /\ HasCredentials(ctx)
    /\ txid' = NewTxid(txid)
    /\ requests' = requests \cup {[tx |-> txid', auth |-> "long-term", nonce |-> m.nonce]}
    /\ challenge' = m.nonce
    /\ pc' = "recv2"
    /\ UNCHANGED <<ctx, result>>

\* The second send fails in the kernel.
SendAuthedError(m) ==
    /\ Recv("recv1", m, "unauthorized")
    /\ HasCredentials(ctx)
    /\ Finish("fail", "local")
    /\ txid' = NewTxid(txid)
    /\ challenge' = m.nonce
    /\ UNCHANGED <<requests, ctx>>

\* Mutant: rejected, the credentials are tried once more, and again.
CredentialsRetried(m) ==
    /\ Recv("recv2", m, "unauthorized")
    /\ txid' = NewTxid(txid)
    /\ requests' = requests \cup {[tx |-> txid', auth |-> "long-term", nonce |-> m.nonce]}
    /\ challenge' = m.nonce
    /\ UNCHANGED <<pc, ctx, result>>

CredentialsRejected(m) ==
    /\ Recv("recv2", m, "unauthorized")
    /\ Return("fail", "credentials")

LongTerm(m) ==
    /\ Recv("recv2", m, "success")
    /\ Finish("pass", "long-term")
    /\ ctx' = [ctx EXCEPT !.relayed = m.relayed,
                          !.session = [relayed |-> m.relayed, nonce |-> challenge]]
    /\ UNCHANGED <<requests, txid, challenge>>

\* What the runtime owes the check.
Progress == Skip \/ SendUnauth \/ Timeout

ClientNext ==
    \/ Progress \/ LocalError \/ RecvError
    \/ \E m \in replies \cup Strays :
         \/ Malformed(m) \/ Refused(m) \/ Anonymous(m) \/ ChallengeOnly(m)
         \/ SendAuthed(m) \/ SendAuthedError(m) \/ CredentialsRejected(m) \/ LongTerm(m)

\* The answer is in; the server and the network go on by themselves.
Returned == pc = "done" /\ UNCHANGED vars

Next == \/ ClientNext
        \/ ServerNext /\ UNCHANGED <<pc, txid, challenge, ctx, result>>
        \/ Returned

Spec == Init /\ [][Next]_vars

\* tokio's timer fires and the task is polled again; nothing obliges the
\* network to deliver a datagram or the kernel to report an error.
FairSpec == Spec /\ WF_vars(Progress)

-----------------------------------------------------------------------------
(* Properties *)

TypeOK ==
    /\ ServerTypeOK
    /\ pc \in {"start", "recv1", "recv2", "done"}
    /\ txid \in 0..2
    /\ challenge \in Nonces \cup {0}
    /\ ctx \in ProbeContext
    /\ result \in Result
    /\ pc = "done" <=> result.status # "none"

(* A Pass is true: the server holds an allocation for this client, at the  *)
(* address reported; and the session handed to later checks exists exactly *)
(* when that allocation was made with the long-term credentials.           *)
PassIsAllocated ==
    result.status = "pass" =>
        /\ allocation # NoAllocation
        /\ ctx.relayed = allocation.relayed
        /\ allocation.auth = "long-term" <=> ctx.session # NoSession
        /\ ctx.session # NoSession => ctx.session.relayed = allocation.relayed

(* "server rejected long-term credentials (401 after auth)" is only said   *)
(* of a server that looked at the authenticated request and does not know  *)
(* the credentials, never on account of the first round's challenge        *)
(* arriving twice.                                                         *)
CredentialsBlamedFairly ==
    result.why = "credentials" => txid \in rejected /\ ~credsValid

(* Credentials are used only where they were asked for: an authenticated   *)
(* request is made with both halves, by a client the server challenged,    *)
(* and answers with a nonce of that server.                                *)
CredentialsOnDemand ==
    \A q \in requests : q.auth = "long-term" =>
        /\ HasCredentials(ctx)
        /\ ~anonymous
        /\ \E m \in replies : /\ m.type = "unauthorized"
                              /\ m.tx # q.tx
                              /\ m.nonce = q.nonce

(* "auth challenge - no --user/--pass supplied" leaves nothing behind on   *)
(* the server, and is said of a server that does ask for credentials.      *)
ChallengeOnlyIsHarmless ==
    result.status = "warn" =>
        /\ ~HasCredentials(ctx)
        /\ ~anonymous
        /\ allocation = NoAllocation
        /\ rejected = {}

(* Whatever the server and the network do, `run` answers: every wait ends  *)
(* at its timeout.                                                         *)
Terminates == <>(pc = "done")

\* The check as the runner sees it: one answer, out of AllocOutcomes.
Contract == INSTANCE AtomicCheck WITH Outcomes <- AllocOutcomes, status <- result.status

(* The two rounds of messages implement the contract the composition uses. *)
ImplementsContract == Contract!Spec

(* The transaction ID "ties a response back to its request, since UDP      *)
(* doesn't guarantee ordering" (docs/PROTOCOLS.md:63): a response to       *)
(* another request does not decide the outcome, with a server that knows   *)
(* the credentials.  The code stops with "malformed" at the first datagram *)
(* with another id.                                                        *)
OtherResponsesDoNotDecide ==
    credsValid /\ result.why = "malformed" =>
        \E m \in replies \cup Strays : m.type = "garbled"
=============================================================================
