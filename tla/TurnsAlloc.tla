------------------------------ MODULE TurnsAlloc ------------------------------
(***************************************************************************)
(* TurnsAllocateCheck::run, probe-core/src/checks/turns_alloc.rs: TCP      *)
(* connect, TLS handshake, and the two Allocate rounds of the UDP check    *)
(* over the connection.  Each direction of the connection is a queue of    *)
(* whole messages, which Framing shows the length prefix to provide.       *)
(*                                                                         *)
(* Connection and server are not part of the repository.  A server either  *)
(* frames as the code does ("prefixed") or relies on the length field of   *)
(* the STUN header alone ("bare"); of the latter's octets the client       *)
(* cannot make a message of its own, nor the server of the client's.       *)
(***************************************************************************)
EXTENDS Context, Sequences

VARIABLES pc,          \* where `run` waits
          txid,        \* transaction id of the last request built
          challenge,   \* nonce of the 401, 0 before it
          ctx,         \* the ProbeContext
          result,      \* status and which return statement gave it
          toServer,    \* messages on their way to the server
          toClient,    \* messages on their way back
          up,          \* the connection stands
          faulty,      \* network and server may fail, refuse or stay silent
          peer,        \* how the server delimits messages: "prefixed" or "bare"
          allocation,  \* what the server holds for this connection
          rejected,    \* history: requests refused for their credentials
          garbled,     \* history: it sent something that is no response
          anonymous,   \* the server allocates without credentials
          credsValid   \* it knows the credentials the client has

client == <<pc, txid, challenge, ctx, result>>
server == <<faulty, peer, allocation, rejected, garbled, anonymous, credsValid>>
link == <<toServer, toClient, up>>
vars == <<client, server, link>>

Request == [tx : Nat, auth : {"none", "long-term"}, nonce : Nonces \cup {0}]
Reply == [type : {"success", "unauthorized", "error", "garbled"}, tx : Nat,
          relayed : Addrs \cup {NoAddr}, nonce : Nonces \cup {0}]
NoAllocation == [tx |-> 0, relayed |-> NoAddr, auth |-> "none"]

Init ==
    /\ pc = "start" /\ txid = 0 /\ challenge = 0
    /\ \E host, port, user, pass, ips \in BOOLEAN :
          ctx = [NewContext(host, port, user, pass) EXCEPT !.ips = ips]
    /\ result = [status |-> "none", why |-> "running"]
    /\ toServer = <<>> /\ toClient = <<>> /\ up = FALSE
    /\ faulty \in BOOLEAN /\ peer \in {"prefixed", "bare"}
    /\ allocation = NoAllocation
    /\ rejected = {} /\ garbled = FALSE
    /\ anonymous \in BOOLEAN /\ credsValid \in BOOLEAN

-----------------------------------------------------------------------------
(* The check *)

Finish(status, why) ==
    /\ pc' = "done"
    /\ result' = [status |-> status, why |-> why]

\* fail_now, and every other return that touches nothing else.
Return(status, why) ==
    /\ Finish(status, why)
    /\ UNCHANGED <<txid, challenge, ctx>>

\* Port, address and a name for SNI.
CanTry(c) == HasTarget(c) /\ c.host

Skip ==
    /\ pc = "start" /\ ~CanTry(ctx)
    /\ Return("skip", "no target")
    /\ UNCHANGED <<server, link>>

\* The name is no server name, TCP or TLS refuses, or takes too long.
NoConnection ==
    /\ pc = "start" /\ CanTry(ctx)
    /\ faulty
    /\ \E why \in {"name", "connect", "handshake", "timeout"} : Return("fail", why)
    /\ UNCHANGED <<server, link>>

Connect ==
    /\ pc = "start" /\ CanTry(ctx)
    /\ pc' = "send1"
    /\ up' = TRUE
    /\ UNCHANGED <<txid, challenge, ctx, result, toServer, toClient, server>>

\* send_framed of a new request.
Send(auth, nonce, next) ==
    /\ txid' = txid + 1
    /\ toServer' = Append(toServer, [tx |-> txid', auth |-> auth, nonce |-> nonce])
    /\ pc' = next
    /\ UNCHANGED <<ctx, result, up, server>>

SendUnauth ==
    /\ pc = "send1" /\ up
    /\ Send("none", 0, "recv1")
    /\ UNCHANGED <<challenge, toClient>>

\* A write to a connection that is gone.
SendError ==
    /\ pc = "send1" /\ ~up
    /\ Return("fail", "send")
    /\ UNCHANGED <<server, link>>

Waiting == pc \in {"recv1", "recv2"}

\* What recv_framed can make a message of.
Readable == toClient # <<>> /\ peer = "prefixed"

\* recv_framed of the next message, which parse_allocate_response finds to
\* be `outcome`.
\* Mutant: the message stays where it was.
RecvPeeks(round, outcome) ==
    /\ pc = round /\ Readable
    /\ outcome = IF Head(toClient).tx # txid THEN "garbled" ELSE Head(toClient).type
    /\ UNCHANGED <<toClient, up, server>>

Recv(round, outcome) ==
    /\ pc = round /\ Readable
    /\ outcome = IF Head(toClient).tx # txid THEN "garbled" ELSE Head(toClient).type
    /\ toClient' = Tail(toClient)
    /\ UNCHANGED <<up, server>>

\* The inner future is polled before the timer: what can be read is read.
\* Without faults the server answers in time.
\* Mutant: only the first round is timed.
TimeoutFirstRound ==
    /\ pc = "recv1" /\ ~Readable
    /\ faulty \/ (toServer = <<>> /\ up)
    /\ Return("fail", "timeout")
    /\ UNCHANGED <<server, link>>

Timeout ==
    /\ Waiting /\ ~Readable
    /\ faulty \/ (toServer = <<>> /\ up)
    /\ Return("fail", "timeout")
    /\ UNCHANGED <<server, link>>

\* The end of the stream or an error of TCP or TLS.
RecvError ==
    /\ Waiting /\ ~Readable /\ ~up
    /\ Return("fail", "recv")
    /\ UNCHANGED <<server, link>>

Malformed ==
    /\ \E round \in {"recv1", "recv2"} : Recv(round, "garbled")
    /\ Return("fail", "malformed")
    /\ UNCHANGED toServer

Refused ==
    /\ \E round \in {"recv1", "recv2"} : Recv(round, "error")
    /\ Return("fail", "refused")
    /\ UNCHANGED toServer

\* Mutant: the address is not kept.
AnonymousForgets ==
    /\ Recv("recv1", "success")
    /\ Finish("pass", "anonymous")
    /\ UNCHANGED <<ctx, txid, challenge, toServer>>

Anonymous ==
    /\ Recv("recv1", "success")
    /\ Finish("pass", "anonymous")
    /\ ctx' = [ctx EXCEPT !.relayed = Head(toClient).relayed]
    /\ UNCHANGED <<txid, challenge, toServer>>

ChallengeOnly ==
    /\ Recv("recv1", "unauthorized")
    /\ ~HasCredentials(ctx)
    /\ Return("warn", "challenge only")
    /\ UNCHANGED toServer

SendAuthed ==
    /\ Recv("recv1", "unauthorized")
    /\ HasCredentials(ctx)
    /\ up
    /\ challenge' = Head(toClient).nonce
    /\ Send("long-term", Head(toClient).nonce, "recv2")

SendAuthedError ==
    /\ Recv("recv1", "unauthorized")
    /\ HasCredentials(ctx)
    /\ ~up
    /\ Finish("fail", "send")
    /\ txid' = txid + 1
    /\ challenge' = Head(toClient).nonce
    /\ UNCHANGED <<ctx, toServer>>

\* Mutant: whatever the second round is refused for, the credentials are blamed.
CredentialsRejectedAnyway ==
    /\ \E outcome \in {"unauthorized", "error"} : Recv("recv2", outcome)
    /\ Return("fail", "credentials")
    /\ UNCHANGED toServer

CredentialsRejected ==
    /\ Recv("recv2", "unauthorized")
    /\ Return("fail", "credentials")
    /\ UNCHANGED toServer

\* Mutant: a session is kept as the UDP check does.
LongTermSession ==
    /\ Recv("recv2", "success")
    /\ Finish("pass", "long-term")
    /\ ctx' = [ctx EXCEPT !.relayed = Head(toClient).relayed,
                          !.session = [relayed |-> Head(toClient).relayed, nonce |-> challenge]]
    /\ UNCHANGED <<txid, challenge, toServer>>

LongTerm ==
    /\ Recv("recv2", "success")
    /\ Finish("pass", "long-term")
    /\ ctx' = [ctx EXCEPT !.relayed = Head(toClient).relayed]
    /\ UNCHANGED <<txid, challenge, toServer>>

-----------------------------------------------------------------------------
(* The server *)

\* It reads the next request and answers, if it answers.
Respond(m, type, relayed, n) ==
    toClient' = Append(toClient, [type |-> type, tx |-> m.tx, relayed |-> relayed, nonce |-> n])

Demands(m) == IF m.auth = "long-term" THEN ~credsValid ELSE ~anonymous

Grant(m) ==
    /\ ~Demands(m)
    /\ \E r \in Addrs :
        /\ allocation' = [tx |-> m.tx, relayed |-> r, auth |-> m.auth]
        /\ Respond(m, "success", r, 0)
    /\ UNCHANGED <<rejected, garbled>>

Challenge(m) ==
    /\ Demands(m)
    /\ \E n \in Nonces : Respond(m, "unauthorized", NoAddr, n)
    /\ rejected' = IF m.auth = "long-term" THEN rejected \cup {m.tx} ELSE rejected
    /\ UNCHANGED <<allocation, garbled>>

\* 4xx and 5xx, a message that is no Allocate response, or none at all.
Misbehave(m) ==
    /\ faulty
    /\ \/ Respond(m, "error", NoAddr, 0) /\ UNCHANGED garbled
       \/ Respond(m, "garbled", NoAddr, 0) /\ garbled' = TRUE
       \/ UNCHANGED <<toClient, garbled>>
    /\ UNCHANGED <<allocation, rejected>>

\* A bare server finds no magic cookie where it belongs and drops the octets.
Bewildered ==
    /\ peer = "bare"
    /\ UNCHANGED <<toClient, allocation, rejected, garbled>>

Serve ==
    /\ up /\ toServer # <<>>
    /\ toServer' = Tail(toServer)
    /\ LET m == Head(toServer)
       IN \/ peer = "prefixed" /\ (Grant(m) \/ Challenge(m) \/ Misbehave(m))
          \/ Bewildered
    /\ UNCHANGED <<client, up, faulty, peer, anonymous, credsValid>>

\* The connection is lost; what has arrived can still be read, unless it was
\* reset.
HangUp ==
    /\ up /\ faulty
    /\ up' = FALSE
    /\ toServer' = <<>>
    /\ toClient' \in {toClient, <<>>}
    /\ UNCHANGED <<client, server>>

-----------------------------------------------------------------------------
Answered == Malformed \/ Refused \/ Anonymous \/ ChallengeOnly \/ SendAuthed
            \/ SendAuthedError \/ CredentialsRejected \/ LongTerm

Progress == Skip \/ Connect \/ SendUnauth \/ SendError \/ Timeout \/ RecvError \/ Answered

Returned == pc = "done" /\ UNCHANGED vars

Next == Progress \/ NoConnection \/ Serve \/ HangUp \/ Returned

Spec == Init /\ [][Next]_vars

\* Timers fire and the task is polled.  A server that is not faulty also
\* answers what it reads.
FairSpec == Spec /\ WF_vars(Progress) /\ WF_vars(~faulty /\ Serve)

-----------------------------------------------------------------------------
(* Properties *)

TypeOK ==
    /\ pc \in {"start", "send1", "recv1", "recv2", "done"}
    /\ txid \in 0..2
    /\ challenge \in Nonces \cup {0}
    /\ ctx \in ProbeContext
    /\ result.status \in {"none", "pass", "warn", "fail", "skip"}
    /\ toServer \in Seq(Request) /\ toClient \in Seq(Reply)
    /\ Len(toServer) + Len(toClient) <= 1
    /\ pc = "done" <=> result.status # "none"

(* A Pass is true: the server holds an allocation for this connection, at  *)
(* the address reported.                                                   *)
PassIsAllocated ==
    result.status = "pass" =>
        /\ allocation # NoAllocation
        /\ ctx.relayed = allocation.relayed

(* What a duplicated datagram does to the UDP check cannot happen here:    *)
(* "malformed" is only said when the server did send something that is no  *)
(* response, never because an earlier response is read again.              *)
MalformedHasCause == result.why = "malformed" => garbled

(* "server rejected long-term credentials" is only said when the server    *)
(* refused this very request for them.                                     *)
CredentialsBlamedFairly ==
    result.why = "credentials" => txid \in rejected /\ ~credsValid

\* The check as the runner sees it: one answer, out of TurnsOutcomes.
Contract == INSTANCE AtomicCheck WITH Outcomes <- TurnsOutcomes, status <- result.status

(* The exchange over TLS implements the contract the composition uses: in  *)
(* particular it leaves no session, whose socket would be a UDP one.       *)
ImplementsContract == Contract!Spec

(* The check answers whatever becomes of connection and server.            *)
Terminates == <>(pc = "done")

GoodServer ==
    /\ pc = "start" /\ CanTry(ctx) /\ (HasCredentials(ctx) => credsValid)
    /\ ~faulty /\ peer = "prefixed"

Recognised == result.status \in {"pass", "warn"}

(* "The wire protocol is the same as plain TURN" (README.md:289): a server *)
(* that accepts connections, answers every Allocate, accepts the           *)
(* credentials, if the client has any, and puts a length before each       *)
(* message, gets a pass, or the challenge-only warning.                    *)
GoodServerIsRecognised == GoodServer ~> Recognised
=============================================================================
