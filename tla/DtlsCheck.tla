------------------------------ MODULE DtlsCheck ------------------------------
(***************************************************************************)
(* DtlsLoopbackCheck::run and DtlsRemoteCheck::run (checks/dtls.rs): a     *)
(* client handshake, dial, under a timeout, against a server task of the   *)
(* check itself or against a remote peer.  The DTLS library is not part of *)
(* the repository: a handshake ends at the client no earlier than the      *)
(* server has sent its last flight, and may fail or hang at either end.    *)
(***************************************************************************)
EXTENDS Context

VARIABLES pc,       \* "start", "dial", "close", "join", "done"
          ctx,      \* the ProbeContext
          result,   \* status, and why
          server,   \* "none", "accepting", "closing", "done", "error"
          flight,   \* the server's last flight is on its way
          expired,  \* the budget is used up
          mode,     \* which check it is: "loopback" or "remote"
          faulty    \* sockets, certificates and handshakes may fail

setting == <<mode, faulty>>
vars == <<pc, ctx, result, server, flight, expired, setting>>

Init ==
    /\ pc = "start"
    /\ \E host, port, user, pass, ips \in BOOLEAN :
          ctx = [NewContext(host, port, user, pass) EXCEPT !.ips = ips]
    /\ result = [status |-> "none", why |-> "running"]
    /\ server = "none" /\ flight = FALSE /\ expired = FALSE
    /\ mode \in {"loopback", "remote"} /\ faulty \in BOOLEAN

-----------------------------------------------------------------------------
(* The check *)

Return(status, why) ==
    /\ pc' = "done"
    /\ result' = [status |-> status, why |-> why]
    /\ UNCHANGED ctx

Skip ==
    /\ pc = "start" /\ mode = "remote" /\ ~HasTarget(ctx)
    /\ Return("skip", "no target")
    /\ UNCHANGED <<server, flight, expired, setting>>

\* dial(target); somebody may be there or not.
StartRemote ==
    /\ pc = "start" /\ mode = "remote" /\ HasTarget(ctx)
    /\ pc' = "dial"
    /\ server' \in IF faulty THEN {"accepting", "none"} ELSE {"accepting"}
    /\ UNCHANGED <<ctx, result, flight, expired, setting>>

\* listen, then the server task, then dial.
\* Mutant: the server is to be run after the client.
StartLoopbackInTurn ==
    /\ pc = "start" /\ mode = "loopback"
    /\ pc' = "dial"
    /\ server' = "none"
    /\ UNCHANGED <<ctx, result, flight, expired, setting>>

StartLoopback ==
    /\ pc = "start" /\ mode = "loopback"
    /\ pc' = "dial"
    /\ server' = "accepting"
    /\ UNCHANGED <<ctx, result, flight, expired, setting>>

ListenError ==
    /\ pc = "start" /\ mode = "loopback"
    /\ faulty
    /\ Return("fail", "handshake")
    /\ UNCHANGED <<server, flight, expired, setting>>

\* Socket, certificate or handshake; in the loopback the server task is left
\* to itself.
\* Mutant: an error is passed over.
DialErrorIgnored ==
    /\ pc = "dial"
    /\ faulty
    /\ pc' = "close"
    /\ UNCHANGED <<ctx, result, server, flight, expired, setting>>

DialError ==
    /\ pc = "dial"
    /\ faulty
    /\ Return("fail", "handshake")
    /\ UNCHANGED <<server, flight, expired, setting>>

\* DTLSConn::new returns.
Handshaken ==
    /\ pc = "dial" /\ flight
    /\ pc' = "close"
    /\ UNCHANGED <<ctx, result, server, flight, expired, setting>>

\* conn.close(), whatever it says; the loopback goes on to wait for its
\* server.
\* Mutant: the loopback passes as soon as the client is through.
CloseAndPass ==
    /\ pc = "close"
    /\ Return("pass", "handshake")
    /\ UNCHANGED <<server, flight, expired, setting>>

Close ==
    /\ pc = "close"
    /\ IF mode = "loopback" THEN pc' = "join" /\ UNCHANGED <<ctx, result>>
                            ELSE Return("pass", "handshake")
    /\ UNCHANGED <<server, flight, expired, setting>>

\* server.await??
Join ==
    /\ pc = "join"
    /\ \/ server = "done" /\ Return("pass", "handshake")
       \/ server = "error" /\ Return("fail", "handshake")
    /\ UNCHANGED <<server, flight, expired, setting>>

\* timeout(budget, ..): the client is dropped, the server task is not.
\* Mutants: only the handshake is limited; the limit is a warning.
TimeoutDial ==
    /\ pc = "dial" /\ expired
    /\ Return("fail", "timeout")
    /\ UNCHANGED <<server, flight, expired, setting>>

TimeoutWarns ==
    /\ pc \in {"dial", "close", "join"} /\ expired
    /\ Return("warn", "timeout")
    /\ UNCHANGED <<server, flight, expired, setting>>

Timeout ==
    /\ pc \in {"dial", "close", "join"} /\ expired
    /\ Return("fail", "timeout")
    /\ UNCHANGED <<server, flight, expired, setting>>

ClientNext == \/ Skip \/ StartRemote \/ StartLoopback \/ ListenError
              \/ DialError \/ Handshaken \/ Close \/ Join \/ Timeout

-----------------------------------------------------------------------------
(* The server task, or the peer *)

\* Its part of the handshake, as long as the client takes part.
LastFlight ==
    /\ server = "accepting" /\ ~flight /\ pc = "dial"
    /\ flight' = TRUE
    /\ UNCHANGED <<pc, ctx, result, server, expired, setting>>

\* accept returns a connection, which is closed again.
Accept ==
    /\ server = "accepting" /\ flight
    /\ server' = "closing"
    /\ UNCHANGED <<pc, ctx, result, flight, expired, setting>>

\* A client that gave up or spoke badly; even after the last flight.
AcceptError ==
    /\ server = "accepting" /\ faulty
    /\ server' = "error"
    /\ UNCHANGED <<pc, ctx, result, flight, expired, setting>>

ServerClose ==
    /\ server = "closing"
    /\ server' = "done"
    /\ UNCHANGED <<pc, ctx, result, flight, expired, setting>>

ServerNext == LastFlight \/ Accept \/ AcceptError \/ ServerClose

Expire ==
    /\ pc \in {"dial", "close", "join"} /\ ~expired
    /\ expired' = TRUE
    /\ UNCHANGED <<pc, ctx, result, server, flight, setting>>

\* run has returned; a server task may be left.
Returned == pc = "done" /\ UNCHANGED vars

Next == ClientNext \/ ServerNext \/ Expire \/ Returned

Spec == Init /\ [][Next]_vars

\* What the check's task does without the library's help.
Prompt == Skip \/ StartRemote \/ StartLoopback \/ ListenError \/ Join \/ Timeout

\* The check's task is polled and time passes.  The library, at either end,
\* owes nothing, unless the handshake works, in whatever time; then no
\* timeout is needed for the check to end.
FairSpec ==
    /\ Spec
    /\ WF_vars(Prompt) /\ WF_vars(faulty /\ Expire)
    /\ WF_vars(~faulty /\ ClientNext) /\ WF_vars(~faulty /\ ServerNext)

-----------------------------------------------------------------------------
(* Properties *)

TypeOK ==
    /\ pc \in {"start", "dial", "close", "join", "done"}
    /\ ctx \in ProbeContext
    /\ result.status \in {"none", "pass", "fail", "skip"}
    /\ (pc = "done") = (result.status # "none")
    /\ server \in {"none", "accepting", "closing", "done", "error"}
    /\ flight \in BOOLEAN /\ expired \in BOOLEAN

(* Pass is said of both ends: the peer has gone through the handshake, and *)
(* of the loopback's server task nothing is left running or went wrong.    *)
PassMeansBothEnds ==
    result.status = "pass" => flight /\ (mode = "loopback" => server = "done")

(* Whatever the peer, or the server task, does, there is an answer.        *)
Terminates == <>(pc = "done")

PassedInTime == faulty \/ expired \/ result.status \in {"pass", "skip"}

(* Client and server of the loopback do not wait for each other: where     *)
(* handshakes work the check passes, unless its time is over first.        *)
HealthyPasses == <>PassedInTime
=============================================================================
