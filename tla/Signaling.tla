------------------------------ MODULE Signaling ------------------------------
(***************************************************************************)
(* SignalingCheck::run, probe-core/src/checks/signaling.rs: a WebSocket    *)
(* upgrade under a timeout, with an Authorization header if there is one,  *)
(* and a close frame without.  The WebSocket library and the endpoint are  *)
(* not part of the repository: connect_async sends the request once the    *)
(* transport stands and ends with a 101 or an error; ws.close writes a     *)
(* frame and does not wait for the peer's.                                 *)
(***************************************************************************)
EXTENDS Context

VARIABLES pc,        \* "start", "connect", "close", "done"
          ctx,       \* the ProbeContext
          result,    \* status, why, and whether it says "auth OK"
          url,       \* the URL makes a request
          auth,      \* "none", "valid", or "invalid" as a header value
          request,   \* the upgrade request's header: "none" before it is sent
          answer,    \* the endpoint's: "none", "101", "refusal"
          endpoint,  \* does it ask for authorization
          peerClose, \* the peer's close frame, or its end of the connection
          expired    \* the connect timeout has passed

vars == <<pc, ctx, result, url, auth, request, answer, endpoint, peerClose, expired>>

wire == <<request, answer, endpoint, peerClose>>

Init ==
    /\ pc = "start"
    /\ \E host, port, ips \in BOOLEAN :
          ctx = [NewContext(host, port, FALSE, FALSE) EXCEPT !.ips = ips]
    /\ result = [status |-> "none", why |-> "running", authOk |-> FALSE]
    /\ url \in BOOLEAN /\ auth \in {"none", "valid", "invalid"}
    /\ request = "none" /\ answer = "none"
    /\ endpoint \in {"open", "gated"}
    /\ peerClose = FALSE /\ expired = FALSE

-----------------------------------------------------------------------------
(* The check *)

Return(status, why, authOk) ==
    /\ pc' = "done"
    /\ result' = [status |-> status, why |-> why, authOk |-> authOk]
    /\ UNCHANGED <<ctx, url, auth>>

InvalidUrl ==
    /\ pc = "start" /\ ~url
    /\ Return("fail", "url", FALSE)
    /\ UNCHANGED <<wire, expired>>

InvalidHeader ==
    /\ pc = "start" /\ url /\ auth = "invalid"
    /\ Return("fail", "header", FALSE)
    /\ UNCHANGED <<wire, expired>>

\* connect_async, which resolves the name, connects and sends the request.
\* Mutant: an invalid header value is left out.
ConnectDropsInvalid ==
    /\ pc = "start" /\ url
    /\ pc' = "connect"
    /\ UNCHANGED <<ctx, result, url, auth, wire, expired>>

Connect ==
    /\ pc = "start" /\ url /\ auth # "invalid"
    /\ pc' = "connect"
    /\ UNCHANGED <<ctx, result, url, auth, wire, expired>>

Request ==
    /\ pc = "connect" /\ request = "none"
    /\ request' = IF auth = "valid" THEN "authorized" ELSE "plain"
    /\ UNCHANGED <<pc, ctx, result, url, auth, answer, endpoint, peerClose, expired>>

Upgraded ==
    /\ pc = "connect" /\ answer = "101"
    /\ pc' = "close"
    /\ UNCHANGED <<ctx, result, url, auth, wire, expired>>

\* Name, transport, TLS, or an answer that is no 101.
ConnectError ==
    /\ pc = "connect"
    /\ Return("fail", "handshake", FALSE)
    /\ UNCHANGED <<wire, expired>>

Timeout ==
    /\ pc = "connect" /\ expired
    /\ Return("fail", "timeout", FALSE)
    /\ UNCHANGED <<wire, expired>>

\* ws.close, whatever comes of it.
\* Mutants: the closing handshake is waited for; an error of it counts.
CloseWithPeer ==
    /\ pc = "close" /\ peerClose
    /\ Return("pass", "connected", auth # "none")
    /\ UNCHANGED <<wire, expired>>

CloseCounts ==
    /\ pc = "close"
    /\ IF peerClose THEN Return("warn", "closed", auth # "none")
                    ELSE Return("pass", "connected", auth # "none")
    /\ UNCHANGED <<wire, expired>>

Close ==
    /\ pc = "close"
    /\ Return("pass", "connected", auth # "none")
    /\ UNCHANGED <<wire, expired>>

-----------------------------------------------------------------------------
(* The endpoint *)

\* A gated endpoint wants an Authorization header; it may refuse any request,
\* or none at all.
Answer101 ==
    /\ request # "none" /\ answer = "none"
    /\ endpoint = "gated" => request = "authorized"
    /\ answer' = "101"
    /\ UNCHANGED <<pc, ctx, result, url, auth, request, endpoint, peerClose, expired>>

Refuse ==
    /\ request # "none" /\ answer = "none"
    /\ answer' = "refusal"
    /\ UNCHANGED <<pc, ctx, result, url, auth, request, endpoint, peerClose, expired>>

HangUp ==
    /\ answer # "none" /\ ~peerClose
    /\ peerClose' = TRUE
    /\ UNCHANGED <<pc, ctx, result, url, auth, request, answer, endpoint, expired>>

Expire ==
    /\ pc = "connect" /\ ~expired
    /\ expired' = TRUE
    /\ UNCHANGED <<pc, ctx, result, url, auth, wire>>

Returned == pc = "done" /\ UNCHANGED vars

Next == \/ InvalidUrl \/ InvalidHeader \/ Connect \/ Request \/ Upgraded
        \/ ConnectError \/ Timeout \/ Close
        \/ Answer101 \/ Refuse \/ HangUp \/ Expire
        \/ Returned

Spec == Init /\ [][Next]_vars

\* Time passes, and a frame can be written into an open connection; the
\* endpoint owes nothing.
Prompt == InvalidUrl \/ InvalidHeader \/ Connect \/ Timeout \/ Close

FairSpec == Spec /\ WF_vars(Prompt) /\ WF_vars(Expire)

-----------------------------------------------------------------------------
(* Properties *)

TypeOK ==
    /\ pc \in {"start", "connect", "close", "done"}
    /\ ctx \in ProbeContext
    /\ result.status \in {"none", "pass", "fail"}
    /\ (pc = "done") = (result.status # "none")
    /\ request \in {"none", "plain", "authorized"}
    /\ answer \in {"none", "101", "refusal"}

(* A Pass is an upgrade, and "auth OK" is only said when this very request *)
(* carried the header: an endpoint that asks for one has accepted it.      *)
AuthOkIsMeant ==
    result.status = "pass" =>
        /\ answer = "101"
        /\ result.authOk = (request = "authorized")
        /\ endpoint = "gated" => result.authOk

Contract == INSTANCE AtomicCheck WITH Outcomes <- SignalingOutcomes, status <- result.status

(* Seen from the runner, one step that answers and leaves the context.     *)
ImplementsContract == Contract!Spec

(* An endpoint that stays silent, at the upgrade or at the close, does not *)
(* keep the check: the timeout ends the first, and the second waits for    *)
(* nobody.                                                                 *)
Terminates == <>(pc = "done")
=============================================================================
