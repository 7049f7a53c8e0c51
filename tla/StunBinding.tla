----------------------------- MODULE StunBinding -----------------------------
(***************************************************************************)
(* StunBindingCheck::run, probe-core/src/checks/stun.rs: one Binding       *)
(* request over a fresh UDP socket and the first datagram that comes back, *)
(* from whomever.  The server answers with the address it sees, which a    *)
(* NAT in between may change at any time; the network loses, repeats,      *)
(* delays and reorders.  Server, NAT and network are not part of the       *)
(* repository.                                                             *)
(***************************************************************************)
EXTENDS Context, FiniteSets

VARIABLES pc,        \* "start", "recv", "done"
          ctx,       \* the ProbeContext
          result,    \* status and why
          requests,  \* Binding requests on their way
          datagrams, \* on their way to the socket
          mapping,   \* the NAT's address for the socket
          seen,      \* history: addresses the server saw requests from
          expired    \* the timeout has passed

vars == <<pc, ctx, result, requests, datagrams, mapping, seen, expired>>

\* Binding responses and what is none; `tx` says whether the id is ours.
Datagram == [type : {"success", "error", "no_address", "garbage"}, tx : BOOLEAN,
             addr : Addrs \cup {NoAddr}]

Init ==
    /\ pc = "start"
    /\ \E host, port, ips \in BOOLEAN :
          ctx = [NewContext(host, port, FALSE, FALSE) EXCEPT !.ips = ips]
    /\ result = [status |-> "none", why |-> "running"]
    /\ requests = {} /\ datagrams = {}
    /\ mapping \in Addrs
    /\ seen = {} /\ expired = FALSE

-----------------------------------------------------------------------------
(* The check *)

Return(status, why) ==
    /\ pc' = "done"
    /\ result' = [status |-> status, why |-> why]

Skip ==
    /\ pc = "start" /\ ~HasTarget(ctx)
    /\ Return("skip", "no target")
    /\ UNCHANGED <<ctx, requests, datagrams, mapping, seen, expired>>

\* bind or send_to.
LocalError ==
    /\ pc = "start" /\ HasTarget(ctx)
    /\ \E why \in {"bind", "send"} : Return("fail", why)
    /\ UNCHANGED <<ctx, requests, datagrams, mapping, seen, expired>>

Send ==
    /\ pc = "start" /\ HasTarget(ctx)
    /\ pc' = "recv"
    /\ requests' = {"binding"}
    /\ UNCHANGED <<ctx, result, datagrams, mapping, seen, expired>>

\* An ICMP error of an earlier datagram.
RecvError ==
    /\ pc = "recv"
    /\ Return("fail", "recv")
    /\ UNCHANGED <<ctx, requests, datagrams, mapping, seen, expired>>

\* parse_binding_response: the address, or none.
\* Mutant: any success response will do.
SrflxOfAnybody(d) == IF d.type = "success" THEN d.addr ELSE NoAddr

Srflx(d) == IF d.type = "success" /\ d.tx THEN d.addr ELSE NoAddr

\* recv_from: the first datagram decides; it may be there again.
\* Mutants: a bad one passes with what is known; it is passed over, with the
\* timeout begun anew.
RecvNoVerdict ==
    /\ pc = "recv"
    /\ \E d \in datagrams :
          /\ IF Srflx(d) # NoAddr
             THEN /\ Return("pass", "srflx")
                  /\ ctx' = [ctx EXCEPT !.srflx = Srflx(d)]
             ELSE UNCHANGED <<pc, result, ctx>>
          /\ datagrams' \in {datagrams, datagrams \ {d}}
    /\ expired' = FALSE
    /\ UNCHANGED <<requests, mapping, seen>>

RecvKeepsBad ==
    /\ pc = "recv"
    /\ \E d \in datagrams :
          /\ ctx' = [ctx EXCEPT !.srflx = IF d.type = "success" THEN d.addr ELSE @]
          /\ IF Srflx(d) # NoAddr THEN Return("pass", "srflx") ELSE Return("fail", "bad response")
          /\ datagrams' \in {datagrams, datagrams \ {d}}
    /\ UNCHANGED <<requests, mapping, seen, expired>>

Recv ==
    /\ pc = "recv"
    /\ \E d \in datagrams :
          /\ IF Srflx(d) # NoAddr
             THEN /\ Return("pass", "srflx")
                  /\ ctx' = [ctx EXCEPT !.srflx = Srflx(d)]
             ELSE /\ Return("fail", "bad response")
                  /\ UNCHANGED ctx
          /\ datagrams' \in {datagrams, datagrams \ {d}}
    /\ UNCHANGED <<requests, mapping, seen, expired>>

\* Mutant: the arm does not return.
TimeoutGoesOn ==
    /\ pc = "recv" /\ expired
    /\ result' = [status |-> "fail", why |-> "no response"]
    /\ UNCHANGED <<pc, ctx, requests, datagrams, mapping, seen, expired>>

Timeout ==
    /\ pc = "recv" /\ expired
    /\ Return("fail", "no response")
    /\ UNCHANGED <<ctx, requests, datagrams, mapping, seen, expired>>

Check == Skip \/ LocalError \/ Send \/ RecvError \/ Recv \/ Timeout

-----------------------------------------------------------------------------
(* Server, NAT and network *)

\* The request arrives, possibly not for the last time.
Serve ==
    /\ requests # {}
    /\ seen' = seen \cup {mapping}
    /\ \/ datagrams' = datagrams \cup {[type |-> "success", tx |-> TRUE, addr |-> mapping]}
       \/ \E type \in {"error", "no_address", "garbage"} :
             datagrams' = datagrams \cup {[type |-> type, tx |-> TRUE, addr |-> NoAddr]}
    /\ requests' \in {requests, {}}
    /\ UNCHANGED <<pc, ctx, result, mapping, expired>>

Lose ==
    /\ \/ requests # {} /\ requests' = {} /\ UNCHANGED datagrams
       \/ \E d \in datagrams : datagrams' = datagrams \ {d} /\ UNCHANGED requests
    /\ UNCHANGED <<pc, ctx, result, mapping, seen, expired>>

\* Something that was never asked for, a response to somebody else's request
\* included.
Stray ==
    /\ pc = "recv"
    /\ \E a \in Addrs : \E d \in {[type |-> "success", tx |-> FALSE, addr |-> a],
                                  [type |-> "garbage", tx |-> FALSE, addr |-> NoAddr]} :
          datagrams' = datagrams \cup {d}
    /\ UNCHANGED <<pc, ctx, result, requests, mapping, seen, expired>>

Rebind ==
    /\ mapping' \in Addrs
    /\ UNCHANGED <<pc, ctx, result, requests, datagrams, seen, expired>>

Expire ==
    /\ pc = "recv" /\ ~expired
    /\ expired' = TRUE
    /\ UNCHANGED <<pc, ctx, result, requests, datagrams, mapping, seen>>

World == Serve \/ Lose \/ Stray \/ Rebind \/ Expire

Returned == pc = "done" /\ UNCHANGED vars

Next == Check \/ World \/ Returned

Spec == Init /\ [][Next]_vars

\* The check is polled and time passes; no answer is owed.
Prompt == Skip \/ Send \/ Timeout

FairSpec == Spec /\ WF_vars(Prompt) /\ WF_vars(Expire)

-----------------------------------------------------------------------------
(* Properties *)

TypeOK ==
    /\ pc \in {"start", "recv", "done"}
    /\ ctx \in ProbeContext
    /\ (pc = "done") = (result.status # "none")
    /\ requests \subseteq {"binding"}
    /\ datagrams \subseteq Datagram
    /\ mapping \in Addrs /\ seen \subseteq Addrs
    /\ expired \in BOOLEAN

(* The address reported is one the server saw this socket under, and there *)
(* is none in the context unless the check passed.                         *)
SrflxWasSeen ==
    /\ result.status = "pass" => ctx.srflx \in seen
    /\ result.status # "pass" => ctx.srflx = NoAddr

Contract == INSTANCE AtomicCheck WITH Outcomes <- StunOutcomes, status <- result.status

(* Seen from the runner, one step from a context to one of the contract's  *)
(* answers.                                                                *)
ImplementsContract == Contract!Spec

(* The check answers, though nothing may ever come and anything may.       *)
Terminates == <>(pc = "done")
=============================================================================
