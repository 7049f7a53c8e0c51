------------------------------ MODULE DtlsServe ------------------------------
(***************************************************************************)
(* serve_forever (checks/dtls.rs): the accept loop of `dtls --serve`, its  *)
(* background closes, and the clients that probe it, each with a budget of *)
(* its own (DtlsCheck).  accept takes the next peer that has said hello    *)
(* and runs the whole handshake with it before it returns.  No timeout is  *)
(* put on it: a handshake may never end.                                   *)
(***************************************************************************)
EXTENDS Naturals, Sequences, FiniteSets

CONSTANT Clients   \* the probes, one handshake each

VARIABLES server,     \* "binding", "waiting", "handshaking", "failed"
          peer,       \* who is being handshaken with
          backlog,    \* peers that said hello and were not taken up, in order
          client,     \* "new", "trying", "connected", "gone"
          announced,  \* history: peers on_accept was called with, in order
          succeeded,  \* history: peers accept returned a connection with
          closing     \* peers whose connection a task is closing

vars == <<server, peer, backlog, client, announced, succeeded, closing>>

\* No client.
NoPeer == "none"

Init ==
    /\ server = "binding" /\ peer = NoPeer
    /\ backlog = <<>>
    /\ client = [c \in Clients |-> "new"]
    /\ announced = <<>> /\ succeeded = {} /\ closing = {}

-----------------------------------------------------------------------------
(* The server *)

\* Certificate, listen, addr.
Listen ==
    /\ server = "binding"
    /\ server' = "waiting"
    /\ UNCHANGED <<peer, backlog, client, announced, succeeded, closing>>

\* The only way it ever returns.
ListenError ==
    /\ server = "binding"
    /\ server' = "failed"
    /\ UNCHANGED <<peer, backlog, client, announced, succeeded, closing>>

\* accept: the next peer.
TakeUp ==
    /\ server = "waiting" /\ backlog # <<>>
    /\ server' = "handshaking"
    /\ peer' = Head(backlog)
    /\ backlog' = Tail(backlog)
    /\ UNCHANGED <<client, announced, succeeded, closing>>

Return(to) ==
    /\ server' = to
    /\ peer' = NoPeer
    /\ UNCHANGED backlog

\* accept returns Ok: on_accept, and a task that closes the connection.
\* Mutant: the connection is closed in the loop itself.
AcceptedInline ==
    /\ server = "handshaking" /\ client[peer] = "trying"
    /\ announced' = Append(announced, peer)
    /\ succeeded' = succeeded \cup {peer}
    /\ closing' = closing \cup {peer}
    /\ Return("closing")
    /\ UNCHANGED client

Accepted ==
    /\ server = "handshaking" /\ client[peer] = "trying"
    /\ announced' = Append(announced, peer)
    /\ succeeded' = succeeded \cup {peer}
    /\ closing' = closing \cup {peer}
    /\ Return("waiting")
    /\ UNCHANGED client

\* accept returns an error: a warning, and on.
\* Mutants: the error ends the loop; the peer is announced all the same.
AcceptErrorFatal ==
    /\ server = "handshaking"
    /\ Return("failed")
    /\ UNCHANGED <<client, announced, succeeded, closing>>

AcceptErrorAnnounced ==
    /\ server = "handshaking"
    /\ announced' = Append(announced, peer)
    /\ Return("waiting")
    /\ UNCHANGED <<client, succeeded, closing>>

AcceptError ==
    /\ server = "handshaking"
    /\ Return("waiting")
    /\ UNCHANGED <<client, announced, succeeded, closing>>

\* A background task is through with its close.
Closed ==
    /\ \E c \in closing : closing' = closing \ {c}
    /\ UNCHANGED <<server, peer, backlog, client, announced, succeeded>>

Serving == Listen \/ ListenError \/ TakeUp \/ Accepted \/ AcceptError

-----------------------------------------------------------------------------
(* The clients *)

Hello(c) ==
    /\ client[c] = "new" /\ server \notin {"binding", "failed"}
    /\ client' = [client EXCEPT ![c] = "trying"]
    /\ backlog' = Append(backlog, c)
    /\ UNCHANGED <<server, peer, announced, succeeded, closing>>

\* The server's last flight arrives.
Connect(c) ==
    /\ client[c] = "trying" /\ c \in succeeded
    /\ client' = [client EXCEPT ![c] = "connected"]
    /\ UNCHANGED <<server, peer, backlog, announced, succeeded, closing>>

\* Its budget is used up, in the backlog or within the handshake.
GiveUp(c) ==
    /\ client[c] = "trying"
    /\ client' = [client EXCEPT ![c] = "gone"]
    /\ UNCHANGED <<server, peer, backlog, announced, succeeded, closing>>

\* The process goes on until it is killed.
Idle == UNCHANGED vars

Next == \/ Serving \/ Closed
        \/ \E c \in Clients : Hello(c) \/ Connect(c) \/ GiveUp(c)
        \/ Idle

Spec == Init /\ [][Next]_vars

\* The loop is scheduled.  No handshake, no client and no close owes anything:
\* what `accept` has begun may last for ever.
Scheduled == Listen \/ ListenError \/ TakeUp
FairSpec == Spec /\ WF_vars(Scheduled)

-----------------------------------------------------------------------------
(* Properties *)

TypeOK ==
    /\ server \in {"binding", "waiting", "handshaking", "failed"}
    /\ peer \in Clients \cup {NoPeer}
    /\ (peer # NoPeer) = (server = "handshaking")
    /\ backlog \in Seq(Clients)
    /\ client \in [Clients -> {"new", "trying", "connected", "gone"}]
    /\ announced \in Seq(Clients)
    /\ succeeded \subseteq Clients /\ closing \subseteq succeeded

(* on_accept is called once for each successful handshake and for no       *)
(* other: no client's check passes that the server does not print, in the  *)
(* order it took them up.                                                  *)
AnnouncedOnce ==
    /\ \A j, k \in 1..Len(announced) : announced[j] = announced[k] => j = k
    /\ {announced[k] : k \in 1..Len(announced)} = succeeded
    /\ \A c \in Clients : client[c] = "connected" => c \in succeeded

Waits(c) == \E k \in 1..Len(backlog) : backlog[k] = c

(* Neither a handshake that fails nor a connection that is slow to close   *)
(* stops the loop: if no handshake lasts for ever, everybody who says      *)
(* hello is taken up.  One that does last holds up all behind it.          *)
HandshakesEnd == []<>(server # "handshaking")
EverybodyIsTakenUp ==
    HandshakesEnd => \A c \in Clients : Waits(c) ~> peer = c
=============================================================================
