----------------------------- MODULE TurnServer -----------------------------
(***************************************************************************)
(* The far end of a TURN check over UDP: a TURN server and the network to  *)
(* it, as far as the client's requests reach.  Neither is part of the      *)
(* repository; they are modelled from what the client has to cope with.    *)
(*                                                                         *)
(* `requests` and `replies` only grow: a datagram may be handled never,    *)
(* once or several times, at any later moment and in any order, which is   *)
(* what loss, duplication, delay and reordering on a UDP path come to.     *)
(* The server keeps one allocation for the client's 5-tuple, repeats its   *)
(* answer to a retransmitted request and refuses a second one.             *)
(***************************************************************************)
EXTENDS Context

CONSTANTS MaxNonce   \* bound: how many nonces the server goes through

ASSUME MaxNonceAssumption == MaxNonce \in Nat \ {0} /\ Nonces = 1..MaxNonce

VARIABLES requests,    \* datagrams the client has sent
          replies,     \* datagrams sent to the client's socket
          allocation,  \* the server's state for the client's 5-tuple
          nonce,       \* the nonce the server accepts now
          rejected,    \* history: transactions refused for their credentials
          anonymous,   \* whether the server allocates without credentials
          credsValid   \* whether it knows the credentials the client has

serverVars == <<replies, allocation, nonce, rejected, anonymous, credsValid>>

\* How a request or an allocation was authenticated.
Auth == {"none", "long-term"}

Request == [tx : Nat, auth : Auth, nonce : Nonces \cup {0}]

Reply == [type : {"success", "unauthorized", "error", "garbled"}, tx : Nat,
          relayed : Addrs \cup {NoAddr}, nonce : Nonces \cup {0}]

Allocation == [tx : Nat, relayed : Addrs \cup {NoAddr}, auth : Auth]
NoAllocation == [tx |-> 0, relayed |-> NoAddr, auth |-> "none"]

ServerTypeOK ==
    /\ requests \in SUBSET Request
    /\ replies \in SUBSET Reply
    /\ allocation \in Allocation
    /\ nonce \in Nonces
    /\ rejected \in SUBSET Nat
    /\ anonymous \in BOOLEAN
    /\ credsValid \in BOOLEAN

ServerInit ==
    /\ requests = {}
    /\ replies = {}
    /\ allocation = NoAllocation
    /\ nonce = 1
    /\ rejected = {}
    /\ anonymous \in BOOLEAN
    /\ credsValid \in BOOLEAN

-----------------------------------------------------------------------------
Send(type, tx, relayed, n) ==
    replies' = replies \cup {[type |-> type, tx |-> tx, relayed |-> relayed, nonce |-> n]}

Steady == UNCHANGED <<requests, anonymous, credsValid>>

\* The answer to a request the server already granted, sent again.
Repeat(m) ==
    /\ allocation.tx = m.tx
    /\ Send("success", m.tx, allocation.relayed, 0)
    /\ UNCHANGED <<allocation, nonce, rejected>> /\ Steady

\* 437 for another request on an allocated 5-tuple; 403, 438, 486, 508 and
\* so on for one it will not grant.
Refuse(m) ==
    /\ allocation.tx # m.tx
    /\ Send("error", m.tx, NoAddr, 0)
    /\ UNCHANGED <<allocation, nonce, rejected>> /\ Steady

Demands(m) == IF m.auth = "long-term" THEN ~credsValid ELSE ~anonymous

Challenge(m) ==
    /\ allocation = NoAllocation
    /\ Demands(m)
    /\ Send("unauthorized", m.tx, NoAddr, nonce)
    /\ rejected' = IF m.auth = "long-term" THEN rejected \cup {m.tx} ELSE rejected
    /\ UNCHANGED <<allocation, nonce>> /\ Steady

Grant(m) ==
    /\ allocation = NoAllocation
    /\ ~Demands(m)
    /\ m.auth = "long-term" => m.nonce = nonce
    /\ \E r \in Addrs :
        /\ allocation' = [tx |-> m.tx, relayed |-> r, auth |-> m.auth]
        /\ Send("success", m.tx, r, 0)
    /\ UNCHANGED <<nonce, rejected>> /\ Steady

\* A response the client's parser refuses: an attribute missing, a wrong type.
Garble(m) ==
    /\ Send("garbled", m.tx, NoAddr, 0)
    /\ UNCHANGED <<allocation, nonce, rejected>> /\ Steady

RotateNonce ==
    /\ nonce < MaxNonce
    /\ nonce' = nonce + 1
    /\ UNCHANGED <<requests, replies, allocation, rejected, anonymous, credsValid>>

ServerNext ==
    \/ \E m \in requests : Repeat(m) \/ Refuse(m) \/ Challenge(m) \/ Grant(m) \/ Garble(m)
    \/ RotateNonce
=============================================================================
