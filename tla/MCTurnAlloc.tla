---------------------------- MODULE MCTurnAlloc ----------------------------
(* Two relay addresses, two nonces, stray datagrams or none.               *)
EXTENDS TurnAlloc

MCNonces == 1..MaxNonce

OneStray == {[type |-> "garbled", tx |-> 0, relayed |-> NoAddr, nonce |-> 0]}
NoStrays == {}
=============================================================================
