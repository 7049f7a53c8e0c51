----------------------------- MODULE MCTurnEcho -----------------------------
(* One relay address and one nonce: the echo only passes them on.          *)
EXTENDS TurnEcho

MCNonces == {1}
=============================================================================
