------------------------------- MODULE Channel -------------------------------
(***************************************************************************)
(* What the length prefix is for (turns_alloc.rs, module comment): on top  *)
(* of a byte stream, whole messages come out as they went in, in order,    *)
(* none lost, none twice, none cut.                                        *)
(***************************************************************************)
EXTENDS Naturals, Sequences

CONSTANT Messages

VARIABLES sent, received

Init == sent = <<>> /\ received = <<>>

Send == /\ \E m \in Messages : sent' = Append(sent, m)
        /\ UNCHANGED received

Receive == /\ Len(received) < Len(sent)
           /\ received' = Append(received, sent[Len(received) + 1])
           /\ UNCHANGED sent

Spec == Init /\ [][Send \/ Receive]_<<sent, received>>
=============================================================================
