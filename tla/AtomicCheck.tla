----------------------------- MODULE AtomicCheck -----------------------------
(***************************************************************************)
(* What the runner is promised by any check (trait Check, check.rs:76-94): *)
(* `run` answers once, with one of the outcomes its contract lists for the *)
(* context it was given, and changes the context at that moment and in     *)
(* that way only.                                                          *)
(***************************************************************************)
EXTENDS Context

CONSTANT Outcomes(_)   \* the contract: answers possible in a context

VARIABLES status,      \* "none" while `run` is pending
          ctx

Init == status = "none" /\ ctx \in ProbeContext

Run == /\ status = "none"
       /\ \E a \in Outcomes(ctx) : status' = a.status /\ ctx' = a.ctx

Spec == Init /\ [][Run]_<<status, ctx>>
=============================================================================
