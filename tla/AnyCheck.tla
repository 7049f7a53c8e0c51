------------------------------- MODULE AnyCheck -------------------------------
(***************************************************************************)
(* AtomicCheck for a check that is not known beforehand: the runner holds  *)
(* a Box<dyn Check> (trait Check, check.rs:76-94) and is promised one      *)
(* answer out of the contract of whichever check it is.                    *)
(***************************************************************************)
EXTENDS Context

CONSTANT Outcomes(_, _)   \* the contract: answers of a check in a context

VARIABLES check,    \* which it is
          status,   \* "none" while `run` is pending
          ctx

Init == status = "none" /\ ctx \in ProbeContext

Run == /\ status = "none"
       /\ \E a \in Outcomes(check, ctx) : status' = a.status /\ ctx' = a.ctx
       /\ UNCHANGED check

Spec == Init /\ [][Run]_<<check, status, ctx>>
=============================================================================
