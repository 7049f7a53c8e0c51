------------------------------ MODULE Pipeline ------------------------------
(***************************************************************************)
(* The runner of probe-core/src/pipeline.rs.  A pipeline is built by       *)
(* pushing checks and then run once: the loop takes the checks in order,   *)
(* skips one whose prerequisites did not pass and runs the others.  What a *)
(* check answers is left open here (any status, its own Skip included);    *)
(* the modules of the single checks narrow it.                             *)
(*                                                                         *)
(* Pipelines are built in any order, with repetitions and with missing     *)
(* prerequisites, because nothing in `push` forbids it.                    *)
(***************************************************************************)
EXTENDS Report

CONSTANTS Ids,        \* check identifiers
          Requires,   \* Check::requires of each identifier
          MaxChecks   \* bound: longest pipeline that is built

ASSUME RequiresAssumption == Requires \in [Ids -> SUBSET Ids]
ASSUME MaxChecksAssumption == MaxChecks \in Nat

VARIABLES checks,     \* Pipeline::checks
          running,    \* whether `run` has been called
          passed,     \* ids of the checks that passed
          results     \* results pushed so far

vars == <<checks, running, passed, results>>

Init == /\ checks = <<>>
        /\ running = FALSE
        /\ passed = {}
        /\ results = <<>>

-----------------------------------------------------------------------------
Push(c) ==
    /\ ~running
    /\ Len(checks) < MaxChecks
    /\ checks' = Append(checks, c)
    /\ UNCHANGED <<running, passed, results>>

Start ==
    /\ ~running
    /\ running' = TRUE
    /\ UNCHANGED <<checks, passed, results>>

\* The check the loop is at, while there is one.
Busy == running /\ Len(results) < Len(checks)
Current == checks[Len(results) + 1]

\* Mutant: a declared prerequisite counts as met when any one of them is.
MissingAny(c) == IF Requires[c] \cap passed # {} THEN {} ELSE Requires[c]

Missing(c) == Requires[c] \ passed

\* The end of the loop body: insert into `passed`, push the result.
\* Mutant: everything that did not fail counts as passed.
RecordUnlessFail(r) ==
    /\ results' = Append(results, r)
    /\ passed' = IF r.status # "fail" THEN passed \cup {r.id} ELSE passed
    /\ UNCHANGED <<checks, running>>

\* Mutant: a branch pushes its result and the end of the loop pushes it again.
RecordTwice(r) ==
    /\ results' = results \o <<r, r>>
    /\ passed' = IF r.status = "pass" THEN passed \cup {r.id} ELSE passed
    /\ UNCHANGED <<checks, running>>

\* Mutant: only the latest check that passed is remembered.
RecordLatest(r) ==
    /\ results' = Append(results, r)
    /\ passed' = IF r.status = "pass" THEN {r.id} ELSE passed
    /\ UNCHANGED <<checks, running>>

Record(r) ==
    /\ results' = Append(results, r)
    /\ passed' = IF r.status = "pass" THEN passed \cup {r.id} ELSE passed
    /\ UNCHANGED <<checks, running>>

RunCheck(s) ==
    /\ Busy
    /\ Missing(Current) = {}
    /\ Record([id |-> Current, status |-> s, ran |-> TRUE])

SkipCheck ==
    /\ Busy
    /\ Missing(Current) # {}
    /\ Record(PrerequisiteSkip(Current))

Finished == running /\ Len(results) = Len(checks)

\* `run` has returned its report.
Returned == Finished /\ UNCHANGED vars

Next == \/ \E c \in Ids : Push(c)
        \/ Start
        \/ \E s \in CheckStatus : RunCheck(s)
        \/ SkipCheck
        \/ Returned

Spec == Init /\ [][Next]_vars

-----------------------------------------------------------------------------
(* Properties *)

TypeOK ==
    /\ checks \in Seq(Ids)
    /\ running \in BOOLEAN
    /\ passed \in SUBSET Ids
    /\ results \in Seq(CheckResult(Ids))
    /\ Len(results) <= Len(checks)
    /\ running \/ results = <<>>

\* Everything a check needs, directly or through others: the least set that
\* holds its requirements and the requirements of its members.
ClosedUnderRequires(X) == \A x \in X : Requires[x] \subseteq X

Prerequisites(c) ==
    {a \in Ids : \A X \in SUBSET Ids :
        Requires[c] \subseteq X /\ ClosedUnderRequires(X) => a \in X}

Passes(rs, i, a) == rs[i].id = a /\ rs[i].status = "pass"

(* A check is only ever run when everything it depends on, however far     *)
(* back, has passed earlier in this run: "a failed DNS resolution cascades *)
(* cleanly".  The code only looks at the direct requirements of a check    *)
(* (pipeline.rs:125-130); that this is enough is what is stated here.      *)
Cascade ==
    \A i \in DOMAIN results : results[i].ran =>
        \A a \in Prerequisites(results[i].id) :
            \E j \in 1..(i - 1) : Passes(results, j, a)

\* Every requirement is pushed before the check that declares it, as the
\* command line builds every one of its pipelines.
WellOrdered ==
    \A i \in DOMAIN checks : \A d \in Requires[checks[i]] :
        \E j \in 1..(i - 1) : checks[j] = d

(* In a well-ordered pipeline a skip the runner records has its cause in   *)
(* the report: an earlier prerequisite that did run and did not pass.  A   *)
(* reader of the report can always find what to fix.                       *)
RootCause ==
    running /\ WellOrdered =>
        \A i \in DOMAIN results : ~results[i].ran =>
            \E j \in 1..(i - 1) : /\ results[j].ran
                                  /\ results[j].status # "pass"
                                  /\ results[j].id \in Prerequisites(results[i].id)

(* The exit code 0 of a well-ordered pipeline hides nothing but skips that *)
(* a check chose by itself: whatever did not pass is such a check or       *)
(* depends on one (pipeline.rs:63-77 counts a Skip as nothing).            *)
HealthyHidesOnlyOwnSkips ==
    (Finished /\ WellOrdered /\ ExitCode(Verdict(results)) = 0) =>
        \A i \in DOMAIN results : results[i].status # "pass" =>
            \E j \in 1..i : /\ results[j].ran
                            /\ results[j].status = "skip"
                            /\ \/ j = i
                               \/ results[j].id \in Prerequisites(results[i].id)

(* What the runner goes by is what it reports: the set it tests            *)
(* prerequisites against is the set of the checks reported as passed, and  *)
(* that set is closed under requirements.                                  *)
PassedIsReported ==
    /\ passed = {a \in Ids : \E i \in DOMAIN results : Passes(results, i, a)}
    /\ ClosedUnderRequires(passed)
=============================================================================
