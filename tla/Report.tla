------------------------------- MODULE Report -------------------------------
(***************************************************************************)
(* What a pipeline run reports: the status of one check, the verdict over  *)
(* a list of results and the exit code the process returns for it          *)
(* (probe-core/src/result.rs and the first half of pipeline.rs).  A result *)
(* keeps the fields a verdict or a dependency can tell apart:              *)
(*   id      the check that produced it,                                   *)
(*   status  CheckStatus,                                                  *)
(*   ran     whether the check's own `run` produced it; FALSE is the skip  *)
(*           the runner records for it, summary "prerequisite not          *)
(*           satisfied".                                                   *)
(* Names, latencies, summaries and details are left out.                   *)
(***************************************************************************)
EXTENDS Naturals, Sequences

CheckStatus == {"pass", "warn", "fail", "skip"}

CheckResult(Ids) == [id : Ids, status : CheckStatus, ran : BOOLEAN]

\* CheckResult::skip as the runner calls it.
PrerequisiteSkip(c) == [id |-> c, status |-> "skip", ran |-> FALSE]

HasStatus(rs, s) == \E i \in DOMAIN rs : rs[i].status = s

\* Mutant: the verdict forgets the failures.
VerdictNoFail(rs) ==
    IF HasStatus(rs, "warn") THEN "warnings" ELSE "healthy"

\* Report::verdict; a Skip counts as nothing.
Verdict(rs) ==
    IF HasStatus(rs, "fail") THEN "failed"
    ELSE IF HasStatus(rs, "warn") THEN "warnings" ELSE "healthy"

ExitCode(v) == [healthy |-> 0, failed |-> 1, warnings |-> 2][v]

\* How bad a verdict is, which is not the order of the exit codes.
Severity(v) == [healthy |-> 0, warnings |-> 1, failed |-> 2][v]
=============================================================================
