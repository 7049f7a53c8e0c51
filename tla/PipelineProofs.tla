--------------------------- MODULE PipelineProofs ---------------------------
(***************************************************************************)
(* Theorems about every pipeline: any identifiers, any requirements (even  *)
(* circular ones), any length, any outcome of any check.                   *)
(***************************************************************************)
EXTENDS Pipeline, TLAPS

-----------------------------------------------------------------------------
(* Requirements *)

\* What a check requires directly is among its prerequisites.
LEMMA DirectIsPrerequisite ==
    ASSUME NEW c \in Ids
    PROVE  Requires[c] \subseteq Prerequisites(c)
BY RequiresAssumption DEF Prerequisites

\* The prerequisites of a requirement are prerequisites too.
LEMMA PrerequisitesTransitive ==
    ASSUME NEW c \in Ids, NEW d \in Requires[c]
    PROVE  Prerequisites(d) \subseteq Prerequisites(c)
<1> SUFFICES ASSUME NEW a \in Prerequisites(d), NEW X \in SUBSET Ids,
                    Requires[c] \subseteq X, ClosedUnderRequires(X)
             PROVE  a \in X
    BY DEF Prerequisites
<1>1. Requires[d] \subseteq X
    BY DEF ClosedUnderRequires
<1> QED
    BY <1>1 DEF Prerequisites

\* A closed set that holds the direct requirements holds all prerequisites.
LEMMA ClosedHoldsPrerequisites ==
    ASSUME NEW c \in Ids, NEW X \in SUBSET Ids,
           Requires[c] \subseteq X, ClosedUnderRequires(X)
    PROVE  Prerequisites(c) \subseteq X
BY DEF Prerequisites

-----------------------------------------------------------------------------
(* The inductive invariant.  Results are those of a prefix of `checks`, in *)
(* order; and `passed` is what the results say and is closed, which is why *)
(* looking at direct requirements is enough.                               *)

ResultsFollowChecks ==
    \A i \in DOMAIN results : results[i].id = checks[i]

IInv == /\ TypeOK
        /\ ResultsFollowChecks
        /\ PassedIsReported
        /\ Cascade
        /\ RootCause

LEMMA InitIInv == Init => IInv
<1> SUFFICES ASSUME Init PROVE IInv
    OBVIOUS
<1>1. DOMAIN results = {} /\ passed = {}
    BY DEF Init
<1>2. TypeOK
    <2>1. checks \in Seq(Ids) /\ results \in Seq(CheckResult(Ids))
        BY DEF Init
    <2>2. Len(results) <= Len(checks)
        BY DEF Init
    <2>3. running \in BOOLEAN /\ passed \in SUBSET Ids /\ results = <<>>
        BY DEF Init
    <2> QED
        BY <2>1, <2>2, <2>3 DEF TypeOK
<1>3. PassedIsReported
    BY <1>1 DEF PassedIsReported, ClosedUnderRequires
<1>4. ResultsFollowChecks /\ Cascade /\ RootCause
    BY <1>1 DEF ResultsFollowChecks, Cascade, RootCause
<1> QED
    BY <1>2, <1>3, <1>4 DEF IInv

\* The shape of one turn of the loop.
LEMMA RecordShape ==
    ASSUME IInv, Busy, NEW r \in CheckResult(Ids), r.id = Current, Record(r),
           r.status = "pass" => Missing(Current) = {}
    PROVE  /\ TypeOK'
           /\ ResultsFollowChecks'
           /\ Len(results') = Len(results) + 1
           /\ results'[Len(results) + 1] = r
           /\ \A i \in DOMAIN results : results'[i] = results[i]
           /\ DOMAIN results' = DOMAIN results \cup {Len(results) + 1}
           /\ Current \in Ids
<1>1. /\ Len(results) \in Nat
      /\ Len(checks) \in Nat
      /\ Len(results) + 1 \in DOMAIN checks
      /\ Len(results) + 1 <= Len(checks)
    BY DEF IInv, TypeOK, Busy
<1>2. Current \in Ids
    BY <1>1 DEF IInv, TypeOK, Current
<1>3. /\ results' \in Seq(CheckResult(Ids))
      /\ Len(results') = Len(results) + 1
      /\ results'[Len(results) + 1] = r
      /\ \A i \in DOMAIN results : results'[i] = results[i]
      /\ DOMAIN results' = DOMAIN results \cup {Len(results) + 1}
    BY <1>1 DEF IInv, TypeOK, Record
<1>4. TypeOK'
    BY <1>1, <1>2, <1>3 DEF IInv, TypeOK, Record, Busy
<1>5. ResultsFollowChecks'
    BY <1>3 DEF IInv, ResultsFollowChecks, Record, Current
<1> QED
    BY <1>2, <1>3, <1>4, <1>5

\* A turn of the loop keeps `passed` in step with the results.
LEMMA RecordPassed ==
    ASSUME IInv, Busy, NEW r \in CheckResult(Ids), r.id = Current, Record(r),
           r.status = "pass" => Missing(Current) = {}
    PROVE  PassedIsReported'
<1>1. /\ \A i \in DOMAIN results : results'[i] = results[i]
      /\ DOMAIN results' = DOMAIN results \cup {Len(results) + 1}
      /\ results'[Len(results) + 1] = r
      /\ Current \in Ids
    BY RecordShape
<1>2. (passed = {a \in Ids : \E i \in DOMAIN results : Passes(results, i, a)})'
    <2>1. ASSUME NEW a \in Ids
          PROVE  (\E i \in DOMAIN results' : Passes(results', i, a))
                    <=> \/ \E i \in DOMAIN results : Passes(results, i, a)
                        \/ r.id = a /\ r.status = "pass"
        BY <1>1 DEF Passes
    <2>2. passed = {a \in Ids : \E i \in DOMAIN results : Passes(results, i, a)}
        BY DEF IInv, PassedIsReported
    <2> QED
        BY <1>1, <2>1, <2>2 DEF Record
<1>3. ClosedUnderRequires(passed)'
    BY DEF IInv, PassedIsReported, ClosedUnderRequires, Record, Missing
<1> QED
    BY <1>2, <1>3 DEF PassedIsReported

\* A result that was run keeps its prerequisites before it.
LEMMA RecordCascade ==
    ASSUME IInv, Busy, NEW r \in CheckResult(Ids), r.id = Current, Record(r),
           r.ran \/ r.status = "pass" => Missing(Current) = {}
    PROVE  Cascade'
<1> SUFFICES ASSUME NEW i \in DOMAIN results', results'[i].ran,
                    NEW a \in Prerequisites(results'[i].id)
             PROVE  \E j \in 1..(i - 1) : Passes(results', j, a)
    BY DEF Cascade
<1>1. /\ \A k \in DOMAIN results : results'[k] = results[k]
      /\ DOMAIN results' = DOMAIN results \cup {Len(results) + 1}
      /\ results'[Len(results) + 1] = r
      /\ Current \in Ids
    BY RecordShape
<1>2. /\ Len(results) \in Nat
      /\ DOMAIN results = 1..Len(results)
    BY DEF IInv, TypeOK
<1>3. CASE i \in DOMAIN results
    <2>1. \E j \in 1..(i - 1) : Passes(results, j, a)
        BY <1>1, <1>3 DEF IInv, Cascade
    <2> QED
        BY <1>1, <1>2, <1>3, <2>1 DEF Passes
<1>4. CASE i = Len(results) + 1
    <2>1. Missing(Current) = {} /\ a \in Prerequisites(Current)
        BY <1>1, <1>4
    <2>2. passed \in SUBSET Ids /\ ClosedUnderRequires(passed)
        BY DEF IInv, TypeOK, PassedIsReported
    <2>3. Requires[Current] \subseteq passed
        BY <2>1 DEF Missing
    <2>4. a \in passed
        BY <1>1, <2>1, <2>2, <2>3, ClosedHoldsPrerequisites
    <2>5. \E j \in DOMAIN results : Passes(results, j, a)
        BY <2>4 DEF IInv, PassedIsReported
    <2> QED
        BY <1>1, <1>2, <1>4, <2>5 DEF Passes
<1> QED
    BY <1>1, <1>3, <1>4

\* A skip the runner records has its cause before it.
LEMMA RecordRootCause ==
    ASSUME IInv, Busy, NEW r \in CheckResult(Ids), r.id = Current, Record(r),
           r.ran \/ Missing(Current) # {},
           r.status = "pass" => Missing(Current) = {}
    PROVE  RootCause'
<1> DEFINE Cause(rs, i, j) == /\ rs[j].ran
                              /\ rs[j].status # "pass"
                              /\ rs[j].id \in Prerequisites(rs[i].id)
<1> SUFFICES ASSUME running', WellOrdered', NEW i \in DOMAIN results',
                    ~results'[i].ran
             PROVE  \E j \in 1..(i - 1) : Cause(results', i, j)
    BY DEF RootCause
<1>1. /\ \A k \in DOMAIN results : results'[k] = results[k]
      /\ DOMAIN results' = DOMAIN results \cup {Len(results) + 1}
      /\ results'[Len(results) + 1] = r
      /\ Current \in Ids
    BY RecordShape
<1>2. /\ Len(results) \in Nat
      /\ DOMAIN results = 1..Len(results)
      /\ Len(results) + 1 \in DOMAIN checks
    BY DEF IInv, TypeOK, Busy
<1>3. running /\ WellOrdered
    BY DEF Record, WellOrdered
<1>4. ASSUME NEW k \in DOMAIN results, ~results[k].ran
      PROVE  \E j \in 1..(k - 1) : Cause(results, k, j)
    BY <1>3, <1>4 DEF IInv, RootCause
<1>5. CASE i \in DOMAIN results
    <2>1. PICK j \in 1..(i - 1) : Cause(results, i, j)
        BY <1>1, <1>4, <1>5
    <2>2. j \in DOMAIN results
        BY <1>2, <1>5
    <2> QED
        BY <1>1, <1>5, <2>1, <2>2
<1>6. CASE i = Len(results) + 1
    <2>1. PICK d \in Requires[Current] : d \notin passed
        BY <1>1, <1>6 DEF Missing
    <2>2. PICK j \in 1..Len(results) : checks[j] = d
        BY <1>2, <1>3, <2>1 DEF WellOrdered, Current
    <2>3. d \in Ids
        BY <1>1, <2>1, RequiresAssumption
    <2>4. results[j].id = d /\ results[j].status # "pass"
        BY <1>2, <2>1, <2>2, <2>3 DEF IInv, ResultsFollowChecks, PassedIsReported, Passes
    <2>5. CASE results[j].ran
        <3>1. d \in Prerequisites(Current)
            BY <1>1, <2>1, DirectIsPrerequisite
        <3> QED
            BY <1>1, <1>2, <1>6, <2>4, <2>5, <3>1
    <2>6. CASE ~results[j].ran
        <3>1. PICK k \in 1..(j - 1) : Cause(results, j, k)
            BY <1>2, <1>4, <2>6
        <3>2. k \in 1..Len(results)
            BY <1>2
        <3>3. results[k].id \in Prerequisites(Current)
            BY <1>1, <2>1, <2>4, <3>1, PrerequisitesTransitive
        <3> QED
            BY <1>1, <1>2, <1>6, <3>1, <3>2, <3>3
    <2> QED
        BY <2>5, <2>6
<1> QED
    BY <1>1, <1>5, <1>6

LEMMA NextIInv == IInv /\ [Next]_vars => IInv'
<1> SUFFICES ASSUME IInv, [Next]_vars PROVE IInv'
    OBVIOUS
<1>1. ASSUME NEW c \in Ids, Push(c) PROVE IInv'
    <2>1. results = <<>> /\ ~running /\ ~running'
        BY <1>1 DEF Push, IInv, TypeOK
    <2>2. TypeOK'
        BY <1>1, <2>1 DEF Push, IInv, TypeOK
    <2>3. (ResultsFollowChecks /\ PassedIsReported /\ Cascade /\ RootCause)'
        BY <1>1, <2>1 DEF Push, IInv, ResultsFollowChecks, PassedIsReported,
                          Cascade, RootCause, Passes, ClosedUnderRequires
    <2> QED
        BY <2>2, <2>3 DEF IInv
<1>2. ASSUME Start PROVE IInv'
    <2>1. results = <<>> /\ results' = <<>>
        BY <1>2 DEF Start, IInv, TypeOK
    <2>2. TypeOK'
        BY <1>2 DEF Start, IInv, TypeOK
    <2>3. (ResultsFollowChecks /\ Cascade /\ RootCause)'
        BY <2>1 DEF ResultsFollowChecks, Cascade, RootCause
    <2>4. PassedIsReported'
        BY <1>2 DEF Start, IInv, PassedIsReported, Passes, ClosedUnderRequires
    <2> QED
        BY <2>2, <2>3, <2>4 DEF IInv
<1>3. ASSUME NEW s \in CheckStatus, RunCheck(s) PROVE IInv'
    <2> DEFINE r == [id |-> Current, status |-> s, ran |-> TRUE]
    <2>1. Busy /\ Missing(Current) = {} /\ Record(r)
        BY <1>3 DEF RunCheck
    <2>2. Current \in Ids
        BY <2>1 DEF IInv, TypeOK, Busy, Current
    <2>3. /\ r \in CheckResult(Ids)
          /\ r.id = Current
          /\ r.ran
        BY <2>2 DEF CheckResult
    <2> HIDE DEF r
    <2> QED
        BY <2>1, <2>3, RecordShape, RecordPassed, RecordCascade, RecordRootCause DEF IInv
<1>4. ASSUME SkipCheck PROVE IInv'
    <2> DEFINE r == PrerequisiteSkip(Current)
    <2>1. Busy /\ Missing(Current) # {} /\ Record(r)
        BY <1>4 DEF SkipCheck
    <2>2. Current \in Ids
        BY <2>1 DEF IInv, TypeOK, Busy, Current
    <2>3. /\ r \in CheckResult(Ids)
          /\ r.id = Current
          /\ r.status # "pass"
          /\ ~r.ran
        BY <2>2 DEF CheckResult, CheckStatus, PrerequisiteSkip
    <2> HIDE DEF r
    <2> QED
        BY <2>1, <2>3, RecordShape, RecordPassed, RecordCascade, RecordRootCause DEF IInv
<1>5. ASSUME UNCHANGED vars PROVE IInv'
    BY <1>5 DEF vars, IInv, TypeOK, ResultsFollowChecks, PassedIsReported,
                Cascade, RootCause, WellOrdered, Passes, ClosedUnderRequires
<1> QED
    BY <1>1, <1>2, <1>3, <1>4, <1>5 DEF Next, Returned

\* What the verdict Healthy leaves room for, by the cause RootCause names.
LEMMA HealthyHidesLittle == IInv => HealthyHidesOnlyOwnSkips
<1> SUFFICES ASSUME IInv, Finished, WellOrdered, ExitCode(Verdict(results)) = 0,
                    NEW i \in DOMAIN results, results[i].status # "pass"
             PROVE  \E j \in 1..i : /\ results[j].ran
                                   /\ results[j].status = "skip"
                                   /\ \/ j = i
                                      \/ results[j].id \in Prerequisites(results[i].id)
    BY DEF HealthyHidesOnlyOwnSkips
<1>1. ~HasStatus(results, "fail") /\ ~HasStatus(results, "warn")
    BY DEF Verdict, ExitCode
<1>2. /\ DOMAIN results = 1..Len(results)
      /\ Len(results) \in Nat
      /\ \A k \in DOMAIN results : results[k] \in CheckResult(Ids)
    BY DEF IInv, TypeOK
<1>3. \A k \in DOMAIN results : results[k].status \in {"pass", "skip"}
    BY <1>1, <1>2 DEF CheckResult, CheckStatus, HasStatus
<1>4. CASE results[i].ran
    BY <1>2, <1>3, <1>4
<1>5. CASE ~results[i].ran
    <2>1. PICK j \in 1..(i - 1) : /\ results[j].ran
                                  /\ results[j].status # "pass"
                                  /\ results[j].id \in Prerequisites(results[i].id)
        BY <1>5 DEF IInv, RootCause, Finished
    <2> QED
        BY <1>2, <1>3, <2>1
<1> QED
    BY <1>4, <1>5

-----------------------------------------------------------------------------
(* Theorems *)

\* The variables keep their types and a run reports at most one result for
\* each check pushed (pipeline.rs:117-152).
THEOREM TypeCorrect == Spec => []TypeOK
<1>1. IInv => TypeOK
    BY DEF IInv
<1> QED
    BY <1>1, InitIInv, NextIInv, PTL DEF Spec

\* Every pipeline, whatever its checks require, runs a check only after all
\* its direct and indirect prerequisites have passed (pipeline.rs:125-146).
THEOREM CascadeHolds == Spec => []Cascade
<1>1. IInv => Cascade
    BY DEF IInv
<1> QED
    BY <1>1, InitIInv, NextIInv, PTL DEF Spec

\* The set the runner tests prerequisites against is what it has reported as
\* passed, and is closed under requirements (pipeline.rs:142-145).
THEOREM PassedIsReportedHolds == Spec => []PassedIsReported
<1>1. IInv => PassedIsReported
    BY DEF IInv
<1> QED
    BY <1>1, InitIInv, NextIInv, PTL DEF Spec

\* In a well-ordered pipeline every skip of the runner has a prerequisite that
\* ran and did not pass, earlier in the same report (pipeline.rs:132-140).
THEOREM RootCauseHolds == Spec => []RootCause
<1>1. IInv => RootCause
    BY DEF IInv
<1> QED
    BY <1>1, InitIInv, NextIInv, PTL DEF Spec

\* With verdict Healthy nothing is hidden but skips a check chose by itself
\* and what depends on them (pipeline.rs:63-77).
THEOREM HealthyHidesOnlyOwnSkipsHolds == Spec => []HealthyHidesOnlyOwnSkips
BY HealthyHidesLittle, InitIInv, NextIInv, PTL DEF Spec
=============================================================================
