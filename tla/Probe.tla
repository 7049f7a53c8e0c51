-------------------------------- MODULE Probe --------------------------------
(***************************************************************************)
(* One invocation of the command line, webrtc-doctor/src/main.rs: a        *)
(* subcommand is a list of targets, each probed by a pipeline of its own   *)
(* in a context of its own, and the results end in one report and one      *)
(* exit code.  The runner is the module Pipeline; a check is its contract  *)
(* in the module Context, which the check's own module implements.         *)
(*                                                                         *)
(* `full` has up to four targets, every other subcommand one.  A malformed *)
(* URL ends the process, and in `full` a URL is only looked at when its    *)
(* turn comes.                                                             *)
(***************************************************************************)
EXTENDS Context, Sequences, FiniteSets

VARIABLES command,  \* the subcommand: its targets and the credentials given
          step,     \* how many targets have been begun
          pc,       \* "parsing" a target, "probing" it, "reported", "failed"
          checks, running, passed, results,   \* the pipeline of this target
          ctx,      \* its context
          report,   \* results of the targets before
          verdicts  \* history: the verdict on each of those targets alone

pipelineVars == <<checks, running, passed, results>>
vars == <<command, step, pc, pipelineVars, ctx, report, verdicts>>

CheckIds == {"dns", "stun.binding", "turn.alloc.udp", "turn.alloc.tls", "turn.echo.udp",
             "ice.gather", "signaling", "dtls.remote", "dtls.loopback"}

\* Check::requires.
\* Mutant: the echo only asks for the allocation.
RequiresAllocationOnly ==
    [c \in CheckIds |->
        CASE c \in {"stun.binding", "turn.alloc.udp", "turn.alloc.tls", "dtls.remote"} -> {"dns"}
          [] c = "turn.echo.udp" -> {"turn.alloc.udp"}
          [] c = "ice.gather" -> {"stun.binding"}
          [] OTHER -> {}]

Requires ==
    [c \in CheckIds |->
        CASE c \in {"stun.binding", "turn.alloc.udp", "turn.alloc.tls", "dtls.remote"} -> {"dns"}
          [] c = "turn.echo.udp" -> {"turn.alloc.udp", "stun.binding"}
          [] c = "ice.gather" -> {"stun.binding"}
          [] OTHER -> {}]

P == INSTANCE Pipeline WITH Ids <- CheckIds, MaxChecks <- 4

\* The pipeline built for each kind of target.
\* Mutant: the binding comes after the check that needs it.
PipelinesEchoEarly ==
    [stun      |-> <<"dns", "stun.binding">>,
     turn      |-> <<"dns", "turn.alloc.udp", "turn.echo.udp", "stun.binding">>,
     turns     |-> <<"dns", "turn.alloc.tls">>,
     signaling |-> <<"dns", "signaling">>,
     remote    |-> <<"dns", "dtls.remote">>,
     loopback  |-> <<"dtls.loopback">>,
     iceStun   |-> <<"dns", "stun.binding", "ice.gather">>,
     iceTurn   |-> <<"dns", "stun.binding", "turn.alloc.udp", "ice.gather">>]

Pipelines ==
    [stun      |-> <<"dns", "stun.binding">>,
     turn      |-> <<"dns", "stun.binding", "turn.alloc.udp", "turn.echo.udp">>,
     turns     |-> <<"dns", "turn.alloc.tls">>,
     signaling |-> <<"dns", "signaling">>,
     remote    |-> <<"dns", "dtls.remote">>,
     loopback  |-> <<"dtls.loopback">>,
     iceStun   |-> <<"dns", "stun.binding", "ice.gather">>,
     iceTurn   |-> <<"dns", "stun.binding", "turn.alloc.udp", "ice.gather">>]

Kinds == DOMAIN Pipelines

\* Kinds whose check takes the TURN credentials.
Credentialed == {"turn", "turns", "iceTurn"}

\* The context a target starts with: no port for a WebSocket URL, no host
\* for the loopback, credentials only for a TURN server.
Target(kind) ==
    NewContext(kind # "loopback", kind \notin {"loopback", "signaling"},
               kind \in Credentialed /\ command.user,
               kind \in Credentialed /\ command.pass)

\* Check::run as the runner sees it.
Outcomes(c) ==
    CASE c = "dns" -> DnsOutcomes(ctx)
      [] c = "stun.binding" -> StunOutcomes(ctx)
      [] c = "turn.alloc.udp" -> AllocOutcomes(ctx)
      [] c = "turn.echo.udp" -> EchoOutcomes(ctx)
      [] c = "turn.alloc.tls" -> TurnsOutcomes(ctx)
      [] c = "ice.gather" -> IceOutcomes(ctx)
      [] c = "signaling" -> SignalingOutcomes(ctx)
      [] c = "dtls.remote" -> DtlsRemoteOutcomes(ctx)
      [] c = "dtls.loopback" -> DtlsLoopbackOutcomes(ctx)

\* A URL as given: the kind of its target, and whether it can be parsed; the
\* loopback has none to get wrong.
Url == {u \in [kind : Kinds, valid : BOOLEAN] : u.kind = "loopback" => u.valid}

\* `full` takes its targets in this order, whatever the order of the flags;
\* with no URL at all it is refused.
FullKinds == {"signaling", "stun", "turn", "turns"}
Given(kind, given, valid) ==
    IF kind \in given THEN <<[kind |-> kind, valid |-> kind \in valid]>> ELSE <<>>
FullTargets ==
    {Given("signaling", given, valid) \o Given("stun", given, valid)
         \o Given("turn", given, valid) \o Given("turns", given, valid) :
         given \in SUBSET FullKinds, valid \in SUBSET FullKinds}

Command == [full : BOOLEAN, targets : Seq(Url), user : BOOLEAN, pass : BOOLEAN]

Init ==
    /\ \E user, pass \in BOOLEAN :
         \/ \E targets \in FullTargets :
              command = [full |-> TRUE, targets |-> targets, user |-> user, pass |-> pass]
         \/ \E url \in Url :
              /\ user \/ pass => url.kind \in Credentialed \cup {"iceStun"}
              /\ command = [full |-> FALSE, targets |-> <<url>>, user |-> user, pass |-> pass]
    /\ step = 0
    /\ pc = "parsing"
    /\ P!Init
    /\ ctx = NewContext(FALSE, FALSE, FALSE, FALSE)
    /\ report = <<>>
    /\ verdicts = <<>>

-----------------------------------------------------------------------------
(* main and run_full *)

NextUrl == command.targets[step + 1]
More == step < Len(command.targets)

\* `ice` refuses credentials with a stun: URL.
Accepted(url) == url.valid /\ (url.kind = "iceStun" => ~command.user /\ ~command.pass)

\* A secret is read from stdin before anything is probed.
TakesSecrets ==
    command.full \/ command.targets[1].kind \in Credentialed \cup {"signaling"}

\* Mutant: the context of the target before is used on.
BeginSharedContext ==
    /\ pc = "parsing" /\ More
    /\ Accepted(NextUrl)
    /\ pc' = "probing"
    /\ step' = step + 1
    /\ ctx' = IF step = 0 THEN Target(NextUrl.kind) ELSE ctx
    /\ checks' = Pipelines[NextUrl.kind]
    /\ running' = TRUE
    /\ passed' = {}
    /\ results' = <<>>
    /\ UNCHANGED <<command, report, verdicts>>

\* Mutant: the results of the target before are not cleared.
BeginUncleared ==
    /\ pc = "parsing" /\ More
    /\ Accepted(NextUrl)
    /\ pc' = "probing"
    /\ step' = step + 1
    /\ ctx' = Target(NextUrl.kind)
    /\ checks' = Pipelines[NextUrl.kind]
    /\ running' = TRUE
    /\ passed' = {}
    /\ UNCHANGED <<command, results, report, verdicts>>

Begin ==
    /\ pc = "parsing" /\ More
    /\ Accepted(NextUrl)
    /\ pc' = "probing"
    /\ step' = step + 1
    /\ ctx' = Target(NextUrl.kind)
    /\ checks' = Pipelines[NextUrl.kind]
    /\ running' = TRUE
    /\ passed' = {}
    /\ results' = <<>>
    /\ UNCHANGED <<command, report, verdicts>>

\* Mutant: a URL that cannot be parsed is passed over.
BailPassesOver ==
    /\ pc = "parsing"
    /\ More /\ ~Accepted(NextUrl)
    /\ step' = step + 1
    /\ UNCHANGED <<command, pc, pipelineVars, ctx, report, verdicts>>

Bail ==
    /\ pc = "parsing"
    /\ command.targets = <<>> \/ (More /\ ~Accepted(NextUrl))
    /\ pc' = "failed"
    /\ UNCHANGED <<command, step, pipelineVars, ctx, report, verdicts>>

\* stdin is closed or the line is empty.
SecretMissing ==
    /\ pc = "parsing" /\ step = 0
    /\ command.targets # <<>>
    /\ TakesSecrets
    /\ pc' = "failed"
    /\ UNCHANGED <<command, step, pipelineVars, ctx, report, verdicts>>

RunCheck ==
    /\ pc = "probing" /\ P!Busy
    /\ \E a \in Outcomes(P!Current) : P!RunCheck(a.status) /\ ctx' = a.ctx
    /\ UNCHANGED <<command, step, pc, report, verdicts>>

SkipCheck ==
    /\ pc = "probing"
    /\ P!SkipCheck
    /\ UNCHANGED <<command, step, pc, ctx, report, verdicts>>

\* all_results.extend(report.results).
\* Mutant: the report of the last target is the report.
ExtendReplaces ==
    /\ pc = "probing" /\ P!Finished
    /\ report' = results
    /\ verdicts' = Append(verdicts, P!Verdict(results))
    /\ pc' = "parsing"
    /\ UNCHANGED <<command, step, pipelineVars, ctx>>

Extend ==
    /\ pc = "probing" /\ P!Finished
    /\ report' = report \o results
    /\ verdicts' = Append(verdicts, P!Verdict(results))
    /\ pc' = "parsing"
    /\ UNCHANGED <<command, step, pipelineVars, ctx>>

\* Render the report and exit with the code of its verdict.
Render ==
    /\ pc = "parsing" /\ ~More /\ step > 0
    /\ pc' = "reported"
    /\ UNCHANGED <<command, step, pipelineVars, ctx, report, verdicts>>

\* An error returned from main exits with 1 and renders no report.
ExitCode == IF pc = "failed" THEN 1 ELSE P!ExitCode(P!Verdict(report))

Exited == pc \in {"reported", "failed"} /\ UNCHANGED vars

Next == Begin \/ Bail \/ SecretMissing \/ RunCheck \/ SkipCheck \/ Extend \/ Render \/ Exited

Spec == Init /\ [][Next]_vars

-----------------------------------------------------------------------------
(* Properties *)

TypeOK ==
    /\ command \in Command
    /\ step \in 0..Len(command.targets)
    /\ pc \in {"parsing", "probing", "reported", "failed"}
    /\ P!TypeOK
    /\ ctx \in ProbeContext
    /\ report \in Seq(P!CheckResult(CheckIds))
    /\ verdicts \in Seq({"healthy", "warnings", "failed"})

(* Every pipeline main.rs builds is one the runner's promises are made     *)
(* for: requirements come first, so that a skip has its cause in the       *)
(* results above it and the verdict hides nothing but a check's own skip.  *)
ShippedPipelinesAreReadable ==
    /\ P!WellOrdered
    /\ P!RootCause
    /\ P!HealthyHidesOnlyOwnSkips

(* What a check requires is enough for it: the skips inside the checks     *)
(* ("no resolved IP", "no srflx in context", and so on) never happen, but  *)
(* for the echo of an allocation the server granted without credentials.   *)
OnlyAnonymousSkips ==
    \A i \in DOMAIN results : (results[i].ran /\ results[i].status = "skip") =>
        /\ results[i].id = "turn.echo.udp"
        /\ "turn.alloc.udp" \in passed
        /\ ctx.relayed # NoAddr
        /\ ctx.session = NoSession

(* A warning has one of two causes, a challenge that could not be answered *)
(* for want of credentials or a lossy relay; `ice.gather` never warns,     *)
(* because the srflx of the binding it requires is always there ("which    *)
(* would mean STUN passed but srflx got lost", ice_gather.rs:176).         *)
WarningsExplained ==
    \A i \in DOMAIN results : results[i].status = "warn" =>
        \/ results[i].id = "turn.echo.udp"
        \/ /\ results[i].id \in {"turn.alloc.udp", "turn.alloc.tls"}
           /\ ~(command.user /\ command.pass)

(* "A target with a different host stays cleanly isolated": what a context *)
(* holds was learned in this pipeline, from the check that passed in it.   *)
ContextIsThisTargets ==
    pc = "probing" =>
        /\ ctx.ips <=> "dns" \in passed
        /\ ctx.srflx # NoAddr <=> "stun.binding" \in passed
        /\ ctx.relayed # NoAddr <=> {"turn.alloc.udp", "turn.alloc.tls"} \cap passed # {}
        /\ ctx.session # NoSession =>
              /\ "turn.alloc.udp" \in passed
              /\ ctx.session.relayed = ctx.relayed
              /\ HasCredentials(ctx)

(* "The single shared verdict reflects the worst outcome across all        *)
(* sub-pipelines (Fail > Warn > Pass)", though the exit codes are not      *)
(* ordered that way.                                                       *)
WorstOfTargets ==
    pc = "reported" =>
        /\ \E i \in DOMAIN verdicts : verdicts[i] = P!Verdict(report)
        /\ \A i \in DOMAIN verdicts :
              P!Severity(verdicts[i]) <= P!Severity(P!Verdict(report))

\* The checks target j is given, and how many the targets before it are given.
PipelineOf(j) == Pipelines[command.targets[j].kind]
ChecksBefore(j) == Cardinality(UNION {{i} \X DOMAIN PipelineOf(i) : i \in 1..(j - 1)})

(* A report speaks for every check of every target given, in order: a      *)
(* target that could not be probed never goes unnoticed.                   *)
ReportIsComplete ==
    pc = "reported" =>
        /\ Len(verdicts) = Len(command.targets)
        /\ Len(report) = ChecksBefore(Len(command.targets) + 1)
        /\ \A j \in DOMAIN command.targets : \A i \in DOMAIN PipelineOf(j) :
              report[ChecksBefore(j) + i].id = PipelineOf(j)[i]

(* Nothing but a Pass or a Fail comes without its reason: the skips inside *)
(* the checks and their warnings.                                          *)
OutcomesExplained == OnlyAnonymousSkips /\ WarningsExplained

(* The one report of several targets: nothing of them is missing, and its  *)
(* verdict is the worst of theirs.                                         *)
ReportSpeaksForAll == ReportIsComplete /\ WorstOfTargets

(* "`0` All checks passed (verdict HEALTHY)" (README.md:594).  The echo    *)
(* that skips itself after an anonymous allocation ends in 0 as well.      *)
ZeroMeansAllPassed ==
    pc = "reported" /\ ExitCode = 0 =>
        \A i \in DOMAIN report : report[i].status = "pass"

(* "`turn.alloc.udp`, if it ran, has populated `ctx.turn_session.relayed`" *)
(* (ice_gather.rs:19): an allocation that passed gives a relay candidate.  *)
(* Without credentials it leaves the address in `scratch`, which           *)
(* `ice.gather` does not read.                                             *)
AllocationGivesRelay ==
    \A i \in DOMAIN results :
        (results[i].id = "ice.gather" /\ "turn.alloc.udp" \in passed) =>
            \A host \in BOOLEAN : "relay" \in CandidateKinds(ctx, host)
=============================================================================
