------------------------------ MODULE MainProofs ------------------------------
(***************************************************************************)
(* Proofs about Main, for any addresses, nonces, clients, letters and      *)
(* digits, and texts of any length.  Each part has its own invariant:      *)
(*                                                                         *)
(*   the invocation (IInv): the runner's is that of PipelineProofs,        *)
(*   instantiated with the checks and requirements of the code; what is    *)
(*   added is where each check stands in the eight pipelines main.rs       *)
(*   builds, how each changes the context, and how far the report got;     *)
(*   the accept loop of --serve (ServeInv): each client is at one place;   *)
(*   the command line (LineInv): which lines of stdin the secrets still to *)
(*   be resolved will take;                                                *)
(*   the parsers, which need no invariant: what they return for a text.    *)
(***************************************************************************)
EXTENDS Main, FiniteSetTheorems, SequenceTheorems, WellFoundedInduction, TLAPS

PP == INSTANCE PipelineProofs WITH Ids <- CheckIds, MaxChecks <- 4

-----------------------------------------------------------------------------
(* The inductive invariant *)

\* Where check c may stand: in which kinds of target.
FitsIn(c, k) ==
    /\ c \in CheckIds
    /\ c = "dns" => k # "loopback"
    /\ c \in {"stun.binding", "turn.alloc.udp", "turn.alloc.tls", "dtls.remote"} =>
          k \notin {"loopback", "signaling"}
    /\ c \in {"turn.alloc.udp", "turn.alloc.tls"} => k \in Credentialed
    /\ c = "turn.alloc.tls" => k = "turns"
    /\ c \in {"turn.alloc.udp", "turn.echo.udp"} => k # "turns"

\* Pipeline and context of a target of kind k.
TargetInv(k) ==
    /\ checks = Pipelines[k]
    /\ ctx.host = (k # "loopback")
    /\ ctx.port = (k \notin {"loopback", "signaling"})
    /\ ctx.user = (k \in Credentialed /\ command.user)
    /\ ctx.pass = (k \in Credentialed /\ command.pass)

\* What context c holds was learned by the checks in ps.
Learned(c, ps) ==
    /\ c.ips <=> "dns" \in ps
    /\ c.srflx # NoAddr <=> "stun.binding" \in ps
    /\ c.relayed # NoAddr <=> {"turn.alloc.udp", "turn.alloc.tls"} \cap ps # {}
    /\ c.session # NoSession =>
          /\ "turn.alloc.udp" \in ps
          /\ c.session.relayed = c.relayed
          /\ HasCredentials(c)

CommandInv ==
    /\ command \in Command
    /\ step \in 0..Len(command.targets)
    /\ pc \in {"parsing", "probing", "reported", "failed"}
    /\ report \in Seq(P!CheckResult(CheckIds))
    /\ verdicts \in Seq({"healthy", "warnings", "failed"})

ContextInv ==
    /\ ctx \in ProbeContext
    /\ Learned(ctx, passed)
    /\ OnlyAnonymousSkips /\ WarningsExplained
    /\ \/ pc # "probing" /\ step = 0 /\ checks = <<>> /\ results = <<>>
       \/ \E k \in Kinds : TargetInv(k)

\* The verdict on the report so far is the worst of those on its targets.
VerdictInv ==
    /\ P!HasStatus(report, "fail") <=> \E i \in DOMAIN verdicts : verdicts[i] = "failed"
    /\ P!HasStatus(report, "fail") \/ P!HasStatus(report, "warn")
          <=> \E i \in DOMAIN verdicts : verdicts[i] # "healthy"
    /\ pc = "probing" => Len(verdicts) + 1 = step
    /\ pc \in {"parsing", "reported"} => Len(verdicts) = step
    /\ pc = "reported" => step > 0 /\ step = Len(command.targets)

\* The report so far is that of the targets that are through.
ReportInv ==
    /\ Len(report) = ChecksBefore(Len(verdicts) + 1)
    /\ \A j \in 1..Len(verdicts) : \A i \in DOMAIN PipelineOf(j) :
          report[ChecksBefore(j) + i].id = PipelineOf(j)[i]
    /\ pc = "probing" => checks = PipelineOf(step)

IInv == CommandInv /\ PP!IInv /\ ContextInv /\ VerdictInv /\ ReportInv

-----------------------------------------------------------------------------
(* The pipelines *)

\* The assumption PipelineProofs makes of its requirements.
LEMMA RequiresIsTyped == Requires \in [CheckIds -> SUBSET CheckIds]
BY DEF Requires, CheckIds

\* Check::requires, check by check.
LEMMA RequiresMeans ==
    ASSUME NEW c \in CheckIds
    PROVE  /\ c \in {"stun.binding", "turn.alloc.udp", "turn.alloc.tls", "dtls.remote"} =>
                 Requires[c] = {"dns"}
           /\ c = "turn.echo.udp" => Requires[c] = {"turn.alloc.udp", "stun.binding"}
           /\ c = "ice.gather" => Requires[c] = {"stun.binding"}
           /\ c \in {"dns", "signaling", "dtls.loopback"} => Requires[c] = {}
<1>1. CASE c \in {"stun.binding", "turn.alloc.udp", "turn.alloc.tls", "dtls.remote"}
    <2>1. Requires[c] = {"dns"}
        BY <1>1, Zenon DEF Requires
    <2> QED BY <1>1, <2>1
<1>2. CASE c = "turn.echo.udp"
    <2>1. Requires[c] = {"turn.alloc.udp", "stun.binding"}
        BY <1>2 DEF Requires
    <2> QED BY <1>2, <2>1
<1>3. CASE c = "ice.gather"
    <2>1. Requires[c] = {"stun.binding"}
        BY <1>3 DEF Requires
    <2> QED BY <1>3, <2>1
<1>4. CASE c \in {"dns", "signaling", "dtls.loopback"}
    <2>1. Requires[c] = {}
        BY <1>4 DEF Requires
    <2> QED BY <1>4, <2>1
<1> QED BY <1>1, <1>2, <1>3, <1>4 DEF CheckIds

\* No check is in a pipeline twice, nothing follows the echo, and what a check
\* requires stands before it.
LEMMA Places ==
    ASSUME NEW k \in Kinds
    PROVE  /\ Pipelines[k] \in Seq(CheckIds)
           /\ \A n \in 1..Len(Pipelines[k]) : FitsIn(Pipelines[k][n], k)
           /\ \A m, n \in 1..Len(Pipelines[k]) :
                 /\ Pipelines[k][m] = Pipelines[k][n] => m = n
                 /\ Pipelines[k][n] = "turn.echo.udp" => m <= n
           /\ \A n \in 1..Len(Pipelines[k]) : \A d \in Requires[Pipelines[k][n]] :
                 \E m \in 1..(n - 1) : Pipelines[k][m] = d
<1> DEFINE p == Pipelines[k]
<1>1. k \in {"stun", "turn", "turns", "signaling", "remote", "loopback", "iceStun", "iceTurn"}
    BY DEF Kinds, Pipelines
<1>2. CASE k = "stun"
    <2>1. p = <<"dns", "stun.binding">>
        BY <1>2 DEF Pipelines
    <2> QED BY <1>2, <2>1, RequiresMeans DEF CheckIds, Credentialed, FitsIn
<1>3. CASE k = "turn"
    <2>1. p = <<"dns", "stun.binding", "turn.alloc.udp", "turn.echo.udp">>
        BY <1>3 DEF Pipelines
    <2> QED BY <1>3, <2>1, RequiresMeans DEF CheckIds, Credentialed, FitsIn
<1>4. CASE k = "turns"
    <2>1. p = <<"dns", "turn.alloc.tls">>
        BY <1>4 DEF Pipelines
    <2> QED BY <1>4, <2>1, RequiresMeans DEF CheckIds, Credentialed, FitsIn
<1>5. CASE k = "signaling"
    <2>1. p = <<"dns", "signaling">>
        BY <1>5 DEF Pipelines
    <2> QED BY <1>5, <2>1, RequiresMeans DEF CheckIds, Credentialed, FitsIn
<1>6. CASE k = "remote"
    <2>1. p = <<"dns", "dtls.remote">>
        BY <1>6 DEF Pipelines
    <2> QED BY <1>6, <2>1, RequiresMeans DEF CheckIds, Credentialed, FitsIn
<1>7. CASE k = "loopback"
    <2>1. p = <<"dtls.loopback">>
        BY <1>7 DEF Pipelines
    <2> QED BY <1>7, <2>1, RequiresMeans DEF CheckIds, Credentialed, FitsIn
<1>8. CASE k = "iceStun"
    <2>1. p = <<"dns", "stun.binding", "ice.gather">>
        BY <1>8 DEF Pipelines
    <2> QED BY <1>8, <2>1, RequiresMeans DEF CheckIds, Credentialed, FitsIn
<1>9. CASE k = "iceTurn"
    <2>1. p = <<"dns", "stun.binding", "turn.alloc.udp", "ice.gather">>
        BY <1>9 DEF Pipelines
    <2> QED BY <1>9, <2>1, RequiresMeans DEF CheckIds, Credentialed, FitsIn
<1> QED BY <1>1, <1>2, <1>3, <1>4, <1>5, <1>6, <1>7, <1>8, <1>9

\* The steps of the runner keep the invariant of PipelineProofs, and so does
\* a new pipeline that has no results.
LEMMA RunnerKeeps ==
    ASSUME PP!IInv, P!SkipCheck \/ \E s \in {"pass", "warn", "fail", "skip"} : P!RunCheck(s)
    PROVE  PP!IInv'
<1>1. P!SkipCheck => PP!SkipCheck
    BY DEF P!SkipCheck, PP!SkipCheck, P!Busy, PP!Busy, P!Missing, PP!Missing, P!Current,
           PP!Current, P!Record, PP!Record, P!PrerequisiteSkip, PP!PrerequisiteSkip
<1>2. ASSUME NEW s, P!RunCheck(s) PROVE PP!RunCheck(s)
    BY <1>2 DEF P!RunCheck, PP!RunCheck, P!Busy, PP!Busy, P!Missing, PP!Missing, P!Current,
                PP!Current, P!Record, PP!Record
<1>3. PP!Next
    BY <1>1, <1>2 DEF PP!Next, PP!CheckStatus
<1> QED BY <1>3, RequiresIsTyped, PP!NextIInv

LEMMA RunnerStands ==
    ASSUME PP!IInv, UNCHANGED pipelineVars
    PROVE  PP!IInv'
<1>1. checks' = checks /\ running' = running /\ passed' = passed /\ results' = results
    BY DEF pipelineVars
<1>2. PP!TypeOK'
    BY <1>1 DEF PP!IInv, PP!TypeOK
<1>3. (PP!ResultsFollowChecks /\ PP!PassedIsReported)'
    BY <1>1 DEF PP!IInv, PP!ResultsFollowChecks, PP!PassedIsReported, PP!Passes,
                PP!ClosedUnderRequires
<1>4. (PP!Cascade /\ PP!RootCause)'
    BY <1>1 DEF PP!IInv, PP!Cascade, PP!RootCause, PP!Passes, PP!WellOrdered
<1> QED BY <1>2, <1>3, <1>4 DEF PP!IInv

LEMMA NewPipelineKeeps ==
    ASSUME results' = <<>>, passed' = {}, running' \in BOOLEAN, checks' \in Seq(CheckIds)
    PROVE  PP!IInv'
<1>1. DOMAIN results' = {} /\ Len(results') = 0 /\ results' \in Seq(PP!CheckResult(CheckIds))
    OBVIOUS
<1>2. Len(checks') \in Nat
    OBVIOUS
<1>3. PP!TypeOK'
    BY <1>1, <1>2 DEF PP!TypeOK
<1>4. (PP!ResultsFollowChecks /\ PP!PassedIsReported /\ PP!Cascade /\ PP!RootCause)'
    BY <1>1 DEF PP!ResultsFollowChecks, PP!PassedIsReported, PP!Cascade, PP!RootCause,
                PP!Passes, PP!ClosedUnderRequires
<1> QED BY <1>3, <1>4 DEF PP!IInv

-----------------------------------------------------------------------------
(* How many checks *)

\* A target more, and the checks of its pipeline more.
LEMMA ChecksOfOneMore ==
    ASSUME command \in Command, NEW j \in 1..Len(command.targets)
    PROVE  /\ ChecksBefore(j) \in Nat
           /\ PipelineOf(j) \in Seq(CheckIds) /\ Len(PipelineOf(j)) \in Nat
           /\ DOMAIN PipelineOf(j) = 1..Len(PipelineOf(j))
           /\ ChecksBefore(j + 1) = ChecksBefore(j) + Len(PipelineOf(j))
           /\ \A k \in 1..j : ChecksBefore(k) \in Nat /\ ChecksBefore(k) <= ChecksBefore(j)
<1> DEFINE Before(n) == UNION {{i} \X DOMAIN PipelineOf(i) : i \in 1..(n - 1)}
           All == 1..Len(command.targets)
           Mine == {j} \X DOMAIN PipelineOf(j)
<1>1. Len(command.targets) \in Nat /\ \A i \in All : command.targets[i].kind \in Kinds
    BY DEF Command, Url
<1>2. \A i \in All : /\ PipelineOf(i) \in Seq(CheckIds)
                     /\ Len(PipelineOf(i)) \in 0..4
                     /\ DOMAIN PipelineOf(i) = 1..Len(PipelineOf(i))
    <2>1. ASSUME NEW k \in Kinds
          PROVE  /\ Pipelines[k] \in Seq(CheckIds)
                 /\ Len(Pipelines[k]) \in 0..4
                 /\ DOMAIN Pipelines[k] = 1..Len(Pipelines[k])
        <3>1. Pipelines[k] \in Seq(CheckIds)
            BY Places
        <3>2. Len(Pipelines[k]) \in 0..4
            BY DEF Kinds, Pipelines
        <3> QED BY <3>1, <3>2
    <2> QED BY <1>1, <2>1 DEF PipelineOf
<1>3. ASSUME NEW n \in 1..(Len(command.targets) + 1)
      PROVE  /\ IsFiniteSet(Before(n)) /\ Cardinality(Before(n)) \in Nat
             /\ Before(n) \subseteq All \X (1..4)
    <2>1. Before(n) \subseteq All \X (1..4)
        <3>1. \A i \in 1..(n - 1) : i \in All
            BY <1>1
        <3>2. ASSUME NEW i \in All PROVE DOMAIN PipelineOf(i) \subseteq 1..4
            <4>1. PICK l \in 0..4 : l = Len(PipelineOf(i))
                BY <1>2
            <4>2. DOMAIN PipelineOf(i) = 1..l
                BY <1>2, <4>1
            <4> QED BY <4>2
        <3> QED BY <3>1, <3>2
    <2>2. IsFiniteSet(All \X (1..4))
        <3>1. PICK l \in Nat : l = Len(command.targets)
            BY <1>1
        <3>2. \A m \in Nat : IsFiniteSet(1..m)
            BY FS_Interval
        <3>3. IsFiniteSet(All) /\ IsFiniteSet(1..4)
            BY <3>1, <3>2
        <3> HIDE DEF All
        <3> QED BY <3>3, FS_Product
    <2>3. IsFiniteSet(Before(n))
        BY <2>1, <2>2, FS_Subset
    <2> QED BY <2>1, <2>3, FS_CardinalityType
<1>4. /\ IsFiniteSet(Mine) /\ Cardinality(Mine) = Len(PipelineOf(j))
    <2>1. IsFiniteSet({j}) /\ Cardinality({j}) = 1
        BY FS_Singleton
    <2>2. /\ IsFiniteSet(DOMAIN PipelineOf(j))
          /\ Cardinality(DOMAIN PipelineOf(j)) = Len(PipelineOf(j))
        <3>1. PICK n \in Nat : n = Len(PipelineOf(j))
            BY <1>2
        <3>2. IsFiniteSet(1..n) /\ Cardinality(1..n) = n
            BY FS_Interval
        <3>3. DOMAIN PipelineOf(j) = 1..n
            BY <1>2, <3>1
        <3> QED BY <3>1, <3>2, <3>3
    <2>3. IsFiniteSet(Mine) /\ Cardinality(Mine) = 1 * Len(PipelineOf(j))
        BY <2>1, <2>2, FS_Product
    <2> QED BY <1>2, <2>3
<1>5. Before(j + 1) = Before(j) \cup Mine
    <2>1. 1..((j + 1) - 1) = 1..(j - 1) \cup {j}
        BY <1>1
    <2> QED BY <2>1
<1>6. Before(j) \cap Mine = {}
    <2>1. j \notin 1..(j - 1)
        BY <1>1
    <2> QED BY <2>1
<1>7. j \in 1..(Len(command.targets) + 1) /\ Len(PipelineOf(j)) \in Nat
    BY <1>1, <1>2
<1>8. Cardinality(Before(j + 1)) = Cardinality(Before(j)) + Len(PipelineOf(j))
    <2>1. IsFiniteSet(Before(j)) /\ Cardinality(Before(j)) \in Nat
        BY <1>3, <1>7
    <2>2. Cardinality(Before(j) \cup Mine)
              = Cardinality(Before(j)) + Cardinality(Mine) - Cardinality({})
        <3>1. PICK B, M : B = Before(j) /\ M = Mine
            OBVIOUS
        <3>2. IsFiniteSet(B) /\ IsFiniteSet(M) /\ B \cap M = {}
            BY <1>4, <1>6, <2>1, <3>1
        <3>3. Cardinality(B \cup M) = Cardinality(B) + Cardinality(M) - Cardinality(B \cap M)
            BY <3>2, FS_Union
        <3> QED BY <3>1, <3>2, <3>3
    <2>3. Cardinality({}) = 0
        BY FS_EmptySet
    <2>4. Cardinality(Mine) = Len(PipelineOf(j))
        BY <1>4
    <2>5. Cardinality(Before(j + 1)) = Cardinality(Before(j) \cup Mine)
        BY <1>5
    <2>6. ASSUME NEW a \in Nat, NEW l \in Nat, NEW m, NEW z, z = 0, m = l
          PROVE  a + m - z = a + l
        BY <2>6
    <2> HIDE DEF Before, Mine
    <2> QED BY <1>7, <2>1, <2>2, <2>3, <2>4, <2>5, <2>6
<1>9. ASSUME NEW k \in 1..j
      PROVE  Cardinality(Before(k)) \in Nat /\ Cardinality(Before(k)) <= Cardinality(Before(j))
    <2>1. k \in 1..(Len(command.targets) + 1)
        BY <1>1
    <2>2. Before(k) \subseteq Before(j)
        <3>1. \A i \in 1..(k - 1) : i \in 1..(j - 1)
            BY <1>1
        <3> QED BY <3>1
    <2>3. IsFiniteSet(Before(j)) /\ Cardinality(Before(k)) \in Nat
        BY <1>3, <1>7, <2>1
    <2> HIDE DEF Before
    <2> QED BY <2>2, <2>3, FS_Subset
<1> QED BY <1>2, <1>3, <1>7, <1>8, <1>9 DEF ChecksBefore

-----------------------------------------------------------------------------
(* What a check does to the context *)

\* Answer a of check c: it keeps the target's own fields, adds to what was
\* learned just what its check stands for when it passes, and skips or warns
\* for a reason.
Sound(c, a) ==
    /\ a.status \in {"pass", "warn", "fail", "skip"}
    /\ a.ctx \in ProbeContext
    /\ a.ctx.host = ctx.host /\ a.ctx.port = ctx.port
    /\ a.ctx.user = ctx.user /\ a.ctx.pass = ctx.pass
    /\ Learned(a.ctx, IF a.status = "pass" THEN passed \cup {c} ELSE passed)
    /\ a.status = "skip" =>
          /\ c = "turn.echo.udp" /\ "turn.alloc.udp" \in passed
          /\ a.ctx.relayed # NoAddr /\ a.ctx.session = NoSession
    /\ a.status = "warn" =>
          \/ c = "turn.echo.udp"
          \/ /\ c \in {"turn.alloc.udp", "turn.alloc.tls"}
             /\ ~(command.user /\ command.pass)

\* So is every answer the contracts allow.
LEMMA OutcomeMeans ==
    ASSUME NEW k \in Kinds, TargetInv(k), CommandInv, ctx \in ProbeContext,
           Learned(ctx, passed), NEW c, FitsIn(c, k), c \notin passed,
           Requires[c] \subseteq passed,
           c = "turn.alloc.tls" => "turn.alloc.udp" \notin passed,
           c = "turn.alloc.udp" => "turn.alloc.tls" \notin passed,
           NEW a \in Outcomes(c)
    PROVE  Sound(c, a)
<1> USE DEF Sound
<1>1. /\ NoAddr \notin Addrs
      /\ \A s \in Sessions : s # NoSession /\ s.relayed \in Addrs
    BY NoAddrAssumption DEF Sessions, NoSession
<1>2. /\ c \in {"stun.binding", "turn.alloc.udp", "turn.alloc.tls", "dtls.remote"} =>
            "dns" \in passed
      /\ c = "turn.echo.udp" => "turn.alloc.udp" \in passed /\ "stun.binding" \in passed
      /\ c = "ice.gather" => "stun.binding" \in passed
    BY RequiresMeans DEF FitsIn
<1>3. /\ c \in {"stun.binding", "turn.alloc.udp", "turn.alloc.tls", "dtls.remote"} =>
            HasTarget(ctx) /\ ctx.host
      /\ c = "dns" => ctx.host
      /\ c \in {"turn.alloc.udp", "turn.alloc.tls"} =>
            (HasCredentials(ctx) <=> command.user /\ command.pass)
    BY <1>2 DEF TargetInv, FitsIn, Learned, HasTarget, HasCredentials, CommandInv, Command
<1>4. CASE c = "dns"
    <2>1. a \in {Answer("fail", ctx), Answer("pass", [ctx EXCEPT !.ips = TRUE])}
        BY <1>3, <1>4 DEF Outcomes, DnsOutcomes
    <2>2. CASE a = Answer("fail", ctx)
        BY <1>4, <2>2 DEF Answer
    <2>3. CASE a = Answer("pass", [ctx EXCEPT !.ips = TRUE])
        <3>1. a.status = "pass" /\ a.ctx = [ctx EXCEPT !.ips = TRUE]
            BY <2>3 DEF Answer
        <3>2. a.ctx \in ProbeContext
            BY <3>1 DEF ProbeContext
        <3>3. Learned(a.ctx, passed \cup {c})
            BY <1>4, <3>1 DEF Learned, HasCredentials, ProbeContext
        <3> QED BY <1>4, <3>1, <3>2, <3>3 DEF ProbeContext
    <2> QED BY <2>1, <2>2, <2>3
<1>5. CASE c = "stun.binding"
    <2>1. \/ a = Answer("fail", ctx)
          \/ \E r \in Addrs : a = Answer("pass", [ctx EXCEPT !.srflx = r])
        BY <1>3, <1>5 DEF Outcomes, StunOutcomes
    <2> QED BY <1>1, <1>5, <2>1 DEF Answer, ProbeContext, Learned, HasCredentials
<1>6. CASE c = "turn.alloc.udp"
    <2>1. \/ a = Answer("fail", ctx)
          \/ \E r \in Addrs : a = Answer("pass", [ctx EXCEPT !.relayed = r])
          \/ HasCredentials(ctx) /\ \E s \in Sessions :
                a = Answer("pass", [ctx EXCEPT !.relayed = s.relayed, !.session = s])
          \/ ~HasCredentials(ctx) /\ a = Answer("warn", ctx)
        BY <1>3, <1>6 DEF Outcomes, AllocOutcomes
    <2>2. ctx.session = NoSession
        BY <1>6 DEF Learned
    <2>3. ASSUME NEW s \in Sessions, HasCredentials(ctx),
                 a = Answer("pass", [ctx EXCEPT !.relayed = s.relayed, !.session = s])
          PROVE  /\ a.status = "pass" /\ a.ctx \in ProbeContext
                 /\ a.ctx.host = ctx.host /\ a.ctx.port = ctx.port
                 /\ a.ctx.user = ctx.user /\ a.ctx.pass = ctx.pass
                 /\ Learned(a.ctx, passed \cup {c})
        <3>1. a.status = "pass" /\ a.ctx = [ctx EXCEPT !.relayed = s.relayed, !.session = s]
            BY <2>3 DEF Answer
        <3>2. a.ctx \in ProbeContext
            BY <1>1, <3>1 DEF ProbeContext
        <3>3. /\ a.ctx.host = ctx.host /\ a.ctx.port = ctx.port
              /\ a.ctx.user = ctx.user /\ a.ctx.pass = ctx.pass
              /\ a.ctx.ips = ctx.ips /\ a.ctx.srflx = ctx.srflx
              /\ a.ctx.relayed = s.relayed /\ a.ctx.session = s
            BY <3>1 DEF ProbeContext
        <3>4. s.relayed # NoAddr
            BY <1>1
        <3>5. Learned(a.ctx, passed \cup {c})
            BY <1>6, <2>3, <3>3, <3>4 DEF Learned, HasCredentials
        <3> QED BY <3>1, <3>2, <3>3, <3>5
    <2>4. CASE HasCredentials(ctx) /\ \E s \in Sessions :
                  a = Answer("pass", [ctx EXCEPT !.relayed = s.relayed, !.session = s])
        BY <2>3, <2>4
    <2>5. ASSUME NEW r \in Addrs, a = Answer("pass", [ctx EXCEPT !.relayed = r])
          PROVE  /\ a.status = "pass" /\ a.ctx \in ProbeContext
                 /\ a.ctx.host = ctx.host /\ a.ctx.port = ctx.port
                 /\ a.ctx.user = ctx.user /\ a.ctx.pass = ctx.pass
                 /\ Learned(a.ctx, passed \cup {c})
        BY <1>1, <1>6, <2>2, <2>5 DEF Answer, ProbeContext, Learned, HasCredentials
    <2>6. CASE \/ a = Answer("fail", ctx)
               \/ ~HasCredentials(ctx) /\ a = Answer("warn", ctx)
        <3>1. /\ a.ctx = ctx /\ a.status \in {"fail", "warn"}
              /\ a.status = "warn" => ~(command.user /\ command.pass)
            BY <1>3, <1>6, <2>6 DEF Answer
        <3> QED BY <1>6, <3>1
    <2>7. CASE \E r \in Addrs : a = Answer("pass", [ctx EXCEPT !.relayed = r])
        BY <2>5, <2>7
    <2> QED BY <2>1, <2>4, <2>6, <2>7
<1>7. CASE c = "turn.alloc.tls"
    <2>1. \/ a = Answer("fail", ctx)
          \/ \E r \in Addrs : a = Answer("pass", [ctx EXCEPT !.relayed = r])
          \/ ~HasCredentials(ctx) /\ a = Answer("warn", ctx)
        BY <1>3, <1>7 DEF Outcomes, TurnsOutcomes
    <2>2. ctx.session = NoSession
        BY <1>7 DEF Learned
    <2> QED BY <1>1, <1>3, <1>7, <2>1, <2>2 DEF Answer, ProbeContext, Learned, HasCredentials
<1>8. CASE c = "turn.echo.udp"
    <2>1. ctx.srflx # NoAddr /\ ctx.relayed # NoAddr
        BY <1>2, <1>8 DEF Learned
    <2>2. \/ ctx.session = NoSession /\ a = Answer("skip", ctx)
          \/ \E s \in {"pass", "warn", "fail"} : a = Answer(s, ctx)
        BY <1>8, <2>1 DEF Outcomes, EchoOutcomes
    <2> QED BY <1>2, <1>8, <2>1, <2>2 DEF Answer, Learned, HasCredentials
<1>9. CASE c = "ice.gather"
    <2>1. ctx.srflx # NoAddr
        BY <1>2, <1>9 DEF Learned
    <2>2. \A host \in BOOLEAN : CandidateKinds(ctx, host) # {}
        BY <2>1 DEF CandidateKinds
    <2>3. a = Answer("fail", ctx) \/ a = Answer("pass", ctx)
        BY <1>9, <2>2 DEF Outcomes, IceOutcomes
    <2> QED BY <1>9, <2>3 DEF Answer, Learned, HasCredentials
<1>10. CASE c \in {"signaling", "dtls.remote", "dtls.loopback"}
    <2>1. a = Answer("fail", ctx) \/ a = Answer("pass", ctx)
        BY <1>3, <1>10 DEF Outcomes, SignalingOutcomes, DtlsRemoteOutcomes, DtlsLoopbackOutcomes
    <2> QED BY <1>10, <2>1 DEF Answer, Learned, HasCredentials
<1> QED BY <1>4, <1>5, <1>6, <1>7, <1>8, <1>9, <1>10 DEF FitsIn, CheckIds

-----------------------------------------------------------------------------
(* The steps *)

\* The targets given are as Command says.
LEMMA TargetsAreUrls ==
    /\ FullTargets \subseteq Seq(Url)
    /\ \A url \in Url : <<url>> \in Seq(Url)
<1>1. FullKinds \subseteq Kinds /\ "loopback" \notin FullKinds
    BY DEF FullKinds, Kinds, Pipelines
<1>2. ASSUME NEW k \in FullKinds, NEW given, NEW valid
      PROVE  Given(k, given, valid) \in Seq(Url)
    <2>1. [kind |-> k, valid |-> k \in valid] \in Url
        <3>1. (k \in valid) \in BOOLEAN /\ k \in Kinds /\ k # "loopback"
            BY <1>1
        <3>2. PICK b \in BOOLEAN : b = (k \in valid)
            BY <3>1
        <3>3. [kind |-> k, valid |-> b] \in Url
            BY <3>1, <3>2 DEF Url
        <3> QED BY <3>2, <3>3
    <2>2. <<[kind |-> k, valid |-> k \in valid]>> \in Seq(Url) /\ <<>> \in Seq(Url)
        BY <2>1
    <2> QED BY <2>2 DEF Given
<1>3. ASSUME NEW given, NEW valid
      PROVE  Given("signaling", given, valid) \o Given("stun", given, valid)
                 \o Given("turn", given, valid) \o Given("turns", given, valid) \in Seq(Url)
    <2> DEFINE g(k) == Given(k, given, valid)
    <2>1. g("signaling") \in Seq(Url) /\ g("stun") \in Seq(Url)
          /\ g("turn") \in Seq(Url) /\ g("turns") \in Seq(Url)
        BY <1>2 DEF FullKinds
    <2> HIDE DEF g
    <2>2. g("signaling") \o g("stun") \in Seq(Url)
        BY <2>1, ConcatProperties
    <2>3. g("signaling") \o g("stun") \o g("turn") \in Seq(Url)
        BY <2>1, <2>2, ConcatProperties
    <2>4. g("signaling") \o g("stun") \o g("turn") \o g("turns") \in Seq(Url)
        BY <2>1, <2>3, ConcatProperties
    <2> QED BY <2>4 DEF g
<1>4. FullTargets \subseteq Seq(Url)
    <2> SUFFICES ASSUME NEW t \in FullTargets PROVE t \in Seq(Url)
        OBVIOUS
    <2>1. PICK given \in SUBSET FullKinds, valid \in SUBSET FullKinds :
              t = Given("signaling", given, valid) \o Given("stun", given, valid)
                      \o Given("turn", given, valid) \o Given("turns", given, valid)
        BY DEF FullTargets
    <2> QED BY <1>3, <2>1
<1> QED BY <1>4

LEMMA InitIInv == Init => IInv
<1> SUFFICES ASSUME Init PROVE IInv
    OBVIOUS
<1>1. /\ step = 0 /\ pc = "parsing" /\ report = <<>> /\ verdicts = <<>>
      /\ checks = <<>> /\ running = FALSE /\ passed = {} /\ results = <<>>
      /\ ctx = NewContext(FALSE, FALSE, FALSE, FALSE)
    BY DEF Init, P!Init
<1>2. command \in Command
    <2>1. PICK user \in BOOLEAN, pass \in BOOLEAN, full \in BOOLEAN, targets \in Seq(Url) :
              command = [full |-> full, targets |-> targets, user |-> user, pass |-> pass]
        BY TargetsAreUrls DEF Init
    <2> QED BY <2>1 DEF Command
<1>3. CommandInv
    <2>1. Len(command.targets) \in Nat
        BY <1>2 DEF Command
    <2> QED BY <1>1, <1>2, <2>1 DEF CommandInv
<1>4. PP!IInv
    <2>1. PP!Init
        BY <1>1 DEF PP!Init
    <2> QED BY <2>1, RequiresIsTyped, PP!InitIInv
<1>5. ContextInv
    <2>1. ctx \in ProbeContext /\ Learned(ctx, passed)
        BY <1>1 DEF NewContext, ProbeContext, NoSession, Learned
    <2>2. DOMAIN results = {}
        BY <1>1
    <2> QED BY <1>1, <2>1, <2>2 DEF ContextInv, OnlyAnonymousSkips, WarningsExplained
<1>6. VerdictInv
    <2>1. DOMAIN report = {} /\ DOMAIN verdicts = {} /\ Len(verdicts) = 0
        BY <1>1
    <2> QED BY <1>1, <2>1 DEF VerdictInv, P!HasStatus
<1>7. ReportInv
    <2>1. Len(report) = 0 /\ Len(verdicts) = 0
        BY <1>1
    <2>2. UNION {{i} \X DOMAIN PipelineOf(i) : i \in 1..((0 + 1) - 1)} = {}
        OBVIOUS
    <2>3. ChecksBefore(0 + 1) = 0
        BY <2>2, FS_EmptySet DEF ChecksBefore
    <2> QED BY <1>1, <2>1, <2>3 DEF ReportInv
<1> QED BY <1>3, <1>4, <1>5, <1>6, <1>7 DEF IInv

\* The command stands, and with it the checks.
LEMMA SameCommand ==
    ASSUME command' = command
    PROVE  \A j : PipelineOf(j)' = PipelineOf(j) /\ ChecksBefore(j)' = ChecksBefore(j)
<1>1. \A j : PipelineOf(j)' = PipelineOf(j)
    BY DEF PipelineOf
<1> QED BY <1>1 DEF ChecksBefore

\* So a step that adds no results to the report changes little.
LEMMA ReportStands ==
    ASSUME IInv, UNCHANGED <<command, report, verdicts>>,
           pc' = "probing" => checks' = PipelineOf(step')
    PROVE  ReportInv'
<1>1. \A j : PipelineOf(j)' = PipelineOf(j) /\ ChecksBefore(j)' = ChecksBefore(j)
    BY SameCommand
<1>2. Len(report') = ChecksBefore(Len(verdicts') + 1)
    BY DEF IInv, ReportInv
<1>3. \A j \in 1..Len(verdicts') : \A i \in DOMAIN PipelineOf(j) :
          report'[ChecksBefore(j) + i].id = PipelineOf(j)[i]
    BY DEF IInv, ReportInv
<1> QED BY <1>1, <1>2, <1>3 DEF ReportInv

\* A new target: no results, and a context of its own kind.
LEMMA BeginKeepsIInv == IInv /\ Begin => IInv'
<1> SUFFICES ASSUME IInv, Begin PROVE IInv'
    OBVIOUS
<1>0. PICK k : k = NextUrl.kind
    OBVIOUS
<1>1. /\ pc = "parsing" /\ pc' = "probing" /\ step' = step + 1
      /\ ctx' = Target(k) /\ checks' = Pipelines[k] /\ running' = TRUE
      /\ passed' = {} /\ results' = <<>>
      /\ step < Len(command.targets)
      /\ UNCHANGED <<command, report, verdicts>>
    BY <1>0 DEF Begin, More
<1>2. /\ command.targets \in Seq(Url) /\ step \in Nat /\ Len(command.targets) \in Nat
      /\ command.user \in BOOLEAN /\ command.pass \in BOOLEAN
    BY DEF IInv, CommandInv, Command
<1>3. k \in Kinds
    <2>1. step + 1 \in 1..Len(command.targets)
        BY <1>1, <1>2
    <2>2. NextUrl \in Url
        BY <1>2, <2>1 DEF NextUrl
    <2> QED BY <1>0, <2>2 DEF Url
<1>4. CommandInv'
    BY <1>1, <1>2 DEF IInv, CommandInv
<1>5. PP!IInv'
    <2>1. Pipelines[k] \in Seq(CheckIds)
        BY <1>3, Places
    <2> QED BY <1>1, <2>1, NewPipelineKeeps
<1>6. ContextInv'
    <2>1. /\ ctx' \in ProbeContext /\ Learned(ctx', {})
          /\ ctx'.host = (k # "loopback") /\ ctx'.port = (k \notin {"loopback", "signaling"})
          /\ ctx'.user = (k \in Credentialed /\ command.user)
          /\ ctx'.pass = (k \in Credentialed /\ command.pass)
        <3>1. ASSUME NEW host \in BOOLEAN, NEW port \in BOOLEAN,
                     NEW user \in BOOLEAN, NEW pass \in BOOLEAN
              PROVE  LET c == NewContext(host, port, user, pass)
                     IN  /\ c \in ProbeContext /\ Learned(c, {})
                         /\ c.host = host /\ c.port = port
                         /\ c.user = user /\ c.pass = pass
            BY DEF NewContext, ProbeContext, NoSession, Learned
        <3>2. /\ (k # "loopback") \in BOOLEAN /\ (k \notin {"loopback", "signaling"}) \in BOOLEAN
              /\ (k \in Credentialed /\ command.user) \in BOOLEAN
              /\ (k \in Credentialed /\ command.pass) \in BOOLEAN
            OBVIOUS
        <3>3. ctx' = NewContext(k # "loopback", k \notin {"loopback", "signaling"},
                                k \in Credentialed /\ command.user,
                                k \in Credentialed /\ command.pass)
            BY <1>1 DEF Target
        <3> QED BY <3>1, <3>2, <3>3
    <2>2. TargetInv(k)'
        BY <1>1, <2>1 DEF TargetInv
    <2>3. DOMAIN results' = {}
        BY <1>1
    <2> QED BY <1>1, <1>3, <2>1, <2>2, <2>3 DEF ContextInv, OnlyAnonymousSkips, WarningsExplained
<1>7. VerdictInv'
    BY <1>1 DEF IInv, VerdictInv, P!HasStatus
<1>8. ReportInv'
    <2>1. checks' = PipelineOf(step')
        BY <1>0, <1>1 DEF PipelineOf, NextUrl
    <2> QED BY <1>1, <2>1, ReportStands
<1> QED BY <1>4, <1>5, <1>6, <1>7, <1>8 DEF IInv

\* Where the runner stands: the check at hand is in its pipeline, for the
\* first time, and what has passed stands before it.
LEMMA CurrentMeans ==
    ASSUME IInv, pc = "probing", P!Busy
    PROVE  \E k \in Kinds :
               /\ TargetInv(k) /\ FitsIn(P!Current, k)
               /\ P!Current \notin passed
               /\ P!Current = "turn.alloc.tls" => "turn.alloc.udp" \notin passed
               /\ P!Current = "turn.alloc.udp" => "turn.alloc.tls" \notin passed
               /\ \A i \in DOMAIN results :
                     results[i].id \in CheckIds /\ results[i].id # "turn.echo.udp"
<1>1. PICK k \in Kinds : TargetInv(k)
    BY DEF IInv, ContextInv
<1> DEFINE p == Pipelines[k]
           n == Len(results) + 1
<1>2. /\ p \in Seq(CheckIds) /\ Len(p) \in Nat /\ Len(results) \in Nat
      /\ DOMAIN results = 1..Len(results)
      /\ n \in 1..Len(p) /\ P!Current = p[n]
    <2>1. checks = p
        BY <1>1 DEF TargetInv
    <2>2. results \in Seq(PP!CheckResult(CheckIds)) /\ p \in Seq(CheckIds)
        BY Places DEF IInv, PP!IInv, PP!TypeOK
    <2>3. Len(p) \in Nat /\ Len(results) \in Nat /\ DOMAIN results = 1..Len(results)
        BY <2>2
    <2>4. Len(results) < Len(p)
        BY <2>1 DEF P!Busy
    <2> QED BY <2>1, <2>2, <2>3, <2>4 DEF P!Current
<1>3. \A i \in DOMAIN results : results[i].id = p[i] /\ i \in 1..Len(p) /\ i < n
    <2>1. \A i \in DOMAIN results : results[i].id = checks[i]
        BY DEF IInv, PP!IInv, PP!ResultsFollowChecks
    <2> QED BY <1>1, <1>2, <2>1 DEF TargetInv
<1>4. FitsIn(p[n], k)
    BY <1>2, Places
<1>5. \A i \in DOMAIN results : p[i] # p[n] /\ p[i] # "turn.echo.udp" /\ FitsIn(p[i], k)
    BY <1>2, <1>3, Places
<1>6. \A a \in passed : \E i \in DOMAIN results : a = p[i]
    <2>1. \A a \in passed : \E i \in DOMAIN results : results[i].id = a
        BY DEF IInv, PP!IInv, PP!PassedIsReported, PP!Passes
    <2> QED BY <1>3, <2>1
<1>7. p[n] \notin passed
    BY <1>5, <1>6
<1>8. /\ p[n] = "turn.alloc.tls" => "turn.alloc.udp" \notin passed
      /\ p[n] = "turn.alloc.udp" => "turn.alloc.tls" \notin passed
    <2>1. \A a \in passed : FitsIn(a, k)
        BY <1>5, <1>6
    <2> QED BY <1>4, <2>1 DEF FitsIn
<1> QED BY <1>1, <1>2, <1>3, <1>4, <1>5, <1>7, <1>8 DEF FitsIn

\* A result more, and what becomes of the skips and warnings.
LEMMA ResultMore ==
    ASSUME IInv, NEW r, results' = Append(results, r)
    PROVE  /\ DOMAIN results' = DOMAIN results \cup {Len(results) + 1}
           /\ results'[Len(results) + 1] = r
           /\ \A i \in DOMAIN results : results'[i] = results[i]
<1>1. results \in Seq(PP!CheckResult(CheckIds)) /\ Len(results) \in Nat
    BY DEF IInv, PP!IInv, PP!TypeOK
<1> DEFINE S == PP!CheckResult(CheckIds) \cup {r}
<1>2. results \in Seq(S) /\ r \in S
    BY <1>1
<1>3. /\ Append(results, r) \in Seq(S)
      /\ Len(Append(results, r)) = Len(results) + 1
      /\ \A i \in 1..Len(results) : Append(results, r)[i] = results[i]
      /\ Append(results, r)[Len(results) + 1] = r
    BY <1>2, AppendProperties
<1>4. DOMAIN results = 1..Len(results) /\ DOMAIN results' = 1..(Len(results) + 1)
    BY <1>1, <1>3
<1> QED BY <1>1, <1>3, <1>4

LEMMA RunCheckKeepsIInv == IInv /\ RunCheck => IInv'
<1> SUFFICES ASSUME IInv, RunCheck PROVE IInv'
    OBVIOUS
<1>1. PICK a \in Outcomes(P!Current) : P!RunCheck(a.status) /\ ctx' = a.ctx
    BY DEF RunCheck
<1>2. PICK c : c = P!Current
    OBVIOUS
<1> DEFINE r == [id |-> c, status |-> a.status, ran |-> TRUE]
<1>3. /\ pc = "probing" /\ P!Busy /\ Requires[c] \subseteq passed
      /\ UNCHANGED <<command, step, pc, report, verdicts, checks, running>>
      /\ results' = Append(results, r)
      /\ passed' = IF a.status = "pass" THEN passed \cup {c} ELSE passed
    BY <1>1, <1>2 DEF RunCheck, P!RunCheck, P!Missing, P!Record
<1>4. PICK k \in Kinds :
          /\ TargetInv(k) /\ FitsIn(c, k) /\ c \notin passed
          /\ c = "turn.alloc.tls" => "turn.alloc.udp" \notin passed
          /\ c = "turn.alloc.udp" => "turn.alloc.tls" \notin passed
          /\ \A i \in DOMAIN results :
                results[i].id \in CheckIds /\ results[i].id # "turn.echo.udp"
    BY <1>2, <1>3, CurrentMeans
<1>5. /\ a.status \in {"pass", "warn", "fail", "skip"}
      /\ ctx' \in ProbeContext
      /\ ctx'.host = ctx.host /\ ctx'.port = ctx.port
      /\ ctx'.user = ctx.user /\ ctx'.pass = ctx.pass
      /\ Learned(ctx', passed')
      /\ a.status = "skip" =>
            /\ c = "turn.echo.udp" /\ "turn.alloc.udp" \in passed
            /\ ctx'.relayed # NoAddr /\ ctx'.session = NoSession
      /\ a.status = "warn" =>
            \/ c = "turn.echo.udp"
            \/ /\ c \in {"turn.alloc.udp", "turn.alloc.tls"}
               /\ ~(command.user /\ command.pass)
    <2>1. a \in Outcomes(c) /\ CommandInv /\ ctx \in ProbeContext /\ Learned(ctx, passed)
        BY <1>2 DEF IInv, ContextInv
    <2>2. Sound(c, a)
        BY <1>3, <1>4, <2>1, OutcomeMeans
    <2> QED BY <1>1, <1>3, <2>2 DEF Sound
<1>6. CommandInv'
    BY <1>3 DEF IInv, CommandInv
<1>7. PP!IInv'
    BY <1>1, <1>5, RunnerKeeps DEF IInv
<1>8. /\ DOMAIN results' = DOMAIN results \cup {Len(results) + 1}
      /\ results'[Len(results) + 1] = r
      /\ \A i \in DOMAIN results : results'[i] = results[i]
    BY <1>3, ResultMore
<1>9. OnlyAnonymousSkips'
    <2> SUFFICES ASSUME NEW i \in DOMAIN results', results'[i].ran, results'[i].status = "skip"
                 PROVE  /\ results'[i].id = "turn.echo.udp" /\ "turn.alloc.udp" \in passed'
                        /\ ctx'.relayed # NoAddr /\ ctx'.session = NoSession
        BY DEF OnlyAnonymousSkips
    <2>1. i \notin DOMAIN results
        BY <1>4, <1>8 DEF IInv, ContextInv, OnlyAnonymousSkips
    <2>2. results'[i] = r
        BY <1>8, <2>1
    <2> QED BY <1>3, <1>5, <2>2
<1>10. WarningsExplained'
    BY <1>3, <1>5, <1>8 DEF IInv, ContextInv, WarningsExplained
<1>11. TargetInv(k)'
    BY <1>3, <1>4, <1>5 DEF TargetInv
<1>12. ContextInv'
    BY <1>5, <1>9, <1>10, <1>11 DEF ContextInv
<1>13. VerdictInv'
    BY <1>3 DEF IInv, VerdictInv, P!HasStatus
<1>14. ReportInv'
    <2>1. checks = PipelineOf(step)
        BY <1>3 DEF IInv, ReportInv
    <2> QED BY <1>3, <2>1, ReportStands
<1> QED BY <1>6, <1>7, <1>12, <1>13, <1>14 DEF IInv

LEMMA SkipCheckKeepsIInv == IInv /\ SkipCheck => IInv'
<1> SUFFICES ASSUME IInv, SkipCheck PROVE IInv'
    OBVIOUS
<1> DEFINE r == P!PrerequisiteSkip(P!Current)
<1>1. /\ pc = "probing" /\ P!SkipCheck
      /\ UNCHANGED <<command, step, pc, ctx, report, verdicts, checks, running, passed>>
      /\ results' = Append(results, r)
      /\ r.status = "skip" /\ r.ran = FALSE
    BY DEF SkipCheck, P!SkipCheck, P!Record, P!PrerequisiteSkip
<1>2. /\ DOMAIN results' = DOMAIN results \cup {Len(results) + 1}
      /\ results'[Len(results) + 1] = r
      /\ \A i \in DOMAIN results : results'[i] = results[i]
    BY <1>1, ResultMore
<1>3. CommandInv' /\ VerdictInv'
    BY <1>1 DEF IInv, CommandInv, VerdictInv, P!HasStatus
<1>4. PP!IInv'
    BY <1>1, RunnerKeeps DEF IInv
<1>5. OnlyAnonymousSkips' /\ WarningsExplained'
    BY <1>1, <1>2 DEF IInv, ContextInv, OnlyAnonymousSkips, WarningsExplained
<1>6. PICK k \in Kinds : TargetInv(k)
    BY <1>1 DEF IInv, ContextInv
<1>7. TargetInv(k)'
    BY <1>1, <1>6 DEF TargetInv
<1>8. ContextInv'
    BY <1>1, <1>5, <1>7 DEF IInv, ContextInv
<1>9. ReportInv'
    <2>1. checks = PipelineOf(step)
        BY <1>1 DEF IInv, ReportInv
    <2> QED BY <1>1, <2>1, ReportStands
<1> QED BY <1>3, <1>4, <1>8, <1>9 DEF IInv

\* A list has a status when one of its parts has (Report::verdict).
LEMMA StatusOfConcat ==
    ASSUME NEW S, NEW x \in Seq(S), NEW y \in Seq(S), NEW s
    PROVE  P!HasStatus(x \o y, s) <=> P!HasStatus(x, s) \/ P!HasStatus(y, s)
<1>1. /\ Len(x) \in Nat /\ Len(y) \in Nat
      /\ DOMAIN x = 1..Len(x) /\ DOMAIN y = 1..Len(y)
      /\ DOMAIN (x \o y) = 1..(Len(x) + Len(y))
      /\ \A i \in 1..Len(x) : (x \o y)[i] = x[i]
      /\ \A i \in 1..Len(y) : (x \o y)[Len(x) + i] = y[i]
    OBVIOUS
<1>2. ASSUME NEW i \in DOMAIN (x \o y), i \notin DOMAIN x
      PROVE  i - Len(x) \in DOMAIN y /\ (x \o y)[i] = y[i - Len(x)]
    <2>1. i - Len(x) \in 1..Len(y) /\ Len(x) + (i - Len(x)) = i
        BY <1>1, <1>2
    <2> QED BY <1>1, <2>1
<1>3. P!HasStatus(x \o y, s) => P!HasStatus(x, s) \/ P!HasStatus(y, s)
    BY <1>1, <1>2 DEF P!HasStatus
<1>4. P!HasStatus(x, s) => P!HasStatus(x \o y, s)
    BY <1>1 DEF P!HasStatus
<1>5. P!HasStatus(y, s) => P!HasStatus(x \o y, s)
    <2> SUFFICES ASSUME NEW i \in DOMAIN y, y[i].status = s PROVE P!HasStatus(x \o y, s)
        BY DEF P!HasStatus
    <2>1. Len(x) + i \in DOMAIN (x \o y) /\ (x \o y)[Len(x) + i].status = s
        BY <1>1
    <2> QED BY <2>1 DEF P!HasStatus
<1> QED BY <1>3, <1>4, <1>5

\* A step that moves pc and nothing else.
LEMMA QuietKeepsIInv ==
    ASSUME IInv, UNCHANGED <<command, step, pipelineVars, ctx, report, verdicts>>,
           pc' \in {"parsing", "probing", "reported", "failed"},
           pc' = pc \/ (pc = "parsing" /\ pc' # "probing"),
           pc' = "reported" => step > 0 /\ step = Len(command.targets)
    PROVE  IInv'
<1>1. CommandInv' /\ VerdictInv'
    BY DEF IInv, CommandInv, VerdictInv, P!HasStatus
<1>2. PP!IInv'
    BY RunnerStands DEF IInv
<1>3. ContextInv'
    <2>1. ASSUME NEW k, TargetInv(k) PROVE TargetInv(k)'
        BY <2>1 DEF TargetInv, pipelineVars
    <2> QED BY <2>1 DEF IInv, ContextInv, OnlyAnonymousSkips, WarningsExplained, pipelineVars
<1>4. ReportInv'
    <2>1. pc' = "probing" => checks' = PipelineOf(step')
        <3>1. pc = "probing" => checks = PipelineOf(step)
            BY DEF IInv, ReportInv
        <3> QED BY <3>1 DEF pipelineVars
    <2> QED BY <2>1, ReportStands
<1> QED BY <1>1, <1>2, <1>3, <1>4 DEF IInv

\* The results join the report, the verdict on them the verdicts.
LEMMA ExtendKeepsIInv == IInv /\ Extend => IInv'
<1> SUFFICES ASSUME IInv, Extend PROVE IInv'
    OBVIOUS
<1>1. PICK v : v = P!Verdict(results)
    OBVIOUS
<1>2. /\ pc = "probing" /\ pc' = "parsing"
      /\ report' = report \o results
      /\ verdicts' = Append(verdicts, v)
      /\ UNCHANGED <<command, step, pipelineVars, ctx>>
    BY <1>1 DEF Extend
<1>3. /\ v \in {"healthy", "warnings", "failed"}
      /\ v = "failed" <=> P!HasStatus(results, "fail")
      /\ v # "healthy" <=> P!HasStatus(results, "fail") \/ P!HasStatus(results, "warn")
    BY <1>1 DEF P!Verdict
<1>4. /\ results \in Seq(P!CheckResult(CheckIds)) /\ report \in Seq(P!CheckResult(CheckIds))
      /\ verdicts \in Seq({"healthy", "warnings", "failed"})
    BY DEF IInv, CommandInv, PP!IInv, PP!TypeOK, P!CheckResult, PP!CheckResult,
           P!CheckStatus, PP!CheckStatus
<1>5. CommandInv'
    BY <1>2, <1>3, <1>4 DEF IInv, CommandInv
<1>6. PP!IInv'
    BY <1>2, RunnerStands DEF IInv
<1>7. ContextInv'
    <2>1. PICK k \in Kinds : TargetInv(k)
        BY <1>2 DEF IInv, ContextInv
    <2>2. TargetInv(k)'
        BY <1>2, <2>1 DEF TargetInv, pipelineVars
    <2> QED BY <1>2, <2>2 DEF IInv, ContextInv, OnlyAnonymousSkips, WarningsExplained, pipelineVars
<1>8. \A s : P!HasStatus(report', s) <=> P!HasStatus(report, s) \/ P!HasStatus(results, s)
    BY <1>2, <1>4, StatusOfConcat
<1>9. VerdictInv'
    <2>1. /\ DOMAIN verdicts' = DOMAIN verdicts \cup {Len(verdicts) + 1}
          /\ verdicts'[Len(verdicts) + 1] = v
          /\ \A i \in DOMAIN verdicts : verdicts'[i] = verdicts[i]
          /\ Len(verdicts') = Len(verdicts) + 1 /\ Len(verdicts) \in Nat
        BY <1>2, <1>3, <1>4, AppendProperties
    <2>2. P!HasStatus(report', "fail") <=> \E i \in DOMAIN verdicts' : verdicts'[i] = "failed"
        BY <1>3, <1>8, <2>1 DEF IInv, VerdictInv
    <2>3. P!HasStatus(report', "fail") \/ P!HasStatus(report', "warn")
              <=> \E i \in DOMAIN verdicts' : verdicts'[i] # "healthy"
        BY <1>3, <1>8, <2>1 DEF IInv, VerdictInv
    <2> QED BY <1>2, <2>1, <2>2, <2>3 DEF IInv, VerdictInv, P!HasStatus
<1>10. ReportInv'
    <2>1. PICK n \in Nat : n = Len(verdicts)
        BY <1>4
    <2>2. step = n + 1 /\ n + 1 \in 1..Len(command.targets)
        <3>1. step \in 0..Len(command.targets) /\ Len(command.targets) \in Nat
            BY DEF IInv, CommandInv, Command
        <3>2. n + 1 = step
            BY <1>2, <2>1 DEF IInv, VerdictInv
        <3> QED BY <2>1, <3>1, <3>2
    <2>3. /\ ChecksBefore(n + 1) \in Nat /\ Len(PipelineOf(n + 1)) \in Nat
          /\ DOMAIN PipelineOf(n + 1) = 1..Len(PipelineOf(n + 1))
          /\ ChecksBefore((n + 1) + 1) = ChecksBefore(n + 1) + Len(PipelineOf(n + 1))
        BY <2>2, ChecksOfOneMore DEF IInv, CommandInv
    <2>4. /\ Len(report) = ChecksBefore(n + 1) /\ Len(results) = Len(PipelineOf(n + 1))
          /\ \A i \in DOMAIN PipelineOf(n + 1) : results[i].id = PipelineOf(n + 1)[i]
        <3>1. checks = PipelineOf(n + 1)
            BY <1>2, <2>2 DEF IInv, ReportInv
        <3>2. Len(results) = Len(checks)
            BY DEF Extend, P!Finished
        <3>3. DOMAIN results = 1..Len(results)
            BY <1>4
        <3>4. \A i \in DOMAIN results : results[i].id = checks[i]
            BY DEF IInv, PP!IInv, PP!ResultsFollowChecks
        <3>5. Len(report) = ChecksBefore(n + 1)
            BY <2>1 DEF IInv, ReportInv
        <3> QED BY <2>3, <3>1, <3>2, <3>3, <3>4, <3>5
    <2>5. /\ Len(report') = Len(report) + Len(results)
          /\ \A i \in 1..Len(report) : report'[i] = report[i]
          /\ \A i \in 1..Len(results) : report'[Len(report) + i] = results[i]
          /\ Len(verdicts') = n + 1
        BY <1>2, <1>3, <1>4, <2>1
    <2>6. Len(report') = ChecksBefore(Len(verdicts') + 1)
        BY <2>3, <2>4, <2>5
    <2>7. ASSUME NEW j \in 1..n, NEW i \in DOMAIN PipelineOf(j)
          PROVE  report'[ChecksBefore(j) + i].id = PipelineOf(j)[i]
        <3>1. /\ j \in 1..Len(command.targets) /\ j + 1 \in 1..(n + 1)
              /\ Len(command.targets) \in Nat
            BY <2>2 DEF IInv, CommandInv, Command
        <3>2. /\ ChecksBefore(j) \in Nat /\ Len(PipelineOf(j)) \in Nat
              /\ DOMAIN PipelineOf(j) = 1..Len(PipelineOf(j))
              /\ ChecksBefore(j + 1) = ChecksBefore(j) + Len(PipelineOf(j))
            BY <3>1, ChecksOfOneMore DEF IInv, CommandInv
        <3>3. ChecksBefore(j + 1) <= ChecksBefore(n + 1)
            BY <2>2, <3>1, ChecksOfOneMore DEF IInv, CommandInv
        <3>4. ChecksBefore(j) + i \in 1..Len(report)
            BY <2>3, <2>4, <3>2, <3>3
        <3>5. report[ChecksBefore(j) + i].id = PipelineOf(j)[i]
            BY <2>1 DEF IInv, ReportInv
        <3> QED BY <2>5, <3>4, <3>5
    <2>8. \A i \in DOMAIN PipelineOf(n + 1) :
              report'[ChecksBefore(n + 1) + i].id = PipelineOf(n + 1)[i]
        BY <2>3, <2>4, <2>5
    <2>9. \A j \in 1..Len(verdicts') : \A i \in DOMAIN PipelineOf(j) :
              report'[ChecksBefore(j) + i].id = PipelineOf(j)[i]
        <3>1. \A j \in 1..(n + 1) : j \in 1..n \/ j = n + 1
            OBVIOUS
        <3> QED BY <2>5, <2>7, <2>8, <3>1
    <2>10. \A j : PipelineOf(j)' = PipelineOf(j) /\ ChecksBefore(j)' = ChecksBefore(j)
        BY <1>2, SameCommand
    <2> QED BY <1>2, <2>6, <2>9, <2>10 DEF ReportInv
<1> QED BY <1>5, <1>6, <1>7, <1>9, <1>10 DEF IInv

LEMMA RenderKeepsIInv == IInv /\ Render => IInv'
<1> SUFFICES ASSUME IInv, Render PROVE IInv'
    OBVIOUS
<1>1. /\ pc = "parsing" /\ pc' = "reported" /\ step > 0 /\ ~(step < Len(command.targets))
      /\ UNCHANGED <<command, step, pipelineVars, ctx, report, verdicts>>
    BY DEF Render, More
<1>2. step = Len(command.targets)
    BY <1>1 DEF IInv, CommandInv, Command
<1> QED BY <1>1, <1>2, QuietKeepsIInv

\* An error returned from main.
LEMMA FailuresKeepIInv == IInv /\ (Bail \/ SecretMissing) => IInv'
<1> SUFFICES ASSUME IInv, Bail \/ SecretMissing PROVE IInv'
    OBVIOUS
<1>1. /\ pc = "parsing" /\ pc' = "failed"
      /\ UNCHANGED <<command, step, pipelineVars, ctx, report, verdicts>>
    BY DEF Bail, SecretMissing
<1> QED BY <1>1, QuietKeepsIInv

LEMMA NextIInv == IInv /\ [Next]_vars => IInv'
<1> SUFFICES ASSUME IInv, [Next]_vars PROVE IInv'
    OBVIOUS
<1>1. CASE UNCHANGED vars
    <2>1. pc' = pc /\ UNCHANGED <<command, step, pipelineVars, ctx, report, verdicts>>
        BY <1>1 DEF vars
    <2> QED BY <2>1, QuietKeepsIInv DEF IInv, VerdictInv, CommandInv
<1>2. CASE Begin
    BY <1>2, BeginKeepsIInv
<1>3. CASE Bail \/ SecretMissing
    BY <1>3, FailuresKeepIInv
<1>4. CASE RunCheck
    BY <1>4, RunCheckKeepsIInv
<1>5. CASE SkipCheck
    BY <1>5, SkipCheckKeepsIInv
<1>6. CASE Extend
    BY <1>6, ExtendKeepsIInv
<1>7. CASE Render
    BY <1>7, RenderKeepsIInv
<1> QED BY <1>1, <1>2, <1>3, <1>4, <1>5, <1>6, <1>7 DEF Next, Exited

-----------------------------------------------------------------------------
(* dtls --serve *)

\* Each client is at one place: in the backlog, taken up, or announced.
Queued(c) == \E k \in 1..Len(backlog) : backlog[k] = c
Announced(c) == \E k \in 1..Len(announced) : announced[k] = c

ServeInv ==
    /\ Serve!TypeOK
    /\ Serve!AnnouncedOnce
    /\ \A c \in Clients : client[c] = "new" => ~Queued(c) /\ peer # c /\ ~Announced(c)
    /\ \A c \in Clients : Queued(c) => peer # c /\ ~Announced(c)
    /\ \A c \in Clients : peer = c => ~Announced(c)
    /\ \A j, k \in 1..Len(backlog) : backlog[j] = backlog[k] => j = k

LEMMA InitServe == Serve!Init => ServeInv
<1> SUFFICES ASSUME Serve!Init PROVE ServeInv
    OBVIOUS
<1>1. /\ server = "binding" /\ peer = Serve!NoPeer /\ backlog = <<>>
      /\ client = [c \in Clients |-> "new"]
      /\ announced = <<>> /\ succeeded = {} /\ closing = {}
      /\ Serve!NoPeer \notin Clients
    BY NoPeerAssumption DEF Serve!Init
<1>2. /\ 1..Len(backlog) = {} /\ 1..Len(announced) = {}
      /\ backlog \in Seq(Clients) /\ announced \in Seq(Clients)
    BY <1>1
<1>3. Serve!TypeOK
    BY <1>1, <1>2 DEF Serve!TypeOK
<1>4. Serve!AnnouncedOnce
    BY <1>1, <1>2 DEF Serve!AnnouncedOnce
<1> QED BY <1>1, <1>2, <1>3, <1>4 DEF ServeInv, Queued, Announced

\* A list of things at most once each, and one thing more.
LEMMA OneMore ==
    ASSUME NEW S, NEW s \in Seq(S), NEW x \in S, NEW t, t = Append(s, x)
    PROVE  /\ t \in Seq(S) /\ Len(t) = Len(s) + 1 /\ Len(s) \in Nat
           /\ t[Len(s) + 1] = x /\ \A k \in 1..Len(s) : t[k] = s[k]
           /\ \A y : (\E k \in 1..Len(t) : t[k] = y)
                        <=> (\E k \in 1..Len(s) : s[k] = y) \/ y = x
           /\ (/\ \A j, k \in 1..Len(s) : s[j] = s[k] => j = k
               /\ \A k \in 1..Len(s) : s[k] # x) =>
                   \A j, k \in 1..Len(t) : t[j] = t[k] => j = k
<1>1. /\ t \in Seq(S) /\ Len(t) = Len(s) + 1 /\ Len(s) \in Nat
      /\ t[Len(s) + 1] = x /\ \A k \in 1..Len(s) : t[k] = s[k]
    BY AppendProperties
<1>2. \A k \in 1..Len(t) : k \in 1..Len(s) \/ k = Len(s) + 1
    BY <1>1
<1>3. \A k \in 1..Len(s) : k \in 1..Len(t)
    BY <1>1
<1>4. Len(s) + 1 \in 1..Len(t)
    BY <1>1
<1>5. ASSUME NEW y
      PROVE  (\E k \in 1..Len(t) : t[k] = y) <=> (\E k \in 1..Len(s) : s[k] = y) \/ y = x
    BY <1>1, <1>2, <1>3, <1>4
<1>6. ASSUME \A j, k \in 1..Len(s) : s[j] = s[k] => j = k,
             \A k \in 1..Len(s) : s[k] # x
      PROVE  \A j, k \in 1..Len(t) : t[j] = t[k] => j = k
    BY <1>1, <1>2, <1>6
<1> QED BY <1>1, <1>5, <1>6

\* The first of such a list taken away.
LEMMA OneLess ==
    ASSUME NEW S, NEW s \in Seq(S), s # <<>>, NEW t, t = Tail(s)
    PROVE  /\ t \in Seq(S) /\ Head(s) \in S /\ Len(t) = Len(s) - 1 /\ Len(s) \in Nat \ {0}
           /\ \A k \in 1..Len(t) : t[k] = s[k + 1] /\ k + 1 \in 1..Len(s)
           /\ 1 \in 1..Len(s) /\ Head(s) = s[1]
           /\ \A y : (\E k \in 1..Len(t) : t[k] = y) => (\E k \in 1..Len(s) : s[k] = y)
           /\ (\A j, k \in 1..Len(s) : s[j] = s[k] => j = k) =>
                 /\ \A j, k \in 1..Len(t) : t[j] = t[k] => j = k
                 /\ \A k \in 1..Len(t) : t[k] # Head(s)
<1>1. /\ t \in Seq(S) /\ Len(t) = Len(s) - 1 /\ Len(s) \in Nat \ {0}
      /\ Head(s) = s[1] /\ 1 \in 1..Len(s) /\ s[1] \in S
    <2>1. Len(s) \in Nat /\ Len(s) # 0
        BY EmptySeq
    <2> QED BY <2>1, HeadTailProperties
<1>2. \A k \in 1..Len(t) : t[k] = s[k + 1] /\ k + 1 \in 1..Len(s)
    BY <1>1, HeadTailProperties
<1>3. \A y : (\E k \in 1..Len(t) : t[k] = y) => (\E k \in 1..Len(s) : s[k] = y)
    BY <1>2
<1>4. ASSUME \A j, k \in 1..Len(s) : s[j] = s[k] => j = k
      PROVE  /\ \A j, k \in 1..Len(t) : t[j] = t[k] => j = k
             /\ \A k \in 1..Len(t) : t[k] # Head(s)
    <2>1. ASSUME NEW j \in 1..Len(t), NEW k \in 1..Len(t), t[j] = t[k]
          PROVE  j = k
        BY <1>1, <1>2, <1>4, <2>1
    <2>2. ASSUME NEW k \in 1..Len(t), t[k] = Head(s) PROVE FALSE
        <3>1. k + 1 = 1
            BY <1>1, <1>2, <1>4, <2>2
        <3> QED BY <1>1, <3>1
    <2> QED BY <2>1, <2>2
<1> QED BY <1>1, <1>2, <1>3, <1>4

\* What the steps of server and clients leave of the invariant when backlog,
\* peer and announced stand.
LEMMA ServeStands ==
    ASSUME ServeInv, UNCHANGED <<backlog, peer, announced, succeeded>>,
           Serve!TypeOK', \A c \in Clients : client'[c] = "new" => client[c] = "new",
           \A c \in Clients : client'[c] = "connected" => c \in succeeded
    PROVE  ServeInv'
BY DEF ServeInv, Serve!AnnouncedOnce, Queued, Announced

LEMMA NextServe == ServeInv /\ (Serve!Next \/ UNCHANGED serveVars) => ServeInv'
<1> SUFFICES ASSUME ServeInv, Serve!Next \/ UNCHANGED serveVars PROVE ServeInv'
    OBVIOUS
<1>1. /\ server \in {"binding", "waiting", "handshaking", "failed"}
      /\ peer \in Clients \cup {Serve!NoPeer}
      /\ (peer # Serve!NoPeer) = (server = "handshaking")
      /\ backlog \in Seq(Clients) /\ announced \in Seq(Clients)
      /\ client \in [Clients -> {"new", "trying", "connected", "gone"}]
      /\ succeeded \subseteq Clients /\ closing \subseteq succeeded
      /\ Serve!NoPeer \notin Clients
    BY NoPeerAssumption DEF ServeInv, Serve!TypeOK
<1>2. \A c \in Clients : client[c] = "connected" => c \in succeeded
    BY DEF ServeInv, Serve!AnnouncedOnce
<1>3. CASE UNCHANGED serveVars \/ Serve!Idle
    <2>1. UNCHANGED <<server, peer, backlog, client, announced, succeeded, closing>>
        BY <1>3 DEF serveVars, Serve!Idle, Serve!vars
    <2>2. Serve!TypeOK'
        BY <1>1, <2>1 DEF Serve!TypeOK
    <2> QED BY <1>2, <2>1, <2>2, ServeStands
<1>4. CASE Serve!Listen \/ Serve!ListenError
    <2>1. /\ UNCHANGED <<peer, backlog, client, announced, succeeded, closing>>
          /\ server = "binding" /\ server' \in {"waiting", "failed"}
        BY <1>4 DEF Serve!Listen, Serve!ListenError
    <2>2. Serve!TypeOK'
        BY <1>1, <2>1 DEF Serve!TypeOK
    <2> QED BY <1>2, <2>1, <2>2, ServeStands
<1>5. CASE Serve!TakeUp
    <2>1. /\ backlog # <<>> /\ server' = "handshaking" /\ peer' = Head(backlog)
          /\ backlog' = Tail(backlog)
          /\ UNCHANGED <<client, announced, succeeded, closing>>
        BY <1>5 DEF Serve!TakeUp
    <2>2. /\ backlog' \in Seq(Clients) /\ Head(backlog) \in Clients
          /\ 1 \in 1..Len(backlog) /\ Head(backlog) = backlog[1]
          /\ \A y : (\E k \in 1..Len(backlog') : backlog'[k] = y) => Queued(y)
          /\ \A j, k \in 1..Len(backlog') : backlog'[j] = backlog'[k] => j = k
          /\ \A k \in 1..Len(backlog') : backlog'[k] # Head(backlog)
        BY <1>1, <2>1, OneLess DEF Queued, ServeInv
    <2>3. Queued(peer') /\ peer' \in Clients
        BY <2>1, <2>2 DEF Queued
    <2>4. \A c \in Clients : /\ Queued(c)' => Queued(c) /\ c # peer'
                             /\ Announced(c)' <=> Announced(c)
        BY <2>1, <2>2 DEF Queued, Announced
    <2>5. Serve!TypeOK'
        BY <1>1, <2>1, <2>2 DEF Serve!TypeOK
    <2>6. Serve!AnnouncedOnce'
        BY <2>1 DEF ServeInv, Serve!AnnouncedOnce
    <2> QED BY <2>1, <2>2, <2>3, <2>4, <2>5, <2>6 DEF ServeInv
<1>6. CASE Serve!Accepted
    <2>1. /\ server = "handshaking" /\ server' = "waiting" /\ peer' = Serve!NoPeer
          /\ announced' = Append(announced, peer) /\ succeeded' = succeeded \cup {peer}
          /\ closing' = closing \cup {peer} /\ UNCHANGED <<backlog, client>>
          /\ client[peer] = "trying"
        BY <1>6 DEF Serve!Accepted, Serve!Return
    <2>2. peer \in Clients /\ ~Announced(peer)
        BY <1>1, <2>1 DEF ServeInv
    <2>3. /\ announced' \in Seq(Clients)
          /\ \A y : (\E k \in 1..Len(announced') : announced'[k] = y) <=> Announced(y) \/ y = peer
          /\ \A j, k \in 1..Len(announced') : announced'[j] = announced'[k] => j = k
        BY <1>1, <2>1, <2>2, OneMore DEF ServeInv, Serve!AnnouncedOnce, Announced
    <2>4. Serve!TypeOK'
        BY <1>1, <2>1, <2>2, <2>3 DEF Serve!TypeOK
    <2>5. Serve!AnnouncedOnce'
        <3>1. {announced[k] : k \in 1..Len(announced)} = succeeded
            BY DEF ServeInv, Serve!AnnouncedOnce
        <3>2. \A y : y \in succeeded <=> Announced(y)
            BY <3>1 DEF Announced
        <3>3. {announced'[k] : k \in 1..Len(announced')} = succeeded'
            BY <2>1, <2>3, <3>2
        <3> QED BY <1>2, <2>1, <2>3, <3>3 DEF Serve!AnnouncedOnce
    <2>6. \A c \in Clients : /\ Queued(c)' <=> Queued(c)
                             /\ Announced(c)' <=> Announced(c) \/ c = peer
                             /\ peer' # c
        BY <1>1, <2>1, <2>3 DEF Queued, Announced
    <2> QED BY <2>1, <2>4, <2>5, <2>6 DEF ServeInv
<1>7. CASE Serve!AcceptError
    <2>1. /\ server' = "waiting" /\ peer' = Serve!NoPeer
          /\ UNCHANGED <<backlog, client, announced, succeeded, closing>>
        BY <1>7 DEF Serve!AcceptError, Serve!Return
    <2>2. Serve!TypeOK'
        BY <1>1, <2>1 DEF Serve!TypeOK
    <2>3. Serve!AnnouncedOnce'
        BY <2>1 DEF ServeInv, Serve!AnnouncedOnce
    <2>4. \A c \in Clients : /\ Queued(c)' <=> Queued(c)
                             /\ Announced(c)' <=> Announced(c)
                             /\ peer' # c
        BY <1>1, <2>1 DEF Queued, Announced
    <2> QED BY <2>1, <2>2, <2>3, <2>4 DEF ServeInv
<1>8. CASE Serve!Closed
    <2>1. /\ UNCHANGED <<server, peer, backlog, client, announced, succeeded>>
          /\ closing' \subseteq closing
        BY <1>8 DEF Serve!Closed
    <2>2. Serve!TypeOK'
        BY <1>1, <2>1 DEF Serve!TypeOK
    <2> QED BY <1>2, <2>1, <2>2, ServeStands
<1>9. ASSUME NEW c \in Clients, Serve!Hello(c) PROVE ServeInv'
    <2>1. /\ client[c] = "new" /\ client' = [client EXCEPT ![c] = "trying"]
          /\ backlog' = Append(backlog, c)
          /\ UNCHANGED <<server, peer, announced, succeeded, closing>>
        BY <1>9 DEF Serve!Hello
    <2>2. ~Queued(c) /\ peer # c /\ ~Announced(c)
        BY <2>1 DEF ServeInv
    <2>3. /\ backlog' \in Seq(Clients)
          /\ \A y : (\E k \in 1..Len(backlog') : backlog'[k] = y) <=> Queued(y) \/ y = c
          /\ \A j, k \in 1..Len(backlog') : backlog'[j] = backlog'[k] => j = k
        BY <1>1, <2>1, <2>2, OneMore DEF ServeInv, Queued
    <2>4. /\ client' \in [Clients -> {"new", "trying", "connected", "gone"}]
          /\ \A d \in Clients : client'[d] = IF d = c THEN "trying" ELSE client[d]
        BY <1>1, <2>1
    <2>5. Serve!TypeOK'
        BY <1>1, <2>1, <2>3, <2>4 DEF Serve!TypeOK
    <2>6. Serve!AnnouncedOnce'
        BY <2>1, <2>4 DEF ServeInv, Serve!AnnouncedOnce
    <2>7. \A d \in Clients : /\ Queued(d)' <=> Queued(d) \/ d = c
                             /\ Announced(d)' <=> Announced(d)
        BY <2>1, <2>3 DEF Queued, Announced
    <2> QED BY <2>1, <2>2, <2>3, <2>4, <2>5, <2>6, <2>7 DEF ServeInv
<1>10. ASSUME NEW c \in Clients, Serve!Connect(c) \/ Serve!GiveUp(c) PROVE ServeInv'
    <2>1. PICK to \in {"connected", "gone"} :
              /\ client[c] = "trying" /\ client' = [client EXCEPT ![c] = to]
              /\ to = "connected" => c \in succeeded
              /\ UNCHANGED <<server, peer, backlog, announced, succeeded, closing>>
        BY <1>10 DEF Serve!Connect, Serve!GiveUp
    <2>2. /\ client' \in [Clients -> {"new", "trying", "connected", "gone"}]
          /\ \A d \in Clients : client'[d] = IF d = c THEN to ELSE client[d]
        BY <1>1, <2>1
    <2>3. Serve!TypeOK'
        BY <1>1, <2>1, <2>2 DEF Serve!TypeOK
    <2> QED BY <1>2, <2>1, <2>2, <2>3, ServeStands
<1> QED BY <1>3, <1>4, <1>5, <1>6, <1>7, <1>8, <1>9, <1>10 DEF Serve!Next, Serve!Serving

-----------------------------------------------------------------------------
(* The command line *)

\* 1 for a secret that is read from stdin, 0 for another.
OneLine(s) == IF order.source[s] = "stdin" THEN 1 ELSE 0

\* The lines of the secrets before s, and the value s gets.
Earlier(s) ==
    CASE s = "user" -> 0
      [] s = "pass" -> OneLine("user")
      [] s = "auth" -> OneLine("user") + OneLine("pass")
Value(s) ==
    CASE order.source[s] = "none" -> Line!NoSecret
      [] order.source[s] = "flag" -> Line!FromFlag
      [] order.source[s] = "stdin" -> Earlier(s) + 1

\* The secrets still asked for are the last of their order.
Remaining ==
    {<<"user", "pass">>, <<"pass">>, <<"auth">>, <<"user", "pass", "auth">>,
     <<"pass", "auth">>, <<>>}

\* Nothing is resolved yet of what is still asked for, and all of the rest.
SecretsInv ==
    /\ asked \in Remaining
    /\ \A s \in Line!Secrets :
          secrets[s] = IF \E i \in 1..Len(asked) : asked[i] = s THEN Line!NoSecret ELSE Value(s)
    /\ read = IF asked = <<>> THEN Earlier("auth") + OneLine("auth") ELSE Earlier(asked[1])
    /\ asked \in {<<"user", "pass">>, <<"pass">>} => order.source["auth"] = "none"

LineInv ==
    /\ Line!TypeOK /\ Len(lines) <= MaxLines
    /\ \A s \in Line!Secrets \ Line!SecretsOf(order.name) : order.source[s] = "none"
    /\ phase = "target" => read = 0 /\ secrets = [s \in Line!Secrets |-> Line!NoSecret]
    /\ phase \in {"secrets", "probing", "serving"} => Line!Accepted /\ SecretsInv

\* What an invocation may be.
LEMMA OrderMeans ==
    ASSUME order \in Line!Command
    PROVE  /\ order.name \in Line!Names
           /\ \A s \in {"user", "pass", "auth"} : order.source[s] \in {"none", "flag", "stdin"}
BY DEF Line!Command, Line!Secrets

\* How many of the secrets are in T.
LEMMA CountSecrets ==
    ASSUME NEW T \in SUBSET {"user", "pass", "auth"}
    PROVE  Line!Cardinality(T) = (IF "user" \in T THEN 1 ELSE 0)
                                     + (IF "pass" \in T THEN 1 ELSE 0)
                                     + (IF "auth" \in T THEN 1 ELSE 0)
<1> DEFINE A == IF "user" \in T THEN {"user"} ELSE {}
           B == A \cup (IF "pass" \in T THEN {"pass"} ELSE {})
           C == B \cup (IF "auth" \in T THEN {"auth"} ELSE {})
           a == IF "user" \in T THEN 1 ELSE 0
           b == a + (IF "pass" \in T THEN 1 ELSE 0)
           c == b + (IF "auth" \in T THEN 1 ELSE 0)
<1>1. T = C
    OBVIOUS
<1>2. IsFiniteSet(A) /\ Cardinality(A) = a /\ a \in Nat
    BY FS_EmptySet, FS_Singleton
<1>3. IsFiniteSet(B) /\ Cardinality(B) = b /\ b \in Nat
    <2>1. "pass" \notin A
        OBVIOUS
    <2>2. CASE "pass" \in T
        <3>1. IsFiniteSet(A \cup {"pass"}) /\ Cardinality(A \cup {"pass"}) = a + 1
            BY <1>2, <2>1, FS_AddElement
        <3> QED BY <1>2, <2>2, <3>1
    <2>3. CASE "pass" \notin T
        BY <1>2, <2>3
    <2> QED BY <2>2, <2>3
<1>4. IsFiniteSet(C) /\ Cardinality(C) = c
    <2>1. "auth" \notin B
        OBVIOUS
    <2>2. CASE "auth" \in T
        <3>1. IsFiniteSet(B \cup {"auth"}) /\ Cardinality(B \cup {"auth"}) = b + 1
            BY <1>3, <2>1, FS_AddElement
        <3> QED BY <1>3, <2>2, <3>1
    <2>3. CASE "auth" \notin T
        BY <1>3, <2>3
    <2> QED BY <2>2, <2>3
<1>5. \A S : Line!Cardinality(S) = Cardinality(S)
    BY DEF Line!Cardinality, Cardinality
<1> QED BY <1>1, <1>4, <1>5

LEMMA InitLine == Line!Init => LineInv
<1> SUFFICES ASSUME Line!Init PROVE LineInv
    OBVIOUS
<1>1. /\ order \in Line!Command /\ phase = "target" /\ asked = <<>> /\ read = 0 /\ lines = <<>>
      /\ secrets = [s \in Line!Secrets |-> Line!NoSecret]
      /\ \A s \in Line!Secrets \ Line!SecretsOf(order.name) : order.source[s] = "none"
    BY DEF Line!Init
<1>2. Line!TypeOK
    BY <1>1, MaxLinesAssumption DEF Line!TypeOK, Line!NoSecret, Line!FromFlag
<1>3. Len(lines) <= MaxLines
    BY <1>1, MaxLinesAssumption
<1> QED BY <1>1, <1>2, <1>3 DEF LineInv

\* The invocation stands, and with it what its secrets are.
LEMMA SameOrder ==
    ASSUME order' = order
    PROVE  /\ \A s : OneLine(s)' = OneLine(s) /\ Earlier(s)' = Earlier(s)
           /\ \A s : Value(s)' = Value(s)
           /\ Line!Accepted' <=> Line!Accepted
           /\ \A n : Line!SecretsOf(n)' = Line!SecretsOf(n)
<1>1. \A s : OneLine(s)' = OneLine(s)
    BY DEF OneLine
<1>2. \A s : Earlier(s)' = Earlier(s)
    BY <1>1 DEF Earlier
<1>3. \A s : Value(s)' = Value(s)
    BY <1>2 DEF Value, Line!NoSecret, Line!FromFlag
<1>4. Line!Accepted' <=> Line!Accepted
    BY DEF Line!Accepted, Line!SchemeAllowed, Line!IsTurn, Line!Supplied, Line!Secrets
<1>5. \A n : Line!SecretsOf(n)' = Line!SecretsOf(n)
    BY DEF Line!SecretsOf, Line!Secrets
<1> QED BY <1>1, <1>2, <1>3, <1>4, <1>5

\* What the rest of the order is after its first secret.
LEMMA Rests ==
    ASSUME asked \in Remaining, asked # <<>>
    PROVE  /\ Head(asked) = asked[1] /\ asked[1] \in {"user", "pass", "auth"}
           /\ Tail(asked) \in Remaining
           /\ \A s : (\E i \in 1..Len(Tail(asked)) : Tail(asked)[i] = s)
                        <=> s # asked[1] /\ \E i \in 1..Len(asked) : asked[i] = s
           /\ \E i \in 1..Len(asked) : asked[i] = asked[1]
           /\ asked[1] = "user" => Tail(asked) # <<>> /\ Tail(asked)[1] = "pass"
           /\ asked[1] = "pass" => Tail(asked) = <<>> \/ Tail(asked)[1] = "auth"
           /\ asked[1] = "auth" => Tail(asked) = <<>>
           /\ Tail(asked) \in {<<"user", "pass">>, <<"pass">>} =>
                 asked \in {<<"user", "pass">>, <<"pass">>}
           /\ asked[1] = "pass" /\ Tail(asked) = <<>> => asked = <<"pass">>
<1>1. CASE asked = <<"user", "pass">>
    <2>1. Tail(asked) = <<"pass">>
        BY <1>1
    <2> QED BY <1>1, <2>1 DEF Remaining
<1>2. ASSUME NEW x \in {"pass", "auth"}, asked = <<x>>
      PROVE  /\ Head(asked) = x /\ asked[1] = x /\ Len(asked) = 1
             /\ Tail(asked) = <<>> /\ Len(Tail(asked)) = 0
    BY <1>2
<1>3. CASE asked = <<"user", "pass", "auth">>
    <2>1. Tail(asked) = <<"pass", "auth">>
        BY <1>3
    <2> QED BY <1>3, <2>1 DEF Remaining
<1>4. CASE asked = <<"pass", "auth">>
    <2>1. Tail(asked) = <<"auth">>
        BY <1>4
    <2> QED BY <1>4, <2>1 DEF Remaining
<1>5. CASE asked = <<"pass">>
    <2>1. /\ Head(asked) = "pass" /\ asked[1] = "pass" /\ Len(asked) = 1
          /\ Tail(asked) = <<>> /\ Len(Tail(asked)) = 0
        BY <1>2, <1>5
    <2>2. 1 \in 1..Len(asked) /\ 1..Len(Tail(asked)) = {}
        BY <2>1
    <2>3. \A s : (\E i \in 1..Len(asked) : asked[i] = s) <=> s = "pass"
        BY <1>5
    <2> QED BY <1>5, <2>1, <2>2, <2>3 DEF Remaining
<1>6. CASE asked = <<"auth">>
    <2>1. /\ Head(asked) = "auth" /\ asked[1] = "auth" /\ Len(asked) = 1
          /\ Tail(asked) = <<>> /\ Len(Tail(asked)) = 0
        BY <1>2, <1>6
    <2>2. 1 \in 1..Len(asked) /\ 1..Len(Tail(asked)) = {}
        BY <2>1
    <2>3. \A s : (\E i \in 1..Len(asked) : asked[i] = s) <=> s = "auth"
        BY <1>6
    <2> QED BY <1>6, <2>1, <2>2, <2>3 DEF Remaining
<1> QED BY <1>1, <1>3, <1>4, <1>5, <1>6 DEF Remaining

\* The first secret asked for is resolved.
LEMMA ResolveKeeps ==
    ASSUME SecretsInv, order \in Line!Command, asked # <<>>, order' = order,
           DOMAIN secrets = Line!Secrets,
           asked' = Tail(asked), secrets' = [secrets EXCEPT ![Head(asked)] = Value(asked[1])],
           read' = read + OneLine(asked[1])
    PROVE  SecretsInv'
<1>1. /\ asked \in Remaining
      /\ \A s \in Line!Secrets :
            secrets[s] = IF \E i \in 1..Len(asked) : asked[i] = s THEN Line!NoSecret ELSE Value(s)
      /\ read = Earlier(asked[1])
      /\ asked \in {<<"user", "pass">>, <<"pass">>} => order.source["auth"] = "none"
    BY DEF SecretsInv
<1>2. /\ Head(asked) = asked[1] /\ asked[1] \in Line!Secrets
      /\ asked' \in Remaining
      /\ \A s : (\E i \in 1..Len(asked') : asked'[i] = s)
                   <=> s # asked[1] /\ \E i \in 1..Len(asked) : asked[i] = s
      /\ asked[1] = "user" => asked' # <<>> /\ asked'[1] = "pass"
      /\ asked[1] = "pass" => asked' = <<>> \/ asked'[1] = "auth"
      /\ asked[1] = "auth" => asked' = <<>>
      /\ asked' \in {<<"user", "pass">>, <<"pass">>} => asked \in {<<"user", "pass">>, <<"pass">>}
      /\ asked[1] = "pass" /\ asked' = <<>> => asked = <<"pass">>
    BY <1>1, Rests DEF Line!Secrets
<1>3. ASSUME NEW s \in Line!Secrets
      PROVE  secrets'[s] = IF \E i \in 1..Len(asked') : asked'[i] = s THEN Line!NoSecret
                           ELSE Value(s)
    BY <1>1, <1>2
<1>4. /\ OneLine("user") \in Nat /\ OneLine("pass") \in Nat /\ OneLine("auth") \in Nat
      /\ Earlier("user") = 0 /\ Earlier("pass") = OneLine("user")
      /\ Earlier("auth") = OneLine("user") + OneLine("pass")
      /\ order.source["auth"] = "none" => OneLine("auth") = 0
    BY DEF OneLine, Earlier
<1>5. read' = IF asked' = <<>> THEN Earlier("auth") + OneLine("auth") ELSE Earlier(asked'[1])
    <2>1. read' = Earlier(asked[1]) + OneLine(asked[1])
        BY <1>1
    <2>2. CASE asked[1] = "user"
        BY <1>2, <1>4, <2>1, <2>2
    <2>3. CASE asked[1] = "pass"
        <3>1. CASE asked' = <<>>
            <4>1. OneLine("auth") = 0
                BY <1>1, <1>2, <1>4, <2>3, <3>1
            <4> QED BY <1>4, <2>1, <2>3, <3>1, <4>1
        <3>2. CASE asked' # <<>>
            <4>1. Earlier(asked[1]) = OneLine("user") /\ OneLine(asked[1]) = OneLine("pass")
                BY <1>4, <2>3
            <4>2. Earlier(asked'[1]) = OneLine("user") + OneLine("pass")
                BY <1>2, <1>4, <2>3, <3>2
            <4> QED BY <2>1, <3>2, <4>1, <4>2
        <3> QED BY <3>1, <3>2
    <2>4. CASE asked[1] = "auth"
        BY <1>2, <1>4, <2>1, <2>4
    <2> QED BY <1>2, <2>2, <2>3, <2>4 DEF Line!Secrets
<1>6. asked' \in {<<"user", "pass">>, <<"pass">>} => order.source["auth"] = "none"
    BY <1>1, <1>2
<1>7. /\ \A s : OneLine(s)' = OneLine(s) /\ Earlier(s)' = Earlier(s)
      /\ \A s : Value(s)' = Value(s)
    BY SameOrder
<1>8. (\A s \in Line!Secrets :
          secrets[s] = IF \E i \in 1..Len(asked) : asked[i] = s THEN Line!NoSecret ELSE Value(s))'
    BY <1>3, <1>7 DEF Line!Secrets, Line!NoSecret
<1>9. (read = IF asked = <<>> THEN Earlier("auth") + OneLine("auth") ELSE Earlier(asked[1]))'
    BY <1>5, <1>7
<1> QED BY <1>2, <1>6, <1>8, <1>9 DEF SecretsInv, Remaining

\* A step that leaves the secrets alone.
LEMMA LineStands ==
    ASSUME LineInv, UNCHANGED <<order, asked, secrets, read>>, Line!TypeOK', Len(lines') <= MaxLines,
           \/ phase' = phase
           \/ phase' = "failed"
           \/ phase = "secrets" /\ phase' \in {"probing", "serving"}
    PROVE  LineInv'
<1>1. /\ \A s : OneLine(s)' = OneLine(s) /\ Earlier(s)' = Earlier(s)
      /\ \A s : Value(s)' = Value(s)
      /\ Line!Accepted' <=> Line!Accepted
      /\ \A n : Line!SecretsOf(n)' = Line!SecretsOf(n)
    BY SameOrder
<1>2. SecretsInv => SecretsInv'
    <2> SUFFICES ASSUME SecretsInv PROVE SecretsInv'
        OBVIOUS
    <2>1. asked' \in Remaining'
        BY DEF SecretsInv, Remaining
    <2>2. (\A s \in Line!Secrets :
              secrets[s] = IF \E i \in 1..Len(asked) : asked[i] = s THEN Line!NoSecret ELSE Value(s))'
        BY <1>1 DEF SecretsInv, Line!Secrets, Line!NoSecret
    <2>3. (read = IF asked = <<>> THEN Earlier("auth") + OneLine("auth") ELSE Earlier(asked[1]))'
        BY <1>1 DEF SecretsInv
    <2>4. (asked \in {<<"user", "pass">>, <<"pass">>} => order.source["auth"] = "none")'
        BY DEF SecretsInv
    <2> QED BY <2>1, <2>2, <2>3, <2>4 DEF SecretsInv
<1>3. (\A s \in Line!Secrets \ Line!SecretsOf(order.name) : order.source[s] = "none")'
    BY <1>1 DEF LineInv, Line!Secrets
<1>4. (phase = "target" => read = 0 /\ secrets = [s \in Line!Secrets |-> Line!NoSecret])'
    BY DEF LineInv, Line!Secrets, Line!NoSecret
<1>5. (phase \in {"secrets", "probing", "serving"} => Line!Accepted /\ SecretsInv)'
    BY <1>1, <1>2 DEF LineInv
<1> QED BY <1>3, <1>4, <1>5 DEF LineInv

\* The order of the secrets, once the target is accepted.
LEMMA ParseKeeps == LineInv /\ Line!Parse => LineInv'
<1> SUFFICES ASSUME LineInv, Line!Parse PROVE LineInv'
    OBVIOUS
<1>1. /\ phase = "target" /\ phase' = "secrets" /\ asked' = Line!SecretOrder /\ Line!Accepted
      /\ UNCHANGED <<order, secrets, read, lines, closed>>
    BY DEF Line!Parse
<1>2. /\ order \in Line!Command /\ read = 0 /\ secrets = [s \in Line!Secrets |-> Line!NoSecret]
      /\ \A s \in Line!Secrets \ Line!SecretsOf(order.name) : order.source[s] = "none"
      /\ Len(lines) <= MaxLines
    BY <1>1 DEF LineInv, Line!TypeOK
<1>3. /\ \A s \in Line!Secrets : order.source[s] = "none" => Value(s) = Line!NoSecret
      /\ \A s \in Line!Secrets : order.source[s] = "none" => OneLine(s) = 0
      /\ Earlier("user") = 0 /\ Earlier("auth") = OneLine("user") + OneLine("pass")
      /\ "user" \in Line!Secrets /\ "pass" \in Line!Secrets /\ "auth" \in Line!Secrets
    BY DEF Value, OneLine, Earlier, Line!Secrets
<1> DEFINE o == Line!SecretOrder
           Fits ==
               /\ o \in Remaining
               /\ \A s \in Line!Secrets :
                     (\E i \in 1..Len(o) : o[i] = s) \/ order.source[s] = "none"
               /\ o # <<>> /\ o[1] = "auth" =>
                     order.source["user"] = "none" /\ order.source["pass"] = "none"
               /\ o # <<>> => o[1] \in {"user", "auth"}
               /\ o \in {<<"user", "pass">>, <<"pass">>} => order.source["auth"] = "none"
<1>4. Fits
    <2>1. CASE Line!Kind \in {"turn", "turns", "iceTurn"}
        <3>1. o = <<"user", "pass">>
            BY <2>1 DEF Line!SecretOrder
        <3>2. order.name \in {"turn", "turns", "ice"}
            BY <1>2, <2>1, OrderMeans DEF Line!Kind, Line!Names
        <3>3. order.source["auth"] = "none"
            BY <1>2, <3>2 DEF Line!SecretsOf, Line!Secrets
        <3> QED BY <3>1, <3>3 DEF Remaining, Line!Secrets
    <2>2. CASE Line!Kind = "signaling"
        <3>1. o = <<"auth">>
            BY <2>2 DEF Line!SecretOrder
        <3>2. order.name = "signaling"
            BY <2>2 DEF Line!Kind
        <3>3. order.source["user"] = "none" /\ order.source["pass"] = "none"
            BY <1>2, <3>2 DEF Line!SecretsOf, Line!Secrets
        <3>4. \E i \in 1..Len(o) : o[i] = "auth"
            BY <3>1
        <3> QED BY <3>1, <3>3, <3>4 DEF Remaining, Line!Secrets
    <2>3. CASE Line!Kind = "full"
        <3>1. o = <<"user", "pass", "auth">>
            BY <2>3 DEF Line!SecretOrder
        <3> QED BY <3>1 DEF Remaining, Line!Secrets
    <2>4. CASE Line!Kind \notin {"turn", "turns", "iceTurn", "signaling", "full"}
        <3>1. o = <<>>
            BY <2>4 DEF Line!SecretOrder
        <3>2. \A s \in Line!Secrets : order.source[s] = "none"
            <4>1. CASE order.name = "ice"
                <5>1. ~Line!IsTurn
                    BY <2>4, <4>1 DEF Line!Kind
                <5>2. Line!Supplied = {}
                    BY <1>1, <4>1, <5>1 DEF Line!Accepted
                <5> QED BY <5>2 DEF Line!Supplied
            <4>2. CASE order.name # "ice"
                <5>1. Line!SecretsOf(order.name) = {}
                    BY <2>4, <4>2 DEF Line!Kind, Line!SecretsOf
                <5> QED BY <1>2, <5>1
            <4> QED BY <4>1, <4>2
        <3> QED BY <3>1, <3>2 DEF Remaining
    <2> QED BY <2>1, <2>2, <2>3, <2>4
<1> HIDE DEF Fits, o
<1>5. asked' = o
    BY <1>1 DEF o
<1>6. o \in Remaining /\ (o \in {<<"user", "pass">>, <<"pass">>} => order.source["auth"] = "none")
    BY <1>4 DEF Fits
<1>7. \A s \in Line!Secrets :
          secrets[s] = IF \E i \in 1..Len(o) : o[i] = s THEN Line!NoSecret ELSE Value(s)
    BY <1>2, <1>3, <1>4 DEF Fits
<1>8. read = IF o = <<>> THEN Earlier("auth") + OneLine("auth") ELSE Earlier(o[1])
    <2>1. CASE o = <<>>
        <3>1. \A s \in Line!Secrets : order.source[s] = "none"
            BY <1>4, <2>1 DEF Fits
        <3>2. OneLine("user") = 0 /\ OneLine("pass") = 0 /\ OneLine("auth") = 0
            BY <1>3, <3>1
        <3> QED BY <1>2, <1>3, <2>1, <3>2
    <2>2. CASE o # <<>> /\ o[1] = "user"
        BY <1>2, <1>3, <2>2
    <2>3. CASE o # <<>> /\ o[1] = "auth"
        <3>1. OneLine("user") = 0 /\ OneLine("pass") = 0
            BY <1>3, <1>4, <2>3 DEF Fits
        <3> QED BY <1>2, <1>3, <2>3, <3>1
    <2> QED BY <1>4, <2>1, <2>2, <2>3 DEF Fits
<1>9. /\ \A s : OneLine(s)' = OneLine(s) /\ Earlier(s)' = Earlier(s)
      /\ \A s : Value(s)' = Value(s)
      /\ Line!Accepted' <=> Line!Accepted
      /\ \A n : Line!SecretsOf(n)' = Line!SecretsOf(n)
    BY <1>1, SameOrder
<1>10. SecretsInv'
    <2>1. (\A s \in Line!Secrets :
              secrets[s] = IF \E i \in 1..Len(asked) : asked[i] = s THEN Line!NoSecret ELSE Value(s))'
        BY <1>1, <1>5, <1>7, <1>9 DEF Line!Secrets, Line!NoSecret
    <2>2. (read = IF asked = <<>> THEN Earlier("auth") + OneLine("auth") ELSE Earlier(asked[1]))'
        BY <1>1, <1>5, <1>8, <1>9
    <2>3. (asked \in Remaining)'
        BY <1>5, <1>6 DEF Remaining
    <2>4. (asked \in {<<"user", "pass">>, <<"pass">>} => order.source["auth"] = "none")'
        BY <1>1, <1>5, <1>6
    <2> QED BY <2>1, <2>2, <2>3, <2>4 DEF SecretsInv
<1>11. Line!TypeOK'
    BY <1>1 DEF LineInv, Line!TypeOK, Line!Command, Line!Secrets, Line!Names, Line!Schemes,
                Line!FromFlag, Line!Started
<1>12. (\A s \in Line!Secrets \ Line!SecretsOf(order.name) : order.source[s] = "none")'
    BY <1>1, <1>2, <1>9 DEF Line!Secrets
<1> QED BY <1>1, <1>2, <1>9, <1>10, <1>11, <1>12 DEF LineInv

\* A flag's value, nothing, or the next line.
LEMMA TakeKeeps == LineInv /\ (Line!TakeFlag \/ Line!ReadLine) => LineInv'
<1> SUFFICES ASSUME LineInv, Line!TakeFlag \/ Line!ReadLine PROVE LineInv'
    OBVIOUS
<1>1. /\ phase = "secrets" /\ phase' = "secrets" /\ asked # <<>> /\ asked' = Tail(asked)
      /\ UNCHANGED <<order, lines>>
    BY DEF Line!TakeFlag, Line!ReadLine, Line!Reading
<1>2. /\ order \in Line!Command /\ secrets \in [Line!Secrets -> Line!FromFlag..MaxLines]
      /\ lines \in Seq({"text", "empty", "garbled"}) /\ read \in 0..Len(lines)
      /\ SecretsInv /\ Line!Accepted /\ Len(lines) \in Nat /\ Len(lines) <= MaxLines
    <2>1. /\ order \in Line!Command /\ secrets \in [Line!Secrets -> Line!FromFlag..MaxLines]
          /\ lines \in Seq({"text", "empty", "garbled"}) /\ read \in 0..Len(lines)
        BY DEF LineInv, Line!TypeOK
    <2>2. SecretsInv /\ Line!Accepted /\ Len(lines) <= MaxLines
        BY <1>1 DEF LineInv
    <2> QED BY <2>1, <2>2
<1>3. /\ Head(asked) = asked[1] /\ asked[1] \in Line!Secrets /\ read = Earlier(asked[1])
    BY <1>1, <1>2, Rests DEF SecretsInv, Line!Secrets
<1>4. /\ secrets' = [secrets EXCEPT ![Head(asked)] = Value(asked[1])]
      /\ read' = read + OneLine(asked[1])
      /\ Value(asked[1]) \in Line!FromFlag..MaxLines
      /\ read' \in 0..Len(lines)
    <2>1. order.source[asked[1]] \in {"none", "flag", "stdin"}
        BY <1>2, <1>3, OrderMeans DEF Line!Secrets
    <2>2. CASE Line!TakeFlag
        <3>1. /\ order.source[asked[1]] \in {"none", "flag"} /\ read' = read
              /\ secrets' = [secrets EXCEPT ![Head(asked)] =
                                IF order.source[asked[1]] = "flag" THEN Line!FromFlag
                                ELSE Line!NoSecret]
            BY <1>3, <2>1, <2>2 DEF Line!TakeFlag
        <3>2. /\ OneLine(asked[1]) = 0
              /\ Value(asked[1]) = IF order.source[asked[1]] = "flag" THEN Line!FromFlag
                                   ELSE Line!NoSecret
            BY <3>1 DEF OneLine, Value
        <3>3. secrets' = [secrets EXCEPT ![Head(asked)] = Value(asked[1])]
            BY <3>1, <3>2
        <3>4. read' = read + OneLine(asked[1]) /\ read' \in 0..Len(lines)
            BY <1>2, <3>1, <3>2
        <3>5. Value(asked[1]) \in Line!FromFlag..MaxLines
            BY <3>2, MaxLinesAssumption DEF Line!FromFlag, Line!NoSecret
        <3> QED BY <3>3, <3>4, <3>5
    <2>3. CASE Line!ReadLine
        <3>1. /\ order.source[asked[1]] = "stdin" /\ read < Len(lines) /\ read' = read + 1
              /\ secrets' = [secrets EXCEPT ![Head(asked)] = read + 1]
            BY <1>3, <2>3 DEF Line!ReadLine, Line!Reading
        <3>2. OneLine(asked[1]) = 1 /\ Value(asked[1]) = read + 1
            BY <1>3, <3>1 DEF OneLine, Value
        <3>3. secrets' = [secrets EXCEPT ![Head(asked)] = Value(asked[1])]
            BY <3>1, <3>2
        <3>4. read' = read + OneLine(asked[1]) /\ read' \in 0..Len(lines)
            BY <1>2, <3>1, <3>2
        <3>5. Value(asked[1]) \in Line!FromFlag..MaxLines
            BY <1>2, <3>1, <3>2, MaxLinesAssumption DEF Line!FromFlag
        <3> QED BY <3>3, <3>4, <3>5
    <2> QED BY <2>2, <2>3
<1>5. SecretsInv'
    BY <1>1, <1>2, <1>4, ResolveKeeps
<1>6. Line!TypeOK'
    <2>1. secrets' \in [Line!Secrets -> Line!FromFlag..MaxLines]
        BY <1>2, <1>4
    <2> QED BY <1>1, <1>2, <1>4, <2>1 DEF Line!TypeOK, Line!Command, Line!Secrets, Line!Names,
               Line!Schemes, Line!FromFlag, Line!Started
<1>7. /\ Line!Accepted' <=> Line!Accepted
      /\ \A n : Line!SecretsOf(n)' = Line!SecretsOf(n)
    BY <1>1, SameOrder
<1>8. (\A s \in Line!Secrets \ Line!SecretsOf(order.name) : order.source[s] = "none")'
    BY <1>1, <1>7 DEF LineInv, Line!Secrets
<1> QED BY <1>1, <1>2, <1>5, <1>6, <1>7, <1>8 DEF LineInv

LEMMA NextLine == LineInv /\ (Line!Next \/ UNCHANGED lineVars) => LineInv'
<1> SUFFICES ASSUME LineInv, Line!Next \/ UNCHANGED lineVars PROVE LineInv'
    OBVIOUS
<1>1. /\ order \in Line!Command
      /\ phase \in {"target", "secrets", "probing", "serving", "failed"}
      /\ secrets \in [Line!Secrets -> Line!FromFlag..MaxLines]
      /\ lines \in Seq({"text", "empty", "garbled"}) /\ read \in 0..Len(lines)
      /\ Line!Started => asked = <<>>
      /\ Len(lines) <= MaxLines
    BY DEF LineInv, Line!TypeOK
<1>2. Len(lines) \in Nat
    BY <1>1
<1>3. ASSUME UNCHANGED <<order, asked, secrets, read>>,
             lines' \in Seq({"text", "empty", "garbled"}), Len(lines') >= Len(lines),
             Len(lines') <= MaxLines,
             \/ phase' = phase
             \/ phase' = "failed"
             \/ phase = "secrets" /\ phase' \in {"probing", "serving"} /\ asked = <<>>
      PROVE  LineInv'
    <2>1. Line!TypeOK'
        <3>1. read' \in 0..Len(lines')
            <4>1. Len(lines') \in Nat
                BY <1>3
            <4>2. read' = read
                BY <1>3
            <4> QED BY <1>1, <1>2, <1>3, <4>1, <4>2
        <3>2. Line!Started' => asked' = <<>>
            BY <1>1, <1>3 DEF Line!Started
        <3> QED BY <1>1, <1>3, <3>1, <3>2 DEF Line!TypeOK, Line!Command, Line!Secrets,
                   Line!Names, Line!Schemes, Line!FromFlag
    <2> QED BY <1>3, <2>1, LineStands
<1>4. CASE UNCHANGED lineVars \/ Line!Done
    <2>1. UNCHANGED <<order, phase, asked, secrets, read, lines>>
        BY <1>4 DEF lineVars, Line!Done, Line!vars
    <2>2. Len(lines') >= Len(lines)
        BY <1>2, <2>1
    <2> QED BY <1>1, <1>3, <2>1, <2>2
<1>5. CASE Line!Parse
    BY <1>5, ParseKeeps
<1>6. CASE Line!TakeFlag \/ Line!ReadLine
    BY <1>6, TakeKeeps
<1>7. CASE Line!Refuse \/ Line!BadLine \/ Line!EndOfInput
    <2>1. UNCHANGED <<order, asked, secrets, read, lines>> /\ phase' = "failed"
        BY <1>7 DEF Line!Refuse, Line!BadLine, Line!EndOfInput
    <2>2. Len(lines') >= Len(lines)
        BY <1>2, <2>1
    <2> QED BY <1>1, <1>3, <2>1, <2>2
<1>8. CASE Line!Probe
    <2>1. /\ UNCHANGED <<order, asked, secrets, read, lines>>
          /\ phase = "secrets" /\ phase' \in {"probing", "serving"} /\ asked = <<>>
        BY <1>8 DEF Line!Probe
    <2>2. Len(lines') >= Len(lines)
        BY <1>2, <2>1
    <2> QED BY <1>1, <1>3, <2>1, <2>2
<1>9. CASE Line!WriteLine \/ Line!Close
    <2>1. /\ UNCHANGED <<order, phase, asked, secrets, read>>
          /\ \/ lines' = lines
             \/ /\ Len(lines) < MaxLines
                /\ \E l \in {"text", "empty", "garbled"} : lines' = Append(lines, l)
        BY <1>9 DEF Line!WriteLine, Line!Close
    <2>2. /\ lines' \in Seq({"text", "empty", "garbled"}) /\ Len(lines') >= Len(lines)
          /\ Len(lines') <= MaxLines
        <3>1. CASE lines' = lines
            BY <1>1, <1>2, <3>1
        <3>2. ASSUME NEW l \in {"text", "empty", "garbled"}, lines' = Append(lines, l),
                     Len(lines) < MaxLines
              PROVE  /\ lines' \in Seq({"text", "empty", "garbled"})
                     /\ Len(lines') >= Len(lines) /\ Len(lines') <= MaxLines
            <4>1. Len(lines') = Len(lines) + 1 /\ lines' \in Seq({"text", "empty", "garbled"})
                BY <1>1, <3>2
            <4> QED BY <1>2, <3>2, <4>1, MaxLinesAssumption
        <3> QED BY <2>1, <3>1, <3>2
    <2> QED BY <1>3, <2>1, <2>2
<1> QED BY <1>4, <1>5, <1>6, <1>7, <1>8, <1>9 DEF Line!Next, Line!Progress

\* Whoever asks for secrets has chosen the pipeline, and stays with it.
KindInv == phase \in {"secrets", "probing", "serving"} => kind = Line!Kind

LEMMA InitKind == Line!Init => KindInv
BY DEF Line!Init, KindInv

LEMMA NextKind == KindInv /\ (Line!Next \/ UNCHANGED lineVars) => KindInv'
<1> SUFFICES ASSUME KindInv, Line!Next \/ UNCHANGED lineVars PROVE KindInv'
    OBVIOUS
<1>1. order' = order
    BY DEF lineVars, Line!Next, Line!Progress, Line!Parse, Line!Refuse, Line!TakeFlag,
           Line!ReadLine, Line!BadLine, Line!EndOfInput, Line!Probe, Line!WriteLine, Line!Close,
           Line!Done, Line!vars
<1>2. Line!Kind' = Line!Kind
    BY <1>1 DEF Line!Kind, Line!IsTurn
<1>3. CASE Line!Parse
    BY <1>2, <1>3 DEF Line!Parse, KindInv
<1>4. CASE Line!Refuse \/ Line!BadLine \/ Line!EndOfInput
    BY <1>4 DEF Line!Refuse, Line!BadLine, Line!EndOfInput, KindInv
<1>5. CASE Line!TakeFlag \/ Line!ReadLine \/ Line!Probe
    BY <1>2, <1>5 DEF Line!TakeFlag, Line!ReadLine, Line!Reading, Line!Probe, KindInv
<1>6. CASE Line!WriteLine \/ Line!Close \/ Line!Done \/ UNCHANGED lineVars
    BY <1>2, <1>6 DEF Line!WriteLine, Line!Close, Line!Done, Line!vars, lineVars, KindInv
<1> QED BY <1>3, <1>4, <1>5, <1>6 DEF Line!Next, Line!Progress

\* The invariants give the properties of the command line.
LEMMA LineMeans == LineInv /\ KindInv => Line!EachItsOwn /\ Line!RunOfItsScheme
<1> SUFFICES ASSUME LineInv, KindInv, Line!Started
             PROVE  Line!EachItsOwn /\ Line!RunOfItsScheme
    BY DEF Line!EachItsOwn, Line!RunOfItsScheme
<1>1. /\ order \in Line!Command /\ Line!Accepted /\ SecretsInv /\ asked = <<>>
      /\ \A s \in Line!Secrets \ Line!SecretsOf(order.name) : order.source[s] = "none"
    BY DEF LineInv, Line!Started, Line!TypeOK
<1>2. /\ OneLine("user") \in Nat /\ OneLine("pass") \in Nat /\ OneLine("auth") \in Nat
      /\ Earlier("user") = 0 /\ Earlier("pass") = OneLine("user")
      /\ Earlier("auth") = OneLine("user") + OneLine("pass")
    BY DEF OneLine, Earlier
<1>3. /\ read = OneLine("user") + OneLine("pass") + OneLine("auth")
      /\ \A s \in Line!Secrets : secrets[s] = Value(s)
    BY <1>1, <1>2 DEF SecretsInv
<1>4. \A s \in Line!Secrets : s \in Line!FromStdin <=> OneLine(s) = 1
    BY DEF Line!FromStdin, OneLine
<1>5. ASSUME NEW T \in SUBSET Line!FromStdin
      PROVE  Line!Cardinality(T) = (IF "user" \in T THEN 1 ELSE 0)
                                     + (IF "pass" \in T THEN 1 ELSE 0)
                                     + (IF "auth" \in T THEN 1 ELSE 0)
    BY CountSecrets DEF Line!FromStdin, Line!Secrets
<1>6. /\ "user" \in Line!Secrets /\ "pass" \in Line!Secrets /\ "auth" \in Line!Secrets
      /\ \A s \in Line!Secrets : s \in {"user", "pass", "auth"}
    BY DEF Line!Secrets
<1>7. \A s \in Line!Secrets : OneLine(s) = IF s \in Line!FromStdin THEN 1 ELSE 0
    BY DEF Line!FromStdin, OneLine
<1>8. read = Line!Cardinality(Line!FromStdin)
    <2>1. OneLine("user") = (IF "user" \in Line!FromStdin THEN 1 ELSE 0)
        BY <1>6, <1>7
    <2>2. OneLine("pass") = (IF "pass" \in Line!FromStdin THEN 1 ELSE 0)
        BY <1>6, <1>7
    <2>3. OneLine("auth") = (IF "auth" \in Line!FromStdin THEN 1 ELSE 0)
        BY <1>6, <1>7
    <2> QED BY <1>3, <1>5, <2>1, <2>2, <2>3
<1>9. ASSUME NEW s \in Line!Secrets, order.source[s] = "stdin"
      PROVE  secrets[s] = Line!Cardinality({r \in Line!FromStdin : Line!Rank[r] <= Line!Rank[s]})
    <2> DEFINE T == {r \in Line!FromStdin : Line!Rank[r] <= Line!Rank[s]}
    <2>1. Line!Rank["user"] = 1 /\ Line!Rank["pass"] = 2 /\ Line!Rank["auth"] = 3
        BY DEF Line!Rank
    <2>2. s \in Line!FromStdin /\ OneLine(s) = 1
        BY <1>9 DEF Line!FromStdin, OneLine
    <2>3. secrets[s] = Earlier(s) + 1
        BY <1>3, <1>9 DEF Value
    <2>4. /\ "user" \in T <=> OneLine("user") = 1
          /\ "pass" \in T <=> s # "user" /\ OneLine("pass") = 1
          /\ "auth" \in T <=> s = "auth" /\ OneLine("auth") = 1
        BY <1>4, <1>6, <2>1
    <2>5. Line!Cardinality(T) = (IF "user" \in T THEN 1 ELSE 0)
                                     + (IF "pass" \in T THEN 1 ELSE 0)
                                     + (IF "auth" \in T THEN 1 ELSE 0)
        BY <1>5
    <2>6. \A r \in Line!Secrets : OneLine(r) = 1 \/ OneLine(r) = 0
        BY DEF OneLine
    <2>10. (secrets[s] = Line!Cardinality(T)) =>
              secrets[s] = Line!Cardinality({r \in Line!FromStdin : Line!Rank[r] <= Line!Rank[s]})
        OBVIOUS
    <2> HIDE DEF T
    <2> SUFFICES secrets[s] = Line!Cardinality(T)
        BY <2>10
    <2>7. CASE s = "user"
        BY <1>2, <1>6, <2>2, <2>3, <2>4, <2>5, <2>7
    <2>8. CASE s = "pass"
        BY <1>2, <1>6, <2>2, <2>3, <2>4, <2>5, <2>6, <2>8
    <2>9. CASE s = "auth"
        BY <1>2, <1>6, <2>2, <2>3, <2>4, <2>5, <2>6, <2>9
    <2> QED BY <1>6, <2>7, <2>8, <2>9
<1>10. Line!EachItsOwn
    <2>1. ASSUME NEW s \in Line!Secrets
          PROVE  secrets[s] = CASE order.source[s] = "none" -> Line!NoSecret
                                [] order.source[s] = "flag" -> Line!FromFlag
                                [] OTHER -> Line!Cardinality(
                                       {r \in Line!FromStdin : Line!Rank[r] <= Line!Rank[s]})
        <3>1. order.source[s] \in {"none", "flag", "stdin"}
            BY <1>1, <1>6, OrderMeans
        <3>2. CASE order.source[s] = "stdin"
            BY <1>9, <3>2
        <3>3. CASE order.source[s] \in {"none", "flag"}
            BY <1>3, <3>3 DEF Value
        <3> QED BY <3>1, <3>2, <3>3
    <2> QED BY <1>8, <2>1 DEF Line!EachItsOwn
<1>11. Line!RunOfItsScheme
    <2>1. kind = Line!Kind
        BY DEF KindInv, Line!Started
    <2>2. order.name \in {"stun", "turn", "turns"} => order.scheme = order.name
        BY <1>1 DEF Line!Accepted, Line!SchemeAllowed
    <2>3. order.name # "ice" \/ order.lower => kind = Line!Wanted
        BY <2>1 DEF Line!Kind, Line!Wanted, Line!IsTurn
    <2>4. ASSUME order.name \in {"stun", "turn", "turns", "ice"}, Line!Supplied # {}
          PROVE  kind \in {"turn", "turns", "iceTurn"}
        <3>1. CASE order.name = "ice"
            BY <1>1, <2>1, <2>4, <3>1 DEF Line!Accepted, Line!Kind
        <3>2. CASE order.name = "stun"
            <4>1. Line!Supplied = {}
                BY <1>1, <3>2 DEF Line!SecretsOf, Line!Supplied
            <4> QED BY <2>4, <4>1
        <3>3. CASE order.name \in {"turn", "turns"}
            BY <2>1, <3>3 DEF Line!Kind
        <3> QED BY <2>4, <3>1, <3>2, <3>3
    <2> QED BY <2>2, <2>3, <2>4 DEF Line!RunOfItsScheme
<1> QED BY <1>10, <1>11

-----------------------------------------------------------------------------
(* The parsers of a target *)

\* Indices have a first and a last.
LEMMA FirstAndLast ==
    ASSUME NEW n \in Nat, NEW T \in SUBSET (1..n), T # {}
    PROVE  /\ \E x \in T : \A y \in T : x <= y
           /\ \E x \in T : \A y \in T : x >= y
<1> DEFINE R == OpToRel(<, Nat)
<1>1. IsWellFoundedOn(R, Nat)
    BY NatLessThanWellFounded
<1>2. \A x, y \in Nat : (x < y) => <<x, y>> \in R
    BY DEF OpToRel
<1> HIDE DEF R
<1>3. ASSUME NEW U \in SUBSET Nat, U # {}
      PROVE  \E x \in U : \A y \in U : x <= y
    <2>1. PICK x \in U : \A y \in U : ~ (<<y, x>> \in R)
        BY <1>1, <1>3, WFMin
    <2>2. \A y \in U : y \in Nat /\ x \in Nat /\ ~(y < x)
        BY <1>2, <2>1
    <2> QED BY <2>1, <2>2
<1>4. \E x \in T : \A y \in T : x <= y
    BY <1>3
<1> DEFINE U == {n - y : y \in T}
<1>5. U \in SUBSET Nat /\ U # {}
    <2>1. \A y \in T : n - y \in Nat
        OBVIOUS
    <2> QED BY <2>1
<1>6. PICK u \in U : \A v \in U : u <= v
    BY <1>3, <1>5
<1>7. PICK x \in T : u = n - x
    BY <1>6
<1>8. \A y \in T : n - x <= n - y
    BY <1>6, <1>7
<1>9. \A y \in T : x >= y
    BY <1>8
<1> QED BY <1>4, <1>7, <1>9

\* The first bracket that closes, and the last colon.
LEMMA FirstClose ==
    ASSUME NEW S, NEW s \in Seq(S),
           NEW k, k = Text!SelectInSeq(s, LAMBDA c : c = "]"), k # 0
    PROVE  k \in 1..Len(s) /\ s[k] = "]"
<1> DEFINE I == {i \in 1..Len(s) : s[i] = "]"}
<1>1. k = IF I # {} THEN Text!Min(I) ELSE 0
    BY DEF Text!SelectInSeq
<1>2. I # {} /\ k = CHOOSE x \in I : \A y \in I : x <= y
    BY <1>1 DEF Text!Min
<1>3. Len(s) \in Nat /\ I \in SUBSET (1..Len(s))
    OBVIOUS
<1> HIDE DEF I
<1>4. \E x \in I : \A y \in I : x <= y
    BY <1>2, <1>3, FirstAndLast
<1>5. k \in I
    BY <1>2, <1>4
<1> QED BY <1>5 DEF I

LEMMA FirstCloseIs ==
    ASSUME NEW S, NEW s \in Seq(S), NEW k \in 1..Len(s), s[k] = "]",
           \A i \in 1..(k - 1) : s[i] # "]"
    PROVE  Text!SelectInSeq(s, LAMBDA c : c = "]") = k
<1> DEFINE first == Text!SelectInSeq(s, LAMBDA c : c = "]")
           I == {i \in 1..Len(s) : s[i] = "]"}
<1>1. first = IF I # {} THEN Text!Min(I) ELSE 0
    BY DEF Text!SelectInSeq
<1>2. k \in I /\ \A i \in I : i \in Nat /\ k <= i
    OBVIOUS
<1> HIDE DEF I
<1>3. Text!Min(I) = k
    <2>1. \A x \in I : (\A y \in I : x <= y) <=> x = k
        BY <1>2
    <2> QED BY <1>2, <2>1 DEF Text!Min
<1> HIDE DEF first
<1>4. first = k
    BY <1>1, <1>2, <1>3
<1> QED BY <1>4 DEF first

LEMMA LastColon ==
    ASSUME NEW S, NEW s \in Seq(S), NEW k, k = Text!SelectLastInSeq(s, LAMBDA c : c = ":")
    PROVE  \/ k = 0 /\ \A i \in 1..Len(s) : s[i] # ":"
           \/ /\ k \in 1..Len(s) /\ s[k] = ":"
              /\ \A i \in 1..Len(s) : s[i] = ":" => i <= k
<1> DEFINE I == {i \in 1..Len(s) : s[i] = ":"}
<1>1. k = IF I # {} THEN Text!Max(I) ELSE 0
    BY DEF Text!SelectLastInSeq
<1>2. I # {} => k = CHOOSE x \in I : \A y \in I : x >= y
    BY <1>1 DEF Text!Max
<1>3. Len(s) \in Nat /\ I \in SUBSET (1..Len(s))
    OBVIOUS
<1> HIDE DEF I
<1>4. I # {} => \E x \in I : \A y \in I : x >= y
    BY <1>2, <1>3, FirstAndLast
<1>5. I # {} => k \in I /\ \A y \in I : k >= y
    BY <1>2, <1>4
<1> QED BY <1>1, <1>5 DEF I

\* A host between brackets, or none, is all that trimming leaves.
LEMMA TrimmedIs ==
    ASSUME NEW S, NEW s \in Seq(S), NEW a \in 1..Len(s), NEW b \in 1..Len(s), a <= b,
           \A i \in 1..Len(s) : ~Text!IsBracket(s[i]) <=> i \in a..b
    PROVE  Text!Trimmed(s) = SubSeq(s, a, b)
<1> DEFINE keep == {i \in DOMAIN s : ~Text!IsBracket(s[i])}
<1>1. keep = a..b
    OBVIOUS
<1>2. a \in Nat /\ b \in Nat /\ a \in a..b /\ b \in a..b
    OBVIOUS
<1>3. Text!Min(a..b) = a
    <2>1. \A x \in a..b : (\A y \in a..b : x <= y) <=> x = a
        BY <1>2
    <2> QED BY <1>2, <2>1 DEF Text!Min
<1>4. Text!Max(a..b) = b
    <2>1. \A x \in a..b : (\A y \in a..b : x >= y) <=> x = b
        BY <1>2
    <2> QED BY <1>2, <2>1 DEF Text!Max
<1>5. Text!Trimmed(s) = IF keep = {} THEN <<>> ELSE SubSeq(s, Text!Min(keep), Text!Max(keep))
    BY DEF Text!Trimmed
<1> HIDE DEF keep
<1> QED BY <1>1, <1>2, <1>3, <1>4, <1>5

\* And whatever trimming leaves is all between the first and the last character
\* that is no bracket.
LEMMA TrimmedGives ==
    ASSUME NEW S, NEW s \in Seq(S), Text!Trimmed(s) # <<>>
    PROVE  \E a, b \in 1..Len(s) :
              /\ a <= b /\ Text!Trimmed(s) = SubSeq(s, a, b)
              /\ ~Text!IsBracket(s[a]) /\ ~Text!IsBracket(s[b])
              /\ \A k \in 1..Len(s) : k < a \/ k > b => Text!IsBracket(s[k])
<1> DEFINE keep == {i \in DOMAIN s : ~Text!IsBracket(s[i])}
           a == Text!Min(keep)
           b == Text!Max(keep)
<1>1. Text!Trimmed(s) = IF keep = {} THEN <<>> ELSE SubSeq(s, a, b)
    BY DEF Text!Trimmed
<1>2. Len(s) \in Nat /\ keep \in SUBSET (1..Len(s))
    OBVIOUS
<1>3. \A k \in 1..Len(s) : k \in keep <=> ~Text!IsBracket(s[k])
    OBVIOUS
<1> HIDE DEF keep
<1>4. keep # {}
    BY <1>1
<1>5. /\ \E x \in keep : \A y \in keep : x <= y
      /\ \E x \in keep : \A y \in keep : x >= y
    BY <1>2, <1>4, FirstAndLast
<1>6. a \in keep /\ \A y \in keep : a <= y
    BY <1>5 DEF Text!Min
<1>7. b \in keep /\ \A y \in keep : b >= y
    BY <1>5 DEF Text!Max
<1>8. a \in 1..Len(s) /\ b \in 1..Len(s) /\ a <= b
    BY <1>2, <1>6, <1>7
<1> HIDE DEF a, b
<1>9. Text!Trimmed(s) = SubSeq(s, a, b)
    BY <1>1, <1>4
<1>10. ~Text!IsBracket(s[a]) /\ ~Text!IsBracket(s[b])
    BY <1>3, <1>6, <1>7, <1>8
<1>11. ASSUME NEW k \in 1..Len(s), k < a \/ k > b PROVE Text!IsBracket(s[k])
    <2>1. k \notin keep
        BY <1>2, <1>6, <1>7, <1>8, <1>11
    <2> QED BY <1>3, <2>1
<1> QED BY <1>8, <1>9, <1>10, <1>11

\* No port has a colon.
LEMMA PortHasNoColon ==
    ASSUME NEW S, NEW port \in Seq(S), Text!IsPort(port)
    PROVE  \A i \in 1..Len(port) : port[i] # ":"
<1>1. \A i \in DOMAIN Text!Unsigned(port) : Text!Unsigned(port)[i] # ":"
    BY DigitAssumption DEF Text!IsPort, Text!IsDigit
<1>2. CASE port # <<>> /\ port[1] = "+"
    <2>1. Text!Unsigned(port) = Tail(port)
        BY <1>2 DEF Text!Unsigned
    <2>2. /\ Len(port) \in Nat \ {0} /\ Len(Tail(port)) = Len(port) - 1
          /\ \A i \in 1..Len(Tail(port)) : Tail(port)[i] = port[i + 1]
          /\ DOMAIN Tail(port) = 1..Len(Tail(port))
        BY <1>2, OneLess
    <2>3. ASSUME NEW i \in 1..Len(port), i # 1 PROVE port[i] # ":"
        <3>1. i - 1 \in 1..Len(Tail(port)) /\ (i - 1) + 1 = i
            BY <2>2, <2>3
        <3>2. Tail(port)[i - 1] # ":"
            BY <1>1, <2>1, <2>2, <3>1
        <3> QED BY <2>2, <3>1, <3>2
    <2> QED BY <1>2, <2>3
<1>3. CASE port = <<>> \/ port[1] # "+"
    <2>1. Text!Unsigned(port) = port
        BY <1>3 DEF Text!Unsigned
    <2> QED BY <1>1, <2>1
<1> QED BY <1>2, <1>3

\* What an accepted host and port are.
LEMMA AcceptedIs ==
    ASSUME NEW host, NEW port, Text!HostAndPort(host, port).ok
    PROVE  /\ host # <<>> /\ Text!IsPort(port)
           /\ Text!HostAndPort(host, port) = Text!Target(host, Text!Number(Text!Unsigned(port)))
           /\ Text!HostAndPort(host, port).host = host
           /\ Text!HostAndPort(host, port).port = Text!Number(Text!Unsigned(port))
BY DEF Text!HostAndPort, Text!Refused, Text!Target

\* A piece of a list.
LEMMA Piece ==
    ASSUME NEW S, NEW s \in Seq(S), NEW a \in Nat \ {0}, NEW b \in 0..Len(s), a <= b + 1
    PROVE  /\ SubSeq(s, a, b) \in Seq(S) /\ Len(SubSeq(s, a, b)) = b - a + 1
           /\ Len(s) \in Nat /\ b \in Nat
           /\ \A i \in 1..(b - a + 1) : SubSeq(s, a, b)[i] = s[a + i - 1] /\ a + i - 1 \in 1..Len(s)
<1>1. Len(s) \in Nat /\ b \in Nat
    OBVIOUS
<1>2. \A i \in a..b : s[i] \in S
    BY <1>1
<1>3. SubSeq(s, a, b) \in Seq(S)
    BY <1>1, <1>2, SubSeqProperties
<1>4. /\ Len(SubSeq(s, a, b)) = IF a <= b THEN b - a + 1 ELSE 0
      /\ \A i \in 1..(b - a + 1) : SubSeq(s, a, b)[i] = s[a + i - 1]
    BY <1>1, <1>3, SubSeqProperties
<1> QED BY <1>1, <1>3, <1>4

\* A piece of the first part of a list is a piece of the list.
LEMMA PieceOfPrefix ==
    ASSUME NEW S, NEW s \in Seq(S), NEW before \in Seq(S), Len(before) <= Len(s),
           \A i \in 1..Len(before) : before[i] = s[i],
           NEW a \in 1..Len(before), NEW b \in 1..Len(before), a <= b
    PROVE  SubSeq(before, a, b) = SubSeq(s, a, b)
<1>1. Len(s) \in Nat /\ Len(before) \in Nat /\ a \in Nat \ {0} /\ b \in Nat
    OBVIOUS
<1>2. /\ SubSeq(before, a, b) \in Seq(S) /\ Len(SubSeq(before, a, b)) = b - a + 1
      /\ \A i \in 1..(b - a + 1) : SubSeq(before, a, b)[i] = before[a + i - 1]
    BY <1>1, Piece
<1>3. /\ SubSeq(s, a, b) \in Seq(S) /\ Len(SubSeq(s, a, b)) = b - a + 1
      /\ \A i \in 1..(b - a + 1) : SubSeq(s, a, b)[i] = s[a + i - 1]
    BY <1>1, Piece
<1>4. \A i \in 1..(b - a + 1) : a + i - 1 \in 1..Len(before)
    BY <1>1
<1>5. \A i \in 1..(b - a + 1) : SubSeq(before, a, b)[i] = SubSeq(s, a, b)[i]
    BY <1>2, <1>3, <1>4
<1> QED BY <1>2, <1>3, <1>5, SeqEqual

\* How a target in brackets is taken apart.
LEMMA BracketedIs ==
    ASSUME NEW S, NEW s \in Seq(S), s # <<>>, s[1] = "[", Text!ParseHostPort(s).ok
    PROVE  \E close \in 3..(Len(s) - 1) :
              LET host == SubSeq(s, 2, close - 1)
                  port == SubSeq(s, close + 2, Len(s))
              IN  /\ s[close] = "]" /\ s[close + 1] = ":"
                  /\ host # <<>> /\ Text!IsPort(port)
                  /\ Text!ParseHostPort(s) = Text!HostAndPort(host, port)
<1>1. PICK close : close = Text!SelectInSeq(s, LAMBDA c : c = "]")
    OBVIOUS
<1> DEFINE host == SubSeq(s, 2, close - 1)
           port == SubSeq(s, close + 2, Len(s))
           refused == close = 0 \/ close = Len(s) \/ s[close + 1] # ":"
<1>2. Text!ParseHostPort(s) = IF refused THEN Text!Refused ELSE Text!HostAndPort(host, port)
    BY <1>1 DEF Text!ParseHostPort, Text!Bracketed, Text!From
<1>3. ~refused /\ Text!ParseHostPort(s) = Text!HostAndPort(host, port)
    <2>1. ~Text!Refused.ok
        BY DEF Text!Refused
    <2> QED BY <1>2, <2>1
<1>4. close \in 1..Len(s) /\ s[close] = "]" /\ close # Len(s) /\ s[close + 1] = ":"
    BY <1>1, <1>3, FirstClose
<1>5. host # <<>> /\ Text!IsPort(port)
    BY <1>3, AcceptedIs
<1>6. Len(s) \in Nat /\ close # 1
    BY <1>4
<1>7. close # 2
    <2>1. close = 2 => Len(host) = 0
        BY <1>6
    <2>2. close = 2 => host = <<>>
        BY <1>6
    <2> QED BY <1>5, <2>2
<1>8. close \in 3..(Len(s) - 1)
    BY <1>4, <1>6, <1>7
<1> QED BY <1>3, <1>4, <1>5, <1>8

\* And one without.
LEMMA PlainIs ==
    ASSUME NEW S, NEW s \in Seq(S), s = <<>> \/ s[1] # "[", Text!ParseHostPort(s).ok
    PROVE  \E colon \in 2..Len(s) :
              LET host == SubSeq(s, 1, colon - 1)
                  port == SubSeq(s, colon + 1, Len(s))
              IN  /\ s[colon] = ":" /\ \A i \in 1..(colon - 1) : s[i] # ":"
                  /\ colon = Text!SelectLastInSeq(s, LAMBDA c : c = ":")
                  /\ host # <<>> /\ Text!IsPort(port)
                  /\ Text!ParseHostPort(s) = Text!HostAndPort(host, port)
<1>1. PICK colon : colon = Text!SelectLastInSeq(s, LAMBDA c : c = ":")
    OBVIOUS
<1> DEFINE host == SubSeq(s, 1, colon - 1)
           port == SubSeq(s, colon + 1, Len(s))
           refused == colon = 0 \/ ":" \in Text!ToSet(host)
<1>2. Text!ParseHostPort(s) = IF refused THEN Text!Refused ELSE Text!HostAndPort(host, port)
    BY <1>1 DEF Text!ParseHostPort, Text!Plain, Text!From, Text!Before
<1>3. ~refused /\ Text!ParseHostPort(s) = Text!HostAndPort(host, port)
    <2>1. ~Text!Refused.ok
        BY DEF Text!Refused
    <2> QED BY <1>2, <2>1
<1>4. colon \in 1..Len(s) /\ s[colon] = ":"
    BY <1>1, <1>3, LastColon
<1>5. host # <<>> /\ Text!IsPort(port)
    BY <1>3, AcceptedIs
<1>6. Len(s) \in Nat /\ colon \in Nat
    BY <1>4
<1>7. colon # 1
    <2>1. colon = 1 => host = <<>>
        BY <1>6
    <2> QED BY <1>5, <2>1
<1>8. ASSUME NEW i \in 1..(colon - 1) PROVE s[i] # ":"
    <2>1. /\ host \in Seq(S) /\ Len(host) = (colon - 1) - 1 + 1
          /\ \A m \in 1..((colon - 1) - 1 + 1) : host[m] = s[1 + m - 1]
        BY <1>4, <1>6, Piece
    <2>2. i \in DOMAIN host /\ host[i] = s[i]
        BY <1>6, <2>1
    <2> QED BY <1>3, <2>2 DEF Text!ToSet
<1>9. colon \in 2..Len(s)
    BY <1>4, <1>6, <1>7
<1> QED BY <1>1, <1>3, <1>4, <1>5, <1>8, <1>9

\* The second parser splits where the first did and trims no more than its
\* brackets.
LEMMA RestIs ==
    ASSUME NEW S, NEW s \in Seq(S), NEW n \in 1..Len(s), s[n] = ":",
           \A i \in 1..(Len(s) - n) : SubSeq(s, n + 1, Len(s))[i] # ":",
           NEW a \in 1..(n - 1), NEW b \in 1..(n - 1), a <= b,
           \A i \in 1..(n - 1) : ~Text!IsBracket(s[i]) <=> i \in a..b,
           NEW default
    PROVE  Text!ParseRest(s, default)
               = Text!HostAndPort(SubSeq(s, a, b), SubSeq(s, n + 1, Len(s)))
<1>1. PICK colon : colon = Text!SelectLastInSeq(s, LAMBDA c : c = ":")
    OBVIOUS
<1>2. Len(s) \in Nat /\ n \in Nat /\ a \in Nat \ {0} /\ b \in Nat
    OBVIOUS
<1>3. colon \in 1..Len(s) /\ s[colon] = ":" /\ n <= colon
    BY <1>1, LastColon
<1>4. colon = n
    <2>1. ASSUME colon > n PROVE FALSE
        <3>1. colon - n \in 1..(Len(s) - n) /\ (n + 1) + (colon - n) - 1 = colon
            BY <1>2, <1>3, <2>1
        <3>2. \A i \in 1..(Len(s) - (n + 1) + 1) :
                  SubSeq(s, n + 1, Len(s))[i] = s[(n + 1) + i - 1]
            BY <1>2, Piece
        <3>3. Len(s) - (n + 1) + 1 = Len(s) - n
            BY <1>2
        <3>4. SubSeq(s, n + 1, Len(s))[colon - n] = s[(n + 1) + (colon - n) - 1]
            BY <3>1, <3>2, <3>3
        <3> QED BY <1>3, <3>1, <3>4
    <2> QED BY <1>2, <1>3, <2>1
<1> DEFINE before == SubSeq(s, 1, n - 1)
<1>5. Text!ParseRest(s, default)
          = Text!HostAndPort(Text!Trimmed(before), SubSeq(s, n + 1, Len(s)))
    BY <1>1, <1>2, <1>4 DEF Text!ParseRest, Text!Before, Text!From
<1>6. /\ before \in Seq(S) /\ Len(before) = n - 1
      /\ \A i \in 1..(n - 1) : before[i] = s[i]
    <2>1. n - 1 \in 0..Len(s) /\ (n - 1) - 1 + 1 = n - 1
        BY <1>2
    <2>2. /\ before \in Seq(S) /\ Len(before) = (n - 1) - 1 + 1
          /\ \A i \in 1..((n - 1) - 1 + 1) : before[i] = s[1 + i - 1]
        BY <1>2, <2>1, Piece
    <2>3. \A i \in 1..(n - 1) : 1 + i - 1 = i
        BY <1>2
    <2> QED BY <2>1, <2>2, <2>3
<1>7. Text!Trimmed(before) = SubSeq(before, a, b)
    BY <1>2, <1>6, TrimmedIs
<1>8. SubSeq(before, a, b) = SubSeq(s, a, b)
    BY <1>2, <1>6, PieceOfPrefix
<1> QED BY <1>5, <1>7, <1>8

LEMMA AgreeInBrackets ==
    ASSUME NEW S, NEW s \in Seq(S), s # <<>>, s[1] = "[", Text!ParseHostPort(s).ok,
           Text!Unbracketed(Text!ParseHostPort(s).host), NEW default
    PROVE  Text!ParseRest(s, default) = Text!ParseHostPort(s)
<1>1. PICK close \in 3..(Len(s) - 1) :
          LET host == SubSeq(s, 2, close - 1)
              port == SubSeq(s, close + 2, Len(s))
          IN  /\ s[close] = "]" /\ s[close + 1] = ":"
              /\ host # <<>> /\ Text!IsPort(port)
              /\ Text!ParseHostPort(s) = Text!HostAndPort(host, port)
    BY BracketedIs
<1> DEFINE host == SubSeq(s, 2, close - 1)
           port == SubSeq(s, close + 2, Len(s))
<1>2. Len(s) \in Nat /\ close \in Nat /\ close + 1 \in 1..Len(s)
    OBVIOUS
<1>3. /\ port \in Seq(S) /\ Len(port) = Len(s) - (close + 2) + 1
    BY <1>2, Piece
<1>4. \A i \in 1..Len(port) : port[i] # ":"
    BY <1>1, <1>3, PortHasNoColon
<1>5. /\ host \in Seq(S) /\ Len(host) = (close - 1) - 2 + 1
      /\ \A i \in 1..((close - 1) - 2 + 1) : host[i] = s[2 + i - 1]
    BY <1>2, Piece
<1>6. Text!Unbracketed(host)
    BY <1>1, AcceptedIs
<1>7. \A i \in 1..close : ~Text!IsBracket(s[i]) <=> i \in 2..(close - 1)
    <2>1. ASSUME NEW i \in 2..(close - 1) PROVE ~Text!IsBracket(s[i])
        <3>1. i - 1 \in DOMAIN host /\ host[i - 1] = s[i]
            BY <1>2, <1>5
        <3> QED BY <1>6, <3>1 DEF Text!Unbracketed
    <2>2. Text!IsBracket(s[1]) /\ Text!IsBracket(s[close])
        BY <1>1 DEF Text!IsBracket
    <2>3. \A i \in 1..close : i \in 2..(close - 1) \/ i = 1 \/ i = close
        BY <1>2
    <2>4. 1 \notin 2..(close - 1) /\ close \notin 2..(close - 1)
        BY <1>2
    <2> QED BY <2>1, <2>2, <2>3, <2>4
<1>8. PICK n \in 1..Len(s) : n = close + 1
    BY <1>2
<1>9. /\ s[n] = ":" /\ SubSeq(s, n + 1, Len(s)) = port
      /\ \A i \in 1..(Len(s) - n) : SubSeq(s, n + 1, Len(s))[i] # ":"
      /\ 2 \in 1..(n - 1) /\ close - 1 \in 1..(n - 1) /\ 2 <= close - 1
      /\ \A i \in 1..(n - 1) : ~Text!IsBracket(s[i]) <=> i \in 2..(close - 1)
    <2>1. n + 1 = close + 2 /\ n - 1 = close /\ Len(s) - n = Len(s) - (close + 2) + 1
        BY <1>2, <1>8
    <2>2. 2 \in 1..(n - 1) /\ close - 1 \in 1..(n - 1) /\ 2 <= close - 1
        BY <1>2, <1>8
    <2> QED BY <1>1, <1>3, <1>4, <1>7, <1>8, <2>1, <2>2
<1>10. Text!ParseRest(s, default) = Text!HostAndPort(host, SubSeq(s, n + 1, Len(s)))
    BY <1>9, RestIs
<1> QED BY <1>1, <1>9, <1>10

LEMMA AgreeWithout ==
    ASSUME NEW S, NEW s \in Seq(S), s = <<>> \/ s[1] # "[", Text!ParseHostPort(s).ok,
           Text!Unbracketed(Text!ParseHostPort(s).host), NEW default
    PROVE  Text!ParseRest(s, default) = Text!ParseHostPort(s)
<1>1. PICK n \in 2..Len(s) :
          LET host == SubSeq(s, 1, n - 1)
              port == SubSeq(s, n + 1, Len(s))
          IN  /\ s[n] = ":" /\ \A i \in 1..(n - 1) : s[i] # ":"
              /\ n = Text!SelectLastInSeq(s, LAMBDA c : c = ":")
              /\ host # <<>> /\ Text!IsPort(port)
              /\ Text!ParseHostPort(s) = Text!HostAndPort(host, port)
    BY PlainIs
<1> DEFINE host == SubSeq(s, 1, n - 1)
           port == SubSeq(s, n + 1, Len(s))
<1>2. Len(s) \in Nat /\ n \in Nat
    OBVIOUS
<1>3. /\ port \in Seq(S) /\ Len(port) = Len(s) - (n + 1) + 1
    BY <1>2, Piece
<1>4. \A i \in 1..(Len(s) - n) : port[i] # ":"
    <2>1. \A i \in 1..Len(port) : port[i] # ":"
        BY <1>1, <1>3, PortHasNoColon
    <2>2. Len(port) = Len(s) - n
        BY <1>2, <1>3
    <2> QED BY <2>1, <2>2
<1>5. /\ host \in Seq(S) /\ Len(host) = (n - 1) - 1 + 1
      /\ \A i \in 1..((n - 1) - 1 + 1) : host[i] = s[1 + i - 1]
    BY <1>2, Piece
<1>6. Text!Unbracketed(host)
    BY <1>1, AcceptedIs
<1>7. \A i \in 1..(n - 1) : ~Text!IsBracket(s[i]) <=> i \in 1..(n - 1)
    <2>1. ASSUME NEW i \in 1..(n - 1) PROVE ~Text!IsBracket(s[i])
        <3>1. i \in DOMAIN host /\ host[i] = s[i]
            BY <1>2, <1>5
        <3> QED BY <1>6, <3>1 DEF Text!Unbracketed
    <2> QED BY <2>1
<1>8. /\ n \in 1..Len(s) /\ s[n] = ":"
      /\ 1 \in 1..(n - 1) /\ n - 1 \in 1..(n - 1) /\ 1 <= n - 1
    BY <1>1, <1>2
<1>9. Text!ParseRest(s, default) = Text!HostAndPort(host, port)
    BY <1>4, <1>7, <1>8, RestIs
<1> QED BY <1>1, <1>9

\* A host in brackets is all of the text before its port, and so is one without.
LEMMA NothingDropped ==
    ASSUME NEW S, {"[", "]"} \subseteq S, text \in Seq(S), Text!ParseHostPort(text).ok
    PROVE  LET t == Text!ParseHostPort(text)
           IN \E i \in 1..Len(text) :
                 /\ Text!PortAfter(i, t.port)
                 /\ Text!Before(text, i) \in {t.host, <<"[">> \o t.host \o <<"]">>}
                 /\ ":" \in Text!ToSet(t.host) => text[1] = "["
<1>0. PICK s \in Seq(S) : s = text
    OBVIOUS
<1>1. CASE s # <<>> /\ s[1] = "["
    <2>1. PICK close \in 3..(Len(s) - 1) :
              LET host == SubSeq(s, 2, close - 1)
                  port == SubSeq(s, close + 2, Len(s))
              IN  /\ s[close] = "]" /\ s[close + 1] = ":"
                  /\ host # <<>> /\ Text!IsPort(port)
                  /\ Text!ParseHostPort(s) = Text!HostAndPort(host, port)
        BY <1>0, <1>1, BracketedIs
    <2> DEFINE host == SubSeq(s, 2, close - 1)
               port == SubSeq(s, close + 2, Len(s))
    <2>2. Len(s) \in Nat /\ close \in Nat /\ close + 1 \in 1..Len(s)
        OBVIOUS
    <2>3. /\ Text!ParseHostPort(s).host = host
          /\ Text!ParseHostPort(s).port = Text!Number(Text!Unsigned(port))
        <3>1. Text!ParseHostPort(s) = Text!HostAndPort(host, port)
            BY <2>1
        <3>2. Text!HostAndPort(host, port).ok
            BY <1>0, <3>1
        <3>3. /\ Text!HostAndPort(host, port).host = host
              /\ Text!HostAndPort(host, port).port = Text!Number(Text!Unsigned(port))
            BY <3>2, AcceptedIs
        <3> QED BY <3>1, <3>3
    <2>4. /\ Text!From(s, (close + 1) + 1) = port
          /\ Text!Before(s, close + 1) = SubSeq(s, 1, close)
        BY <2>2 DEF Text!From, Text!Before
    <2>5. SubSeq(s, 1, close) = (<<"[">> \o host) \o <<"]">>
        <3> DEFINE left == SubSeq(s, 1, close)
                   open == <<"[">>
                   end == <<"]">>
        <3>1. /\ left \in Seq(S) /\ Len(left) = close - 1 + 1
              /\ \A i \in 1..(close - 1 + 1) : left[i] = s[1 + i - 1]
            BY <2>2, Piece
        <3>2. /\ host \in Seq(S) /\ Len(host) = (close - 1) - 2 + 1
              /\ \A i \in 1..((close - 1) - 2 + 1) : host[i] = s[2 + i - 1]
            BY <2>2, Piece
        <3>3. /\ open \in Seq(S) /\ Len(open) = 1 /\ open[1] = "["
              /\ end \in Seq(S) /\ Len(end) = 1 /\ end[1] = "]"
            OBVIOUS
        <3>0. open \in Seq(S) /\ host \in Seq(S) /\ end \in Seq(S)
            BY <3>2, <3>3
        <3> HIDE DEF left, open, end, host
        <3>4. /\ open \o host \in Seq(S) /\ Len(open \o host) = close - 1
              /\ (open \o host)[1] = "["
              /\ \A i \in 2..(close - 1) : (open \o host)[i] = host[i - 1]
            <4>1. /\ open \o host \in Seq(S) /\ Len(open \o host) = Len(open) + Len(host)
                  /\ \A i \in 1..(Len(open) + Len(host)) : (open \o host)[i] =
                        IF i <= Len(open) THEN open[i] ELSE host[i - Len(open)]
                BY <3>0, ConcatProperties
            <4>2. Len(open) + Len(host) = close - 1
                BY <2>2, <3>2, <3>3
            <4>3. 1 \in 1..(close - 1) /\ \A i \in 2..(close - 1) : i \in 1..(close - 1) /\ ~(i <= 1)
                BY <2>2
            <4> QED BY <3>3, <4>1, <4>2, <4>3
        <3> DEFINE middle == open \o host
        <3>5. /\ middle \o end \in Seq(S) /\ Len(middle \o end) = close
              /\ \A i \in 1..(close - 1) : (middle \o end)[i] = middle[i]
              /\ (middle \o end)[close] = "]"
            <4>0. middle \in Seq(S)
                BY <3>4
            <4> HIDE DEF middle
            <4>1. /\ middle \o end \in Seq(S) /\ Len(middle \o end) = Len(middle) + Len(end)
                  /\ \A i \in 1..(Len(middle) + Len(end)) : (middle \o end)[i] =
                        IF i <= Len(middle) THEN middle[i] ELSE end[i - Len(middle)]
                BY <3>0, <4>0, ConcatProperties
            <4>2. Len(middle) = close - 1 /\ Len(middle) + Len(end) = close
                BY <2>2, <3>3, <3>4 DEF middle
            <4>3. /\ \A i \in 1..(close - 1) : i \in 1..close /\ i <= close - 1
                  /\ close \in 1..close /\ ~(close <= close - 1) /\ close - (close - 1) = 1
                BY <2>2
            <4> QED BY <3>3, <4>1, <4>2, <4>3
        <3>6. ASSUME NEW i \in 1..close PROVE left[i] = (middle \o end)[i]
            <4>1. left[i] = s[i]
                BY <2>2, <3>1
            <4>2. i = 1 \/ i \in 2..(close - 1) \/ i = close
                BY <2>2
            <4>3. CASE i = 1
                <5>1. 1 \in 1..(close - 1)
                    BY <2>2
                <5> QED BY <1>1, <3>4, <3>5, <4>1, <4>3, <5>1
            <4>4. CASE i \in 2..(close - 1)
                <5>1. i \in 1..(close - 1) /\ i - 1 \in 1..((close - 1) - 2 + 1)
                      /\ 2 + (i - 1) - 1 = i
                    BY <2>2, <4>4
                <5>2. host[i - 1] = s[2 + (i - 1) - 1]
                    BY <3>2, <5>1
                <5>3. (middle \o end)[i] = host[i - 1]
                    BY <3>4, <3>5, <4>4, <5>1
                <5> QED BY <4>1, <5>1, <5>2, <5>3
            <4>5. CASE i = close
                BY <2>1, <3>5, <4>1, <4>5
            <4> QED BY <4>2, <4>3, <4>4, <4>5
        <3>7. Len(left) = Len(middle \o end) /\ Len(left) = close
            BY <2>2, <3>1, <3>5
        <3> HIDE DEF middle
        <3>8. left = middle \o end
            BY <3>1, <3>5, <3>6, <3>7, SeqEqual
        <3> QED BY <3>8 DEF left, middle, open, end, host
    <2>6. /\ text[close + 1] = ":" /\ text[1] = "["
          /\ Text!IsPort(Text!From(text, (close + 1) + 1))
          /\ Text!Number(Text!Unsigned(Text!From(text, (close + 1) + 1)))
                = Text!ParseHostPort(text).port
          /\ Text!ParseHostPort(text).host = host
        BY <1>0, <1>1, <2>1, <2>3, <2>4
    <2>7. Text!PortAfter(close + 1, Text!ParseHostPort(text).port)
        BY <2>6 DEF Text!PortAfter
    <2> QED BY <1>0, <2>2, <2>4, <2>5, <2>6, <2>7
<1>2. CASE s = <<>> \/ s[1] # "["
    <2>1. PICK n \in 2..Len(s) :
              LET host == SubSeq(s, 1, n - 1)
                  port == SubSeq(s, n + 1, Len(s))
              IN  /\ s[n] = ":" /\ \A i \in 1..(n - 1) : s[i] # ":"
                  /\ n = Text!SelectLastInSeq(s, LAMBDA c : c = ":")
                  /\ host # <<>> /\ Text!IsPort(port)
                  /\ Text!ParseHostPort(s) = Text!HostAndPort(host, port)
        BY <1>0, <1>2, PlainIs
    <2> DEFINE host == SubSeq(s, 1, n - 1)
               port == SubSeq(s, n + 1, Len(s))
    <2>2. Len(s) \in Nat /\ n \in Nat /\ n \in 1..Len(s)
        OBVIOUS
    <2>3. /\ Text!ParseHostPort(s).host = host
          /\ Text!ParseHostPort(s).port = Text!Number(Text!Unsigned(port))
        <3>1. Text!ParseHostPort(s) = Text!HostAndPort(host, port)
            BY <2>1
        <3>2. Text!HostAndPort(host, port).ok
            BY <1>0, <3>1
        <3>3. /\ Text!HostAndPort(host, port).host = host
              /\ Text!HostAndPort(host, port).port = Text!Number(Text!Unsigned(port))
            BY <3>2, AcceptedIs
        <3> QED BY <3>1, <3>3
    <2>4. Text!From(s, n + 1) = port /\ Text!Before(s, n) = host
        BY <2>2 DEF Text!From, Text!Before
    <2>5. ":" \notin Text!ToSet(host)
        <3>1. /\ host \in Seq(S) /\ Len(host) = (n - 1) - 1 + 1
              /\ \A i \in 1..((n - 1) - 1 + 1) : host[i] = s[1 + i - 1]
            BY <2>2, Piece
        <3>2. \A i \in DOMAIN host : i \in 1..(n - 1) /\ host[i] = s[i]
            BY <2>2, <3>1
        <3> QED BY <2>1, <3>2 DEF Text!ToSet
    <2>6. /\ text[n] = ":" /\ Text!IsPort(Text!From(text, n + 1))
          /\ Text!Number(Text!Unsigned(Text!From(text, n + 1))) = Text!ParseHostPort(text).port
          /\ Text!ParseHostPort(text).host = host
        BY <1>0, <2>1, <2>3, <2>4
    <2>7. Text!PortAfter(n, Text!ParseHostPort(text).port)
        BY <2>6 DEF Text!PortAfter
    <2> QED BY <1>0, <2>2, <2>4, <2>5, <2>6, <2>7
<1> QED BY <1>1, <1>2

\* What the second parser accepts: a text without a colon, or a host, the last
\* colon and a port.
LEMMA RestTaken ==
    ASSUME NEW S, NEW s \in Seq(S), NEW default, Text!ParseRest(s, default).ok
    PROVE  \/ /\ Text!ParseRest(s, default) = Text!Target(s, default)
              /\ \A i \in 1..Len(s) : s[i] # ":"
           \/ \E n \in 1..Len(s) : \E a, b \in 1..(n - 1) :
                 LET port == SubSeq(s, n + 1, Len(s))
                 IN  /\ s[n] = ":" /\ \A i \in 1..Len(s) : s[i] = ":" => i <= n
                     /\ Text!IsPort(port)
                     /\ Text!ParseRest(s, default).host = SubSeq(s, a, b)
                     /\ Text!ParseRest(s, default).port = Text!Number(Text!Unsigned(port))
                     /\ a <= b /\ ~Text!IsBracket(s[a]) /\ ~Text!IsBracket(s[b])
                     /\ \A k \in 1..(n - 1) : k < a \/ k > b => Text!IsBracket(s[k])
<1>1. PICK n : n = Text!SelectLastInSeq(s, LAMBDA c : c = ":")
    OBVIOUS
<1> DEFINE before == SubSeq(s, 1, n - 1)
           port == SubSeq(s, n + 1, Len(s))
           rest == Text!ParseRest(s, default)
<1>2. rest = IF n = 0 THEN (IF s = <<>> THEN Text!Refused ELSE Text!Target(s, default))
             ELSE Text!HostAndPort(Text!Trimmed(before), port)
    BY <1>1 DEF Text!ParseRest, Text!Before, Text!From
<1>3. rest.ok /\ ~Text!Refused.ok
    BY DEF Text!Refused
<1>4. \/ n = 0 /\ \A i \in 1..Len(s) : s[i] # ":"
      \/ n \in 1..Len(s) /\ s[n] = ":" /\ \A i \in 1..Len(s) : s[i] = ":" => i <= n
    BY <1>1, LastColon
<1>5. CASE n = 0
    <2>1. rest = Text!Target(s, default)
        BY <1>2, <1>3, <1>5
    <2>2. \A i \in 1..Len(s) : s[i] # ":"
        BY <1>4, <1>5
    <2> QED BY <2>1, <2>2
<1>6. CASE n # 0
    <2>1. n \in 1..Len(s) /\ s[n] = ":" /\ \A i \in 1..Len(s) : s[i] = ":" => i <= n
        BY <1>4, <1>6
    <2>2. /\ before \in Seq(S) /\ Len(before) = n - 1 /\ Len(s) \in Nat /\ n - 1 <= Len(s)
          /\ \A i \in 1..(n - 1) : before[i] = s[i]
        <3>1. n - 1 \in 0..Len(s) /\ (n - 1) - 1 + 1 = n - 1 /\ Len(s) \in Nat /\ n - 1 <= Len(s)
            BY <2>1
        <3>2. /\ before \in Seq(S) /\ Len(before) = (n - 1) - 1 + 1
              /\ \A i \in 1..((n - 1) - 1 + 1) : before[i] = s[1 + i - 1]
            BY <2>1, <3>1, Piece
        <3>3. \A i \in 1..(n - 1) : 1 + i - 1 = i
            BY <2>1
        <3> QED BY <3>1, <3>2, <3>3
    <2>3. rest = Text!HostAndPort(Text!Trimmed(before), port)
        BY <1>2, <1>6
    <2> HIDE DEF before, port, rest
    <2>4. /\ Text!Trimmed(before) # <<>> /\ Text!IsPort(port)
          /\ rest.host = Text!Trimmed(before) /\ rest.port = Text!Number(Text!Unsigned(port))
        BY <1>3, <2>3, AcceptedIs
    <2>5. PICK a, b \in 1..Len(before) :
              /\ a <= b /\ Text!Trimmed(before) = SubSeq(before, a, b)
              /\ ~Text!IsBracket(before[a]) /\ ~Text!IsBracket(before[b])
              /\ \A k \in 1..Len(before) : k < a \/ k > b => Text!IsBracket(before[k])
        BY <2>2, <2>4, TrimmedGives
    <2>6. SubSeq(before, a, b) = SubSeq(s, a, b)
        BY <2>2, <2>5, PieceOfPrefix
    <2>7. /\ a \in 1..(n - 1) /\ b \in 1..(n - 1) /\ a <= b /\ rest.host = SubSeq(s, a, b)
          /\ ~Text!IsBracket(s[a]) /\ ~Text!IsBracket(s[b])
          /\ \A k \in 1..(n - 1) : k < a \/ k > b => Text!IsBracket(s[k])
        BY <2>2, <2>4, <2>5, <2>6
    <2> QED BY <2>1, <2>4, <2>7 DEF port, rest
<1> QED BY <1>5, <1>6

\* All of it is host and port, but for brackets at the ends of the host.
LEMMA BracketsDropped ==
    ASSUME NEW S, text \in Seq(S)
    PROVE  Text!LenientIsWhole
<1>0. PICK s \in Seq(S) : s = text
    OBVIOUS
<1> DEFINE t == Text!ParseRest(s, Text!Default)
<1> SUFFICES ASSUME t.ok
             PROVE  \/ t = Text!Target(text, Text!Default) /\ ":" \notin Text!ToSet(text)
                    \/ \E i \in 1..Len(text) : \E a, b \in 1..(i - 1) :
                          /\ Text!PortAfter(i, t.port)
                          /\ a <= b /\ t.host = SubSeq(text, a, b)
                          /\ ~Text!IsBracket(text[a]) /\ ~Text!IsBracket(text[b])
                          /\ \A k \in (1..(a - 1)) \cup ((b + 1)..(i - 1)) : Text!IsBracket(text[k])
    BY <1>0 DEF Text!LenientIsWhole
<1>1. CASE t = Text!Target(s, Text!Default) /\ \A i \in 1..Len(s) : s[i] # ":"
    <2>1. ":" \notin Text!ToSet(s)
        BY <1>1 DEF Text!ToSet
    <2> QED BY <1>0, <1>1, <2>1
<1>2. ASSUME NEW n \in 1..Len(s), NEW a \in 1..(n - 1), NEW b \in 1..(n - 1),
             s[n] = ":", Text!IsPort(SubSeq(s, n + 1, Len(s))),
             t.host = SubSeq(s, a, b),
             t.port = Text!Number(Text!Unsigned(SubSeq(s, n + 1, Len(s)))),
             a <= b, ~Text!IsBracket(s[a]), ~Text!IsBracket(s[b]),
             \A k \in 1..(n - 1) : k < a \/ k > b => Text!IsBracket(s[k])
      PROVE  \E i \in 1..Len(text) : \E x, y \in 1..(i - 1) :
                          /\ Text!PortAfter(i, t.port)
                          /\ x <= y /\ t.host = SubSeq(text, x, y)
                          /\ ~Text!IsBracket(text[x]) /\ ~Text!IsBracket(text[y])
                          /\ \A k \in (1..(x - 1)) \cup ((y + 1)..(i - 1)) : Text!IsBracket(text[k])
    <2>1. Text!PortAfter(n, t.port)
        BY <1>0, <1>2 DEF Text!PortAfter, Text!From
    <2>2. ASSUME NEW k \in (1..(a - 1)) \cup ((b + 1)..(n - 1)) PROVE Text!IsBracket(s[k])
        <3>1. k \in 1..(n - 1) /\ (k < a \/ k > b)
            BY <1>2, <2>2
        <3> QED BY <1>2, <3>1
    <2> QED BY <1>0, <1>2, <2>1, <2>2
<1> HIDE DEF t
<1>3. \/ t = Text!Target(s, Text!Default) /\ \A i \in 1..Len(s) : s[i] # ":"
      \/ \E n \in 1..Len(s) : \E a, b \in 1..(n - 1) :
            /\ s[n] = ":" /\ Text!IsPort(SubSeq(s, n + 1, Len(s)))
            /\ t.host = SubSeq(s, a, b)
            /\ t.port = Text!Number(Text!Unsigned(SubSeq(s, n + 1, Len(s))))
            /\ a <= b /\ ~Text!IsBracket(s[a]) /\ ~Text!IsBracket(s[b])
            /\ \A k \in 1..(n - 1) : k < a \/ k > b => Text!IsBracket(s[k])
    BY RestTaken DEF t
<1> QED BY <1>1, <1>2, <1>3

\* One colon outside brackets is enough for the first parser, too.
LEMMA PlainTaken ==
    ASSUME NEW S, NEW s \in Seq(S), s[1] # "[", NEW n \in 2..Len(s), s[n] = ":",
           \A i \in 1..Len(s) : s[i] = ":" => i <= n,
           Text!IsPort(SubSeq(s, n + 1, Len(s))), ~Text!ParseHostPort(s).ok
    PROVE  \E i \in 1..(n - 1) : s[i] = ":"
<1> DEFINE host == SubSeq(s, 1, n - 1)
           port == SubSeq(s, n + 1, Len(s))
<1>1. PICK colon : colon = Text!SelectLastInSeq(s, LAMBDA c : c = ":")
    OBVIOUS
<1>2. Len(s) \in Nat /\ n \in Nat /\ n \in 1..Len(s)
    OBVIOUS
<1>3. colon = n
    <2>1. \/ colon = 0 /\ \A i \in 1..Len(s) : s[i] # ":"
          \/ /\ colon \in 1..Len(s) /\ s[colon] = ":"
             /\ \A i \in 1..Len(s) : s[i] = ":" => i <= colon
        BY <1>1, LastColon
    <2> QED BY <1>2, <2>1
<1>4. Text!ParseHostPort(s) = IF n = 0 \/ ":" \in Text!ToSet(host) THEN Text!Refused
                              ELSE Text!HostAndPort(host, port)
    BY <1>1, <1>3 DEF Text!ParseHostPort, Text!Plain, Text!From, Text!Before
<1>5. /\ host \in Seq(S) /\ Len(host) = n - 1 /\ \A i \in 1..(n - 1) : host[i] = s[i]
    <2>1. n - 1 \in 0..Len(s) /\ (n - 1) - 1 + 1 = n - 1
        BY <1>2
    <2>2. /\ host \in Seq(S) /\ Len(host) = (n - 1) - 1 + 1
          /\ \A i \in 1..((n - 1) - 1 + 1) : host[i] = s[1 + i - 1]
        BY <1>2, <2>1, Piece
    <2>3. \A i \in 1..(n - 1) : 1 + i - 1 = i
        BY <1>2
    <2> QED BY <2>1, <2>2, <2>3
<1> HIDE DEF host, port
<1>6. host # <<>> /\ Text!IsPort(port)
    BY <1>2, <1>5 DEF port
<1>7. Text!HostAndPort(host, port).ok
    BY <1>6 DEF Text!HostAndPort, Text!Target
<1>8. ":" \in Text!ToSet(host)
    BY <1>2, <1>4, <1>7
<1>9. PICK i \in DOMAIN host : host[i] = ":"
    BY <1>8 DEF Text!ToSet
<1> QED BY <1>5, <1>9

\* And so is a pair of brackets around a host without any.
LEMMA BracketedTaken ==
    ASSUME NEW S, NEW s \in Seq(S), s[1] = "[", NEW i \in 4..Len(s), s[i - 1] = "]", s[i] = ":",
           Text!IsPort(SubSeq(s, i + 1, Len(s))), Text!Unbracketed(SubSeq(s, 2, i - 2))
    PROVE  Text!ParseHostPort(s).ok
<1> DEFINE host == SubSeq(s, 2, i - 2)
           port == SubSeq(s, i + 1, Len(s))
<1>1. Len(s) \in Nat /\ i \in Nat /\ i - 1 \in 1..Len(s) /\ s # <<>>
    OBVIOUS
<1>2. /\ host \in Seq(S) /\ Len(host) = i - 3
      /\ \A k \in 1..(i - 3) : host[k] = s[k + 1]
    <2>1. i - 2 \in 0..Len(s) /\ 2 <= (i - 2) + 1 /\ (i - 2) - 2 + 1 = i - 3
        BY <1>1
    <2>2. /\ host \in Seq(S) /\ Len(host) = (i - 2) - 2 + 1
          /\ \A k \in 1..((i - 2) - 2 + 1) : host[k] = s[2 + k - 1]
        BY <1>1, <2>1, Piece
    <2>3. \A k \in 1..(i - 3) : 2 + k - 1 = k + 1
        BY <1>1
    <2> QED BY <2>1, <2>2, <2>3
<1>3. ASSUME NEW k \in 1..((i - 1) - 1) PROVE s[k] # "]"
    <2>1. CASE k = 1
        BY <2>1
    <2>2. CASE k # 1
        <3>1. k - 1 \in 1..(i - 3) /\ (k - 1) + 1 = k
            BY <1>1, <2>2
        <3>2. k - 1 \in DOMAIN host /\ host[k - 1] = s[k]
            BY <1>2, <3>1
        <3>3. ~Text!IsBracket(s[k])
            BY <3>2 DEF Text!Unbracketed
        <3> QED BY <3>3 DEF Text!IsBracket
    <2> QED BY <2>1, <2>2
<1>4. Text!SelectInSeq(s, LAMBDA c : c = "]") = i - 1
    BY <1>1, <1>3, FirstCloseIs
<1>5. PICK close : close = Text!SelectInSeq(s, LAMBDA c : c = "]")
    OBVIOUS
<1>6. close = i - 1 /\ close + 1 = i /\ close # 0 /\ close # Len(s) /\ s[close + 1] = ":"
    BY <1>1, <1>4, <1>5
<1>7. close - 1 = i - 2 /\ close + 2 = i + 1
    BY <1>1, <1>6
<1>8. Text!ParseHostPort(s) =
          IF close = 0 \/ close = Len(s) \/ s[close + 1] # ":" THEN Text!Refused
          ELSE Text!HostAndPort(SubSeq(s, 2, close - 1), SubSeq(s, close + 2, Len(s)))
    BY <1>1, <1>5 DEF Text!ParseHostPort, Text!Bracketed, Text!From
<1>9. Text!ParseHostPort(s) = Text!HostAndPort(host, port)
    BY <1>6, <1>7, <1>8
<1>10. host # <<>>
    BY <1>1, <1>2
<1> QED BY <1>9, <1>10 DEF Text!HostAndPort, Text!Target

\* Where only the second parser takes a text, it is one of three kinds.
LEMMA OnlyTheOther ==
    ASSUME NEW S, text \in Seq(S), NEW default, Text!ParseRest(text, default).ok,
           ~Text!ParseHostPort(text).ok
    PROVE  LET t == Text!ParseRest(text, default)
           IN \/ ":" \notin Text!ToSet(text)
              \/ text[1] # "[" /\ ":" \in Text!ToSet(t.host)
              \/ text[1] = "[" /\ ~\E i \in 2..Len(text) :
                                     /\ text[i - 1] = "]" /\ Text!PortAfter(i, t.port)
                                     /\ Text!Unbracketed(SubSeq(text, 2, i - 2))
<1>0. PICK s \in Seq(S) : s = text
    OBVIOUS
<1> DEFINE t == Text!ParseRest(s, default)
<1>1. CASE \A i \in 1..Len(s) : s[i] # ":"
    <2>1. ":" \notin Text!ToSet(s)
        BY <1>1 DEF Text!ToSet
    <2> QED BY <1>0, <2>1
<1>2. ASSUME NEW n \in 1..Len(s), NEW a \in 1..(n - 1), NEW b \in 1..(n - 1),
             s[n] = ":", \A i \in 1..Len(s) : s[i] = ":" => i <= n,
             Text!IsPort(SubSeq(s, n + 1, Len(s))), t.host = SubSeq(s, a, b),
             a <= b, ~Text!IsBracket(s[a]), ~Text!IsBracket(s[b]),
             \A k \in 1..(n - 1) : k < a \/ k > b => Text!IsBracket(s[k])
      PROVE  \/ s[1] # "[" /\ ":" \in Text!ToSet(t.host)
             \/ s[1] = "[" /\ ~\E i \in 2..Len(s) :
                                  /\ s[i - 1] = "]" /\ s[i] = ":"
                                  /\ Text!IsPort(SubSeq(s, i + 1, Len(s)))
                                  /\ Text!Unbracketed(SubSeq(s, 2, i - 2))
    <2>1. Len(s) \in Nat /\ n \in Nat /\ n \in 2..Len(s) /\ a \in Nat \ {0} /\ b \in 0..Len(s)
        BY <1>2
    <2> HIDE DEF t
    <2>2. CASE s[1] # "["
        <3>1. PICK i \in 1..(n - 1) : s[i] = ":"
            BY <1>0, <1>2, <2>1, <2>2, PlainTaken
        <3>2. ~Text!IsBracket(s[i])
            BY <3>1 DEF Text!IsBracket
        <3>3. i - a + 1 \in 1..(b - a + 1) /\ a + (i - a + 1) - 1 = i
            BY <1>2, <2>1, <3>2
        <3>4. /\ SubSeq(s, a, b) \in Seq(S) /\ Len(SubSeq(s, a, b)) = b - a + 1
              /\ \A k \in 1..(b - a + 1) : SubSeq(s, a, b)[k] = s[a + k - 1]
            BY <1>2, <2>1, Piece
        <3>5. i - a + 1 \in DOMAIN SubSeq(s, a, b) /\ SubSeq(s, a, b)[i - a + 1] = ":"
            BY <3>1, <3>3, <3>4
        <3>6. ":" \in Text!ToSet(SubSeq(s, a, b))
            BY <3>5 DEF Text!ToSet
        <3> QED BY <1>2, <2>2, <3>6
    <2>3. CASE s[1] = "["
        <3>1. ASSUME NEW i \in 2..Len(s), s[i - 1] = "]", s[i] = ":",
                     Text!IsPort(SubSeq(s, i + 1, Len(s))), Text!Unbracketed(SubSeq(s, 2, i - 2))
              PROVE  FALSE
            <4>1. i # 2
                BY <2>3, <3>1
            <4>2. i # 3
                <5>1. /\ SubSeq(s, i + 1, Len(s)) \in Seq(S)
                      /\ Len(SubSeq(s, i + 1, Len(s))) = Len(s) - (i + 1) + 1
                      /\ \A k \in 1..(Len(s) - (i + 1) + 1) :
                            SubSeq(s, i + 1, Len(s))[k] = s[(i + 1) + k - 1]
                    BY <2>1, Piece
                <5>2. \A k \in 1..(Len(s) - (i + 1) + 1) : s[(i + 1) + k - 1] # ":"
                    BY <3>1, <5>1, PortHasNoColon
                <5>3. n = i
                    <6>1. ASSUME n > i PROVE FALSE
                        <7>1. n - i \in 1..(Len(s) - (i + 1) + 1) /\ (i + 1) + (n - i) - 1 = n
                            BY <2>1, <6>1
                        <7> QED BY <1>2, <5>2, <7>1
                    <6>2. i <= n
                        BY <1>2, <2>1, <3>1
                    <6> QED BY <2>1, <6>1, <6>2
                <5>4. ASSUME i = 3 PROVE FALSE
                    <6>1. a = 1 \/ a = 2
                        BY <1>2, <2>1, <5>3, <5>4
                    <6>2. Text!IsBracket(s[1]) /\ Text!IsBracket(s[2])
                        BY <2>3, <3>1, <5>4 DEF Text!IsBracket
                    <6> QED BY <1>2, <6>1, <6>2
                <5> QED BY <5>4
            <4>3. i \in 4..Len(s)
                BY <2>1, <4>1, <4>2
            <4> QED BY <1>0, <2>3, <3>1, <4>3, BracketedTaken
        <3> QED BY <2>3, <3>1
    <2> QED BY <2>2, <2>3
<1>3. ASSUME NEW i \in 2..Len(s), Text!PortAfter(i, t.port)
      PROVE  s[i] = ":" /\ Text!IsPort(SubSeq(s, i + 1, Len(s)))
    BY <1>0, <1>3 DEF Text!PortAfter, Text!From
<1> HIDE DEF t
<1>4. \/ \A i \in 1..Len(s) : s[i] # ":"
      \/ \E n \in 1..Len(s) : \E a, b \in 1..(n - 1) :
            /\ s[n] = ":" /\ \A i \in 1..Len(s) : s[i] = ":" => i <= n
            /\ Text!IsPort(SubSeq(s, n + 1, Len(s))) /\ t.host = SubSeq(s, a, b)
            /\ a <= b /\ ~Text!IsBracket(s[a]) /\ ~Text!IsBracket(s[b])
            /\ \A k \in 1..(n - 1) : k < a \/ k > b => Text!IsBracket(s[k])
    BY <1>0, RestTaken DEF t
<1>5. CASE ~\A i \in 1..Len(s) : s[i] # ":"
    <2>1. \/ s[1] # "[" /\ ":" \in Text!ToSet(t.host)
          \/ s[1] = "[" /\ ~\E i \in 2..Len(s) :
                               /\ s[i - 1] = "]" /\ s[i] = ":"
                               /\ Text!IsPort(SubSeq(s, i + 1, Len(s)))
                               /\ Text!Unbracketed(SubSeq(s, 2, i - 2))
        BY <1>2, <1>4, <1>5
    <2> QED BY <1>0, <1>3, <2>1 DEF t
<1> QED BY <1>1, <1>5

LEMMA TextMeans ==
    ASSUME text \in Seq(Text!Chars)
    PROVE  Text!ParsersAgree /\ Text!StrictIsWhole /\ Text!LenientIsWhole
<1>1. Text!ParsersAgree
    BY AgreeInBrackets, AgreeWithout, OnlyTheOther DEF Text!ParsersAgree
<1>2. Text!StrictIsWhole
    <2>1. {"[", "]"} \subseteq Text!Chars
        BY DEF Text!Chars
    <2> QED BY <2>1, NothingDropped DEF Text!StrictIsWhole
<1>3. Text!LenientIsWhole
    BY BracketsDropped
<1> QED BY <1>1, <1>2, <1>3

-----------------------------------------------------------------------------
(* The parts of main together *)

MainInv ==
    /\ part \in Parts
    /\ IInv
    /\ part = "command" => LineInv /\ KindInv
    /\ part = "target" => text \in Seq(Text!Chars)
    /\ part = "serve" => ServeInv

\* Before an empty command nothing has been looked at.
LEMMA NoProbeIsInit == NoProbe => Init
<1> SUFFICES ASSUME NoProbe PROVE Init
    OBVIOUS
<1>1. <<>> \in FullTargets
    <2>1. \A k : Given(k, {}, {}) = <<>>
        BY DEF Given
    <2>2. <<>> = Given("signaling", {}, {}) \o Given("stun", {}, {})
                    \o Given("turn", {}, {}) \o Given("turns", {}, {})
        BY <2>1
    <2>3. {} \in SUBSET FullKinds
        OBVIOUS
    <2> QED BY <2>2, <2>3 DEF FullTargets
<1> QED BY <1>1 DEF NoProbe, Init

LEMMA InitMain == MainInit => MainInv
<1> SUFFICES ASSUME MainInit PROVE MainInv
    OBVIOUS
<1>1. part \in Parts /\ (Init \/ NoProbe)
    BY DEF MainInit
<1>2. IInv
    BY <1>1, NoProbeIsInit, InitIInv
<1>3. /\ part = "command" => Line!Init
      /\ part = "target" => Text!Init
      /\ part = "serve" => Serve!Init
    BY DEF MainInit
<1>4. part = "target" => text \in Seq(Text!Chars)
    BY <1>3 DEF Text!Init
<1> QED BY <1>1, <1>2, <1>3, <1>4, InitLine, InitKind, InitServe DEF MainInv

LEMMA TextKeeps ==
    ASSUME text \in Seq(Text!Chars), Text!Next \/ UNCHANGED text
    PROVE  text' \in Seq(Text!Chars)
<1>1. CASE Text!Type
    BY <1>1 DEF Text!Type
<1>2. CASE UNCHANGED text
    BY <1>2
<1> QED BY <1>1, <1>2 DEF Text!Next, Text!Entered

\* Each part steps by itself.
LEMMA NextMain == MainInv /\ [MainNext]_mainVars => MainInv'
<1> SUFFICES ASSUME MainInv, [MainNext]_mainVars PROVE MainInv'
    OBVIOUS
<1>1. /\ part' = part
      /\ [Next]_vars
      /\ part = "command" => Line!Next \/ UNCHANGED lineVars
      /\ part = "target" => Text!Next \/ UNCHANGED text
      /\ part = "serve" => Serve!Next \/ UNCHANGED serveVars
    <2>1. CASE UNCHANGED mainVars
        BY <2>1 DEF mainVars
    <2>2. CASE MainNext
        BY <2>2 DEF MainNext
    <2> QED BY <2>1, <2>2
<1>2. IInv'
    BY <1>1, NextIInv DEF MainInv
<1>3. part = "command" => LineInv' /\ KindInv'
    BY <1>1, NextLine, NextKind DEF MainInv
<1>4. part = "target" => text' \in Seq(Text!Chars)
    BY <1>1, TextKeeps DEF MainInv
<1>5. part = "serve" => ServeInv'
    BY <1>1, NextServe DEF MainInv
<1>6. Text!Chars' = Text!Chars
    BY DEF Text!Chars
<1> QED BY <1>1, <1>2, <1>3, <1>4, <1>5, <1>6 DEF MainInv

LEMMA MainInvHolds == MainSpec => []MainInv
BY InitMain, NextMain, PTL DEF MainSpec

-----------------------------------------------------------------------------
(* Theorems *)

\* The invocation with its pipeline, context, report and verdicts, the command
\* line and the accept loop are well typed (main.rs, dtls.rs serve_forever).
THEOREM TypeCorrect == MainSpec => []MainTypeOK
<1>1. IInv => TypeOK
    BY DEF IInv, CommandInv, ContextInv, TypeOK, P!TypeOK, PP!IInv, PP!TypeOK,
           P!CheckResult, PP!CheckResult, P!CheckStatus, PP!CheckStatus
<1>2. MainInv => MainTypeOK
    BY <1>1 DEF MainInv, MainTypeOK, LineInv, ServeInv
<1> QED BY <1>2, MainInvHolds, PTL

\* What a context holds was learned for this target, from the very check that
\* passed in its pipeline, whatever came of the targets before (check.rs:12-39,
\* main.rs:485-543).
THEOREM ContextIsThisTargetsHolds == MainSpec => []ContextIsThisTargets
<1>1. IInv => ContextIsThisTargets
    BY DEF IInv, ContextInv, Learned, ContextIsThisTargets
<1> QED BY <1>1, MainInvHolds, PTL DEF MainInv

\* No check that is run lacks what it reads from the context, and no warning
\* comes without its cause, in any pipeline main.rs builds.
THEOREM OutcomesExplainedHolds == MainSpec => []OutcomesExplained
<1>1. IInv => OutcomesExplained
    BY DEF IInv, ContextInv, OutcomesExplained
<1> QED BY <1>1, MainInvHolds, PTL DEF MainInv

\* The pipelines of main.rs are ones the theorems on the runner speak of: a
\* skip has its cause in the report above it, and exit code 0 hides nothing but
\* a check's own skip (main.rs:226-389, pipeline.rs:117-152).
THEOREM ShippedPipelinesAreReadableHolds == MainSpec => []ShippedPipelinesAreReadable
<1>1. IInv => P!WellOrdered
    <2> SUFFICES ASSUME IInv PROVE P!WellOrdered
        OBVIOUS
    <2>1. CASE \E k \in Kinds : TargetInv(k)
        <3>1. PICK k \in Kinds : checks = Pipelines[k]
            BY <2>1 DEF TargetInv
        <3>2. DOMAIN checks = 1..Len(Pipelines[k])
            BY <3>1, Places
        <3> QED BY <3>1, <3>2, Places DEF P!WellOrdered
    <2>2. CASE checks = <<>>
        BY <2>2 DEF P!WellOrdered
    <2> QED BY <2>1, <2>2 DEF IInv, ContextInv
<1>2. IInv => P!RootCause /\ P!HealthyHidesOnlyOwnSkips
    BY RequiresIsTyped, PP!HealthyHidesLittle
       DEF IInv, PP!IInv, P!RootCause, PP!RootCause, P!WellOrdered, PP!WellOrdered,
           P!Prerequisites, PP!Prerequisites, P!ClosedUnderRequires, PP!ClosedUnderRequires,
           P!HealthyHidesOnlyOwnSkips, PP!HealthyHidesOnlyOwnSkips, P!Finished, PP!Finished,
           P!ExitCode, PP!ExitCode, P!Verdict, PP!Verdict, P!HasStatus, PP!HasStatus
<1>3. IInv => ShippedPipelinesAreReadable
    BY <1>1, <1>2 DEF ShippedPipelinesAreReadable
<1> QED BY <1>3, MainInvHolds, PTL DEF MainInv

\* The one report of several targets has every check of every target in its
\* place, and its verdict is the worst of theirs (main.rs:499-546,
\* pipeline.rs:63-77).
THEOREM ReportSpeaksForAllHolds == MainSpec => []ReportSpeaksForAll
<1>1. IInv => WorstOfTargets
    <2> SUFFICES ASSUME IInv, pc = "reported"
                 PROVE  /\ \E i \in DOMAIN verdicts : verdicts[i] = P!Verdict(report)
                        /\ \A i \in DOMAIN verdicts :
                              P!Severity(verdicts[i]) <= P!Severity(P!Verdict(report))
        BY DEF WorstOfTargets
    <2>1. /\ \A i \in DOMAIN verdicts : verdicts[i] \in {"healthy", "warnings", "failed"}
          /\ 1 \in DOMAIN verdicts
        BY DEF IInv, CommandInv, VerdictInv
    <2>2. /\ P!HasStatus(report, "fail") <=> \E i \in DOMAIN verdicts : verdicts[i] = "failed"
          /\ P!HasStatus(report, "fail") \/ P!HasStatus(report, "warn")
                <=> \E i \in DOMAIN verdicts : verdicts[i] # "healthy"
        BY DEF IInv, VerdictInv
    <2>3. /\ P!Severity("healthy") = 0 /\ P!Severity("warnings") = 1
          /\ P!Severity("failed") = 2
        BY DEF P!Severity
    <2>4. CASE P!Verdict(report) = "failed"
        BY <2>1, <2>2, <2>3, <2>4 DEF P!Verdict
    <2>5. CASE P!Verdict(report) = "warnings"
        BY <2>1, <2>2, <2>3, <2>5 DEF P!Verdict
    <2>6. CASE P!Verdict(report) = "healthy"
        BY <2>1, <2>2, <2>3, <2>6 DEF P!Verdict
    <2> QED BY <2>4, <2>5, <2>6 DEF P!Verdict
<1>2. IInv => ReportIsComplete
    <2> SUFFICES ASSUME IInv, pc = "reported" PROVE ReportIsComplete
        BY DEF ReportIsComplete
    <2>1. Len(verdicts) = Len(command.targets) /\ Len(command.targets) \in Nat
        BY DEF IInv, CommandInv, VerdictInv, Command
    <2>2. DOMAIN command.targets = 1..Len(command.targets)
        BY DEF IInv, CommandInv, Command
    <2> QED BY <2>1, <2>2 DEF IInv, ReportInv, ReportIsComplete
<1>3. IInv => ReportSpeaksForAll
    BY <1>1, <1>2 DEF ReportSpeaksForAll
<1> QED BY <1>3, MainInvHolds, PTL DEF MainInv

\* Every secret is its flag's value or the line of stdin its place in the order
\* says, no line is read but for one, and the pipeline is that of the subcommand
\* and its scheme (main.rs:215-420, resolve_secret).  For texts of any length:
\* what parse_host_port takes, parse_stun_like takes for the same target, unless
\* brackets are part of the host; what only the latter takes has no port, a colon
\* in a host without brackets, or brackets that are no pair around the host; the
\* former drops nothing, the latter brackets at the ends of the host (main.rs:589,
\* target.rs:34-56).
THEOREM RunIsAsAskedHolds == MainSpec => []RunIsAsAsked
<1>1. MainInv => RunIsAsAsked
    BY LineMeans, TextMeans DEF MainInv, RunIsAsAsked
<1> QED BY <1>1, MainInvHolds, PTL

\* on_accept is called for each handshake that succeeded, once, and for no other
\* (dtls.rs, serve_forever).
THEOREM AnnouncedOnceHolds == MainSpec => []AnnouncedOnce
<1>1. MainInv => AnnouncedOnce
    BY DEF MainInv, ServeInv, AnnouncedOnce
<1> QED BY <1>1, MainInvHolds, PTL
=============================================================================
