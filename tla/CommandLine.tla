------------------------------ MODULE CommandLine ------------------------------
(***************************************************************************)
(* What main (webrtc-doctor/src/main.rs) does before it probes: look at    *)
(* the target, resolve the secrets, choose the pipeline.  A secret is a    *)
(* flag's value or one line of stdin, and all of them share one stdin,     *)
(* with one buffer, that somebody else writes line by line and may keep    *)
(* open.                                                                   *)
(***************************************************************************)
EXTENDS Integers, Sequences, FiniteSets

CONSTANT MaxLines    \* bound: lines written to stdin

Names == {"stun", "turn", "turns", "signaling", "ice", "dtls", "loopback", "serve", "full"}
Secrets == {"user", "pass", "auth"}
Schemes == {"stun", "turn", "turns", "ws", "other"}

VARIABLES command,  \* the subcommand, its target, the source of each secret
          pc,       \* "target", "secrets", "probing", "serving", "failed"
          kind,     \* the pipeline chosen
          asked,    \* secrets still to be resolved, in order
          given,    \* the secrets resolved
          read,     \* lines taken from stdin
          lines,    \* history: the lines written to it
          closed    \* the writer has closed it

vars == <<command, pc, kind, asked, given, read, lines, closed>>

\* Values of a secret; line n of stdin is n.
NoSecret == 0
FromFlag == -1

\* The flags a subcommand has.
SecretsOf(name) ==
    CASE name \in {"turn", "turns", "ice"} -> {"user", "pass"}
      [] name = "signaling" -> {"auth"}
      [] name = "full" -> Secrets
      [] OTHER -> {}

\* A URL's scheme in lower case or not, and whether the rest of it (for the
\* others: the target, the address to bind, one URL at all) is well-formed.
Command ==
    [name : Names, scheme : Schemes, lower : BOOLEAN, valid : BOOLEAN,
     source : [Secrets -> {"none", "flag", "stdin"}]]

Init ==
    /\ command \in Command
    /\ \A s \in Secrets \ SecretsOf(command.name) : command.source[s] = "none"
    /\ command.name \in {"dtls", "loopback", "serve", "full"} =>
          command.scheme = "other" /\ command.lower
    /\ command.name = "loopback" => command.valid
    /\ pc = "target" /\ kind = "none"
    /\ asked = <<>> /\ given = [s \in Secrets |-> NoSecret]
    /\ read = 0 /\ lines = <<>> /\ closed = FALSE

-----------------------------------------------------------------------------
(* main *)

\* parse_stun_like lowers the scheme before it compares it with those the
\* subcommand allows; a WebSocket URL has to be in lower case.
\* Mutant: `turn` lets a stun: URL through.
SchemeAllowedLoose ==
    CASE command.name \in {"stun", "turns"} -> command.scheme = command.name
      [] command.name \in {"turn", "ice"} -> command.scheme \in {"stun", "turn"}
      [] command.name = "signaling" -> command.scheme = "ws" /\ command.lower
      [] OTHER -> TRUE

SchemeAllowed ==
    CASE command.name \in {"stun", "turn", "turns"} -> command.scheme = command.name
      [] command.name = "ice" -> command.scheme \in {"stun", "turn"}
      [] command.name = "signaling" -> command.scheme = "ws" /\ command.lower
      [] OTHER -> TRUE

\* `ice`: url.starts_with("turn:").
IsTurn == command.scheme = "turn" /\ command.lower

Supplied == {s \in Secrets : command.source[s] # "none"}

\* `ice` refuses credentials it has no use for.
Accepted ==
    /\ command.valid /\ SchemeAllowed
    /\ command.name = "ice" /\ ~IsTurn => Supplied = {}

\* Mutant: `ice` goes by the credentials, not by the scheme.
KindOfCredentials ==
    IF command.name = "ice" THEN (IF Supplied # {} THEN "iceTurn" ELSE "iceStun")
    ELSE command.name

Kind ==
    IF command.name = "ice" THEN (IF IsTurn THEN "iceTurn" ELSE "iceStun") ELSE command.name

\* The secrets of a subcommand, once each.
\* Mutant: `full` resolves the credentials of each of its servers.
SecretOrderPerTarget ==
    CASE Kind \in {"turn", "turns", "iceTurn"} -> <<"user", "pass">>
      [] Kind = "signaling" -> <<"auth">>
      [] Kind = "full" -> <<"user", "pass", "user", "pass", "auth">>
      [] OTHER -> <<>>

SecretOrder ==
    CASE Kind \in {"turn", "turns", "iceTurn"} -> <<"user", "pass">>
      [] Kind = "signaling" -> <<"auth">>
      [] Kind = "full" -> <<"user", "pass", "auth">>
      [] OTHER -> <<>>

Parse ==
    /\ pc = "target" /\ Accepted
    /\ pc' = "secrets" /\ kind' = Kind /\ asked' = SecretOrder
    /\ UNCHANGED <<command, given, read, lines, closed>>

Refuse ==
    /\ pc = "target" /\ ~Accepted
    /\ pc' = "failed"
    /\ UNCHANGED <<command, kind, asked, given, read, lines, closed>>

\* resolve_secret with a flag's value, or with nothing.
TakeFlag ==
    /\ pc = "secrets" /\ asked # <<>> /\ command.source[Head(asked)] # "stdin"
    /\ given' = [given EXCEPT ![Head(asked)] =
                    IF command.source[Head(asked)] = "flag" THEN FromFlag ELSE NoSecret]
    /\ asked' = Tail(asked)
    /\ UNCHANGED <<command, pc, kind, read, lines, closed>>

Reading == pc = "secrets" /\ asked # <<>> /\ command.source[Head(asked)] = "stdin"

\* read_line_from_stdin: the next line of the shared buffer.
\* Mutant: a buffer of its own, which takes all there is.
ReadLineBuffered ==
    /\ Reading /\ read < Len(lines) /\ lines[read + 1] = "text"
    /\ given' = [given EXCEPT ![Head(asked)] = read + 1]
    /\ read' = Len(lines)
    /\ asked' = Tail(asked)
    /\ UNCHANGED <<command, pc, kind, lines, closed>>

ReadLine ==
    /\ Reading /\ read < Len(lines) /\ lines[read + 1] = "text"
    /\ given' = [given EXCEPT ![Head(asked)] = read + 1]
    /\ read' = read + 1
    /\ asked' = Tail(asked)
    /\ UNCHANGED <<command, pc, kind, lines, closed>>

\* Nothing but the end of the line, or no text at all.
BadLine ==
    /\ Reading /\ read < Len(lines) /\ lines[read + 1] # "text"
    /\ pc' = "failed"
    /\ UNCHANGED <<command, kind, asked, given, read, lines, closed>>

EndOfInput ==
    /\ Reading /\ read = Len(lines) /\ closed
    /\ pc' = "failed"
    /\ UNCHANGED <<command, kind, asked, given, read, lines, closed>>

\* Mutant: secrets are left to those who need them.
ProbeAtOnce ==
    /\ pc = "secrets"
    /\ pc' = IF kind = "serve" THEN "serving" ELSE "probing"
    /\ UNCHANGED <<command, kind, asked, given, read, lines, closed>>

Probe ==
    /\ pc = "secrets" /\ asked = <<>>
    /\ pc' = IF kind = "serve" THEN "serving" ELSE "probing"
    /\ UNCHANGED <<command, kind, asked, given, read, lines, closed>>

Progress == Parse \/ Refuse \/ TakeFlag \/ ReadLine \/ BadLine \/ EndOfInput \/ Probe

-----------------------------------------------------------------------------
(* Whoever writes to stdin *)

WriteLine ==
    /\ ~closed /\ Len(lines) < MaxLines
    /\ \E line \in {"text", "empty", "garbled"} : lines' = Append(lines, line)
    /\ UNCHANGED <<command, pc, kind, asked, given, read, closed>>

\* With a last line that has no end, or without.
Close ==
    /\ ~closed
    /\ closed' = TRUE
    /\ lines' = lines \/ (Len(lines) < MaxLines /\ lines' = Append(lines, "text"))
    /\ UNCHANGED <<command, pc, kind, asked, given, read>>

Started == pc \in {"probing", "serving"}
Done == (Started \/ pc = "failed") /\ UNCHANGED vars

Next == Progress \/ WriteLine \/ Close \/ Done

Spec == Init /\ [][Next]_vars

\* The process runs; the writer owes nothing.
FairSpec == Spec /\ WF_vars(Progress)

-----------------------------------------------------------------------------
(* Properties *)

TypeOK ==
    /\ command \in Command
    /\ pc \in {"target", "secrets", "probing", "serving", "failed"}
    /\ given \in [Secrets -> FromFlag..MaxLines]
    /\ lines \in Seq({"text", "empty", "garbled"})
    /\ read \in 0..Len(lines)
    /\ Started => asked = <<>>

FromStdin == {s \in Secrets : command.source[s] = "stdin"}
Rank == [user |-> 1, pass |-> 2, auth |-> 3]

(* "stdin order is username first, then password", and the authorization   *)
(* after both: each secret is its flag's value, or the line its place in   *)
(* that order says, with no line read but for it.                          *)
EachItsOwn ==
    Started =>
        /\ read = Cardinality(FromStdin)
        /\ \A s \in Secrets :
              given[s] = CASE command.source[s] = "none" -> NoSecret
                           [] command.source[s] = "flag" -> FromFlag
                           [] OTHER -> Cardinality({r \in FromStdin : Rank[r] <= Rank[s]})

\* The pipeline that subcommand and scheme ask for, in capitals or not.
Wanted ==
    IF command.name = "ice" THEN (IF command.scheme = "turn" THEN "iceTurn" ELSE "iceStun")
    ELSE command.name

(* "Otherwise users who paste e.g. a `stun:` URI into the `turn`           *)
(* subcommand get a silently-degenerate run": the scheme is the            *)
(* subcommand's, the pipeline is the one they ask for, and credentials go  *)
(* to a pipeline with a TURN server.  Left out is the one combination that *)
(* goes wrong, `ice` with TURN: (CapitalsDoNotMatter).                     *)
RunOfItsScheme ==
    Started =>
        /\ command.name \in {"stun", "turn", "turns"} => command.scheme = command.name
        /\ command.name # "ice" \/ command.lower => kind = Wanted
        /\ command.name \in {"stun", "turn", "turns", "ice"} /\ Supplied # {} =>
               kind \in {"turn", "turns", "iceTurn"}

(* Letting each consumer read on demand "would deadlock the second one":   *)
(* as many lines as there are secrets to read are enough, also from a      *)
(* writer that keeps stdin open.                                           *)
EnoughLines ==
    /\ Len(lines) >= Cardinality(FromStdin)
    /\ \A n \in 1..Cardinality(FromStdin) : lines[n] = "text"
LinesSuffice == Accepted /\ EnoughLines ~> Started

(* "scheme_match_is_case_insensitive ... should still parse" (target.rs:   *)
(* 100): capitals do not change what is run.  `ice` looks at the scheme a  *)
(* second time, and takes TURN: for stun:.                                 *)
CapitalsDoNotMatter ==
    Started /\ command.name = "ice" => (kind = "iceTurn") = (command.scheme = "turn")
=============================================================================
