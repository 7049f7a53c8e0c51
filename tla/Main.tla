--------------------------------- MODULE Main ---------------------------------
(***************************************************************************)
(* The binary, webrtc-doctor/src/main.rs, one part of it in each           *)
(* behaviour: the invocation and its report (Probe, extended here), what   *)
(* happens before the first probe (CommandLine), the parsing of a target,  *)
(* and `dtls --serve`.  Parts that do not run keep their variables; the    *)
(* invocation, whose properties are stated without a guard, then stands    *)
(* before an empty command.                                                *)
(***************************************************************************)
EXTENDS Probe

CONSTANTS Parts,     \* the parts to be looked at
          MaxLines,                          \* of CommandLine
          Letters, Digit, MaxU16, MaxText,   \* of Targets
          Clients                            \* of DtlsServe

VARIABLES part,     \* "probe", "command", "target", "serve"
          order, phase, kind, asked, secrets, read, lines, closed,
          text,
          server, peer, backlog, client, announced, succeeded, closing

Line == INSTANCE CommandLine WITH command <- order, pc <- phase, given <- secrets
Text == INSTANCE Targets
Serve == INSTANCE DtlsServe

\* Lines are counted, a colon is no digit, and nobody is not a client.
ASSUME MaxLinesAssumption == MaxLines \in Nat
ASSUME DigitAssumption == ":" \notin DOMAIN Digit
ASSUME NoPeerAssumption == Serve!NoPeer \notin Clients

lineVars == <<order, phase, kind, asked, secrets, read, lines, closed>>
serveVars == <<server, peer, backlog, client, announced, succeeded, closing>>
mainVars == <<part, vars, lineVars, text, serveVars>>

Unused == "unused"

NoProbe ==
    /\ command = [full |-> TRUE, targets |-> <<>>, user |-> FALSE, pass |-> FALSE]
    /\ step = 0 /\ pc = "parsing" /\ P!Init
    /\ ctx = NewContext(FALSE, FALSE, FALSE, FALSE)
    /\ report = <<>> /\ verdicts = <<>>
NoLine ==
    /\ order = Unused /\ phase = Unused /\ kind = Unused /\ asked = Unused
    /\ secrets = Unused /\ read = Unused /\ lines = Unused /\ closed = Unused
NoServe ==
    /\ server = Unused /\ peer = Unused /\ backlog = Unused /\ client = Unused
    /\ announced = Unused /\ succeeded = Unused /\ closing = Unused

MainInit ==
    /\ part \in Parts
    /\ \/ part = "probe" /\ Init /\ NoLine /\ text = Unused /\ NoServe
       \/ part = "command" /\ Line!Init /\ NoProbe /\ text = Unused /\ NoServe
       \/ part = "target" /\ Text!Init /\ NoProbe /\ NoLine /\ NoServe
       \/ part = "serve" /\ Serve!Init /\ NoProbe /\ NoLine /\ text = Unused

MainNext ==
    /\ UNCHANGED part
    /\ \/ part = "probe" /\ Next /\ UNCHANGED <<lineVars, text, serveVars>>
       \/ part = "command" /\ Line!Next /\ UNCHANGED <<vars, text, serveVars>>
       \/ part = "target" /\ Text!Next /\ UNCHANGED <<vars, lineVars, serveVars>>
       \/ part = "serve" /\ Serve!Next /\ UNCHANGED <<vars, lineVars, text>>

\* The process runs.  The writer of stdin, the clients of --serve and the
\* handshakes with them owe nothing.
MainSpec ==
    /\ MainInit /\ [][MainNext]_mainVars
    /\ WF_lineVars(part = "command" /\ Line!Progress)
    /\ WF_serveVars(part = "serve" /\ Serve!Scheduled)

-----------------------------------------------------------------------------
(* Properties, with those of Probe *)

MainTypeOK ==
    /\ TypeOK
    /\ part = "command" => Line!TypeOK
    /\ part = "serve" => Serve!TypeOK

(* A run is the one that was asked for.  Each secret is its flag's value   *)
(* or the line of stdin its place in the order says, with no line read but *)
(* for it.  The pipeline is the subcommand's and, for `ice`, the scheme's, *)
(* capitals left aside; credentials go to a TURN server only.  The target  *)
(* is the one given: either parser returns all of what it accepts, brackets*)
(* apart, and where one accepts what the other does not, or as another     *)
(* host, it is for one of the reasons that ParsersAgree lists.             *)
RunIsAsAsked ==
    /\ part = "command" => Line!EachItsOwn /\ Line!RunOfItsScheme
    /\ part = "target" => Text!ParsersAgree /\ Text!StrictIsWhole /\ Text!LenientIsWhole

(* on_accept is called once for each successful handshake and for no other *)
(* (dtls.rs, serve_forever).                                               *)
AnnouncedOnce == part = "serve" => Serve!AnnouncedOnce

(* As many lines as there are secrets to read are enough to begin, also    *)
(* from a writer that keeps stdin open.  And neither a handshake that      *)
(* fails nor a slow close stops --serve: unless one handshake lasts for    *)
(* ever, which nothing in serve_forever prevents, whoever says hello is    *)
(* taken up.                                                               *)
NobodyWaitsForEver ==
    /\ (part = "command" /\ Line!Accepted /\ Line!EnoughLines) ~> (part = "command" /\ Line!Started)
    /\ ([]<>(part = "serve" => server # "handshaking")) =>
           \A c \in Clients : (part = "serve" /\ Serve!Waits(c)) ~> (part = "serve" /\ peer = c)

(* "scheme_match_is_case_insensitive ... should still parse" (target.rs:   *)
(* 100): capitals do not change what is run.  `ice` looks at the scheme a  *)
(* second time, and takes TURN: for stun:.                                 *)
CapitalsDoNotMatter == part = "command" => Line!CapitalsDoNotMatter

(* "defaults_the_port_when_omitted" (target.rs:107): a host that a URI can *)
(* name with a port, it can name without.  A bracketed IPv6 literal is     *)
(* refused, its last group taken for a port that is none.                  *)
DefaultsThePort == part = "target" => Text!DefaultsThePort
=============================================================================
