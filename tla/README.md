# A TLA+ model of webrtc-doctor

`webrtc-doctor` probes a WebRTC deployment: DNS, STUN, TURN over UDP and TLS, ICE gathering,
signaling and DTLS. A *check* is one probe; a *pipeline* runs checks in order, skips a check
whose prerequisites did not pass, and ends in a report, a verdict and an exit code. This
directory holds specifications of the program, model-checked with TLC, and proofs of theorems
about them, checked with TLAPS. Paths below are relative to `src/`; `core/` stands for
`crates/probe-core/src/` and `cli/` for `crates/webrtc-doctor/src/`.

## 1. The system

| Component | State | Operations | Modules |
|---|---|---|---|
| pipeline runner, `core/pipeline.rs`, `core/result.rs` | checks pushed, passed ids, results | `push`, `run`, `verdict`, `exit_code` | `Report`, `Pipeline` |
| context and `Check` trait, `core/check.rs` | host, port, addresses, credentials, srflx, relayed address, TURN session | `new`, `run` of each check | `Context`, `AtomicCheck`, `AnyCheck` |
| DNS, `core/checks/dns.rs` | set and list of addresses | `run` | `Lookup` |
| STUN binding, `core/checks/stun.rs` | socket, transaction id | `run`, `parse_binding_response` | `StunBinding`, `Responses` |
| TURN allocation, `core/checks/turn_alloc.rs` | socket, transaction id, challenge | two Allocate rounds | `TurnServer`, `TurnAlloc` |
| TURN echo, `core/checks/turn_echo.rs` | send times, RTTs, counts, deadline | CreatePermission, send loop, collect loop | `TurnEcho` |
| TURN over TLS, `core/checks/turns_alloc.rs` | connection, what a frame still lacks | connect, two rounds, `send_framed`, `recv_framed` | `TurnsAlloc`, `Framing`, `Channel` |
| ICE gathering, `core/checks/ice_gather.rs` | candidates | `run`, `is_useful_v4`, `is_useful_v6`, `count_kinds` | `IceGather` |
| signaling, `core/checks/signaling.rs` | URL, header, connection | `run` | `Signaling` |
| DTLS, `core/checks/dtls.rs` | client, server task, budget; accept loop | `run` of two checks, `dial`, `serve_forever` | `DtlsCheck`, `DtlsServe` |
| codecs, `core/stun_codec.rs`, `core/turn_codec.rs` | none | build, sign, walk and parse messages, XOR addresses | `AttrWalk`, `StunMessage`, `Responses`, `XorAddress` |
| command line, `cli/main.rs` | subcommand, secrets, accumulated results | `main`, `run_full`, `resolve_secret` | `CommandLine`, `Probe`, `Main` |
| target parser, `cli/target.rs`, `parse_host_port` | none | two parsers of host and port | `Targets` |
| renderer, crate roots | none | formatting, re-exports | not modelled |

How they interact. `main` looks at the target, resolves the secrets, builds a pipeline and one
`ProbeContext` per target. The runner calls `run(&mut ctx)` of one check at a time; checks
communicate only through the context, and the runner only through the status a check returns.
Two things outlive the check that made them: the UDP socket and nonce in `TurnSession`, which the
allocation leaves to the echo, and the allocation at the server. Concurrency is with the outside
(the server, the network, the clock, the kernel's socket buffer, the writer of stdin) and, in
DTLS, between the client and the server task of the loopback and between the accept loop and the
tasks that close its connections.

What is hard, and what makes each part correct:

* *Runner.* Only direct requirements are tested, in list order, and a Skip neither fails nor
  passes. Correct: prerequisites cascade however deep; a report explains its skips; exit code 0
  does not hide what it should show.
* *DNS.* Repetitions go through a set, and every later check uses the first address. Correct:
  the order of the answer survives.
* *STUN.* One request, no retransmission, and the first datagram from anybody decides. Correct:
  the address was seen by the server; the wait ends.
* *Allocation.* Two such rounds. Correct: a Pass is a real allocation, credentials are used and
  blamed only with cause, every wait ends.
* *Echo.* Sends are paced and nothing is read meanwhile; the deadline starts with the last
  send; echoes may be lost, repeated, reordered and mixed with other datagrams; the buffer
  overflows and the permission lapses. Correct: counts and RTTs speak of the packets sent, a Pass
  of all of them, a warning of a loss, and the answer comes in time.
* *TURN over TLS.* Octets come in pieces of any size and the connection may end anywhere.
  Correct: messages come out whole and in order; every exit is reached; no session is left.
* *ICE.* Bit masks, and what other checks may or may not have left. Correct: the useful
  addresses are listed, no others; counts and verdict are those of the final list.
* *Signaling.* A connect under a timeout and a close without one. Correct: "auth OK" is meant;
  silence is answered.
* *DTLS.* Two tasks that wait for each other under one budget; an accept loop that handshakes
  inside the loop. Correct: a Pass speaks of both ends; neither a failed handshake nor a slow
  close holds up the next client.
* *Codecs.* Lengths from the datagram steer a walker, lengths are cut to 16 bits, the integrity
  attribute counts itself before it is there, the walker exists twice. Correct: nothing outside
  the buffer is read, what is built is what is parsed, no address is made up.
* *Command line.* All secrets share one stdin; a scheme is tested twice; `full` runs several
  targets and concatenates. Correct: the run is the one asked for, contexts are isolated, each
  check's requirements leave what it needs, no target goes missing and the verdict is the worst.

`PROJECT.json` lists each hazard at its line, with the properties aimed at it.

## 2. Modules

### The composition

**Report** — statuses, results, verdict, exit code. A result keeps `id`, `status` and `ran`
(FALSE for the skip the runner records itself). Texts and latencies are left out.

**Pipeline** — one action each for `push`, calling `run`, running a check and skipping one;
`Record` is the shared end of the loop body. A check may answer any status. Pipelines are built
in any order, with repetitions and missing prerequisites, since `push` accepts all of them.

**Context** — the record `ProbeContext` and, per check, the *contract*: which statuses `run` may
answer in a given context, and what the context becomes. **AtomicCheck** is the specification of
a check that meets one contract, a single step from "running" to an answer; **AnyCheck** the same
for one of several checks. Every check has a detailed module, and each of those is shown to
implement its contract; `Probe` composes the contracts. A check is public library code and its
module starts it in any context a pipeline may hand it, the ones its `requires` excludes in this
program included; `Probe` shows which of them occur.

**Probe** — `main` and `run_full`: `Begin` parses the next target and builds its context and
pipeline, `RunCheck` and `SkipCheck` are the runner's (instance `P` of `Pipeline`) with the
contract of the current check, `Extend` adds the results, `Render` ends. `Bail` is a URL that
does not parse (in `full` only noticed when its turn comes), credentials with an `ice stun:`
URL, or `full` without a URL; `SecretMissing` is a failed read from stdin.

**CommandLine** — what `main` does before: the scheme test, credentials refused by `ice stun:`,
the order in which secrets are resolved, and `read_line_from_stdin` against a writer that writes
line by line and may keep stdin open. The value of a secret read from stdin is the number of its
line. **Targets** — `parse_stun_like` behind the scheme, and `parse_host_port`, on every short
text of the characters they tell apart.

### The checks

**Lookup** — the loop over the resolver's answer with its set and its list.

**StunBinding** — one exchange; server, network and a NAT that may rebind at any time around it.

**TurnServer** (external) — a TURN server and the UDP path, from what the client must cope with.
`requests` and `replies` only grow, and any element may be handled at any time, more than once or
never: loss, delay, repetition and reordering in one. The server allocates once per 5-tuple,
repeats its answer to a repeated request, may ask for credentials or not, may refuse anything,
may send what the parser rejects, and changes its nonce up to `MaxNonce` times.

**TurnAlloc** — `TurnAllocateCheck::run`. One action per exit of the function and per message
sent: `Skip`, `LocalError` (bind or first send fails), `SendUnauth`, then on the first datagram
`Malformed`, `Refused`, `Anonymous`, `ChallengeOnly`, `SendAuthed` or `SendAuthedError`, then
in round two `CredentialsRejected`, `LongTerm` and the failures again. `Timeout` and
`RecvError` end either wait. `ParseAllocateResponse` keeps the parser's order: the transaction
id is compared before anything else is looked at.

**TurnEcho** — `TurnEchoCheck::run` with a clock. `SendPermission`, `RecvPermission` and
`PermissionTimeout` are step 1; `SendPacket` step 2, with the pause after all but the last
packet; `Collect` and `Expire` step 3. `Collect` handles the whole body of the loop for one
datagram: filter on the source, parse, tally, then the loop condition. The socket's receive
buffer is a FIFO queue of `BufferSize` that drops what does not fit; `Arrive` fills it whatever
the check is doing. The server echoes what it gets before `expires`. The variable `prompt`,
chosen at the start, says whether the clock stands still while the check has a step to take;
without it the task may be scheduled arbitrarily late.

**TurnsAlloc** — TCP, TLS and both rounds, over two queues of whole messages; a server delimits
messages by the two-octet prefix as the code does or, "bare", by the length in the STUN header.
**Framing** — `send_framed` and `recv_framed` below it: the stream is a sequence of octets of
which `Fill` takes any piece, `Close` ends the stream within a frame, `Drop` is the timeout that
drops the future of `read_exact`. **Channel** is their abstract specification: messages come out
as they went in, in order, and nothing else does.

**IceGather** — the loop over the interface addresses with the predicates on octets, the
candidates from the context, counts and verdict in one `Return`, as in the code.

**Signaling** — URL and header errors, the upgrade, the close. **DtlsCheck** — both checks, `mode`
saying which: the dial, the server task, the join, under one budget; `faulty` says whether
handshakes may fail. **DtlsServe** — the accept loop, its background closes and its clients. The
libraries (`tokio-tungstenite`, `webrtc_dtls`) are external, reduced to the order of their
messages.

### The codec

**AttrWalk** — `parse_header` and `walk_attrs` on a buffer of any content: positions, octets
touched, slices handed out. **StunMessage** — the builders, the digest, the header and the
walker, together with the second walker in `parse_data_indication`, octet by octet with lengths
modulo `Base * Base`; a walk is a function of the position it has reached (`AttrsFrom`,
`DataFrom`). **Responses** — the three response parsers, in the order in which they decide; a
loop that keeps the latest attribute of a type is `LastOf`, one that returns at the first is
`FirstOf`, and an error out of the loop wherever it occurs is `Decodable`. **XorAddress** — the
masks; an octet is the set of its bits that are one, XOR the symmetric difference.

### Several components in one run

`Checks`, `Wire` and `Main` put several components behind one variable `part`: a behaviour is a
behaviour of one of them, with the variables of the others standing still at a value that is no
value of theirs. The components share variables of the same name and are instances of their
modules without change; nothing is composed there that is not composed in the program. The
composition proper is `Probe`.

`MC*` modules give the constants values for TLC. Definitions marked "Mutant" are plausible bugs;
each is put in the place of a definition to see that a property notices.

## 3. What the runs show

| Run | Bounds | States | Result |
|---|---|---|---|
| `pipeline` | pipelines of up to 4 of 5 checks | 17 thousand | all pass |
| `alloc` | 2 addresses, 2 nonces, stray datagrams | 4 thousand | all pass |
| `echo` | 3 packets, each echoed up to twice, 1 other datagram, buffer of 3, timeout 2, pause 1, lifetime 2, clock to 7 | 2.6 million | all pass |
| `checks` | 2 addresses, 2 nonces; answers of up to 4 of 3 addresses; 3360 single interface addresses and lists of up to 3 | 264 thousand | all pass |
| `wire` | buffers of 40 octets, messages of 2 attributes, responses of 4, 3 frames | 653 thousand | all pass |
| `main` | every subcommand and choice of targets for `full`, 4 lines of stdin, texts of 6 characters, 3 clients | 539 thousand | all pass |
| `alloc_stale`, `echo_rtt`, `main_zero`, `main_relay`, `main_port`, `main_case` | as above | – | violated, findings 1 to 6 |

* `pipeline`: prerequisites cascade, a skip has its cause in the report, and exit code 0 hides
  only a check's own skip (`Cascade`, `PassedIsReported`, `RootCause`,
  `HealthyHidesOnlyOwnSkips`).
* `alloc`: a Pass is an allocation of the server at the address reported, credentials are
  demanded before they are used and refused before they are blamed, every wait ends, and the two
  rounds implement the contract.
* `echo`: a Pass is all packets (`PassMeansAllEchoed`); received, duplicates and RTTs are those
  of copies that came (`FiguresAreTrue`); a prompt task answers within two timeouts and the
  pauses (`TimelyVerdict`), sends under its permission as long as the pauses fit
  (`PermissionStands`), and warns of losses only: each packet it reports as lost was not sent
  back, met a full buffer or came too late, and an echo that found room is counted however many
  did not (`NoFalseLoss`).
* `checks`: `ReportsAreTrue` says of each check that what it reports is so; `GoodPeersPass`
  that a peer that does its part is recognised; all of them implement their contracts, and all
  but DNS, which has no timeout, answer (`Terminates`).
* `wire`: the walk stays inside and advances; `ReadAsWritten` for builders, both walkers and
  addresses; `ResponsesAreUnderstood`: the order of attributes does not matter, refusals with
  exactly one ERROR-CODE are read alike by both parsers; frames implement the channel and arrive.
* `main`: the composition. `ShippedPipelinesAreReadable` and `OutcomesExplained`: the
  pipelines of the program meet the assumption `RootCause` is proved under, and what the reader
  sees has its reason; `ContextIsThisTargets`, `ReportSpeaksForAll`; and for the rest of the
  binary `AnnouncedOnce`, `NobodyWaitsForEver` and `RunIsAsAsked`, which is
  - of the command line: each secret is its flag's value or its own line (`EachItsOwn`); the
    pipeline is that of the subcommand and its scheme, and credentials go to one with a TURN
    server (`RunOfItsScheme`, which leaves out the one combination of finding 6);
  - of a target: `ParsersAgree`, in both directions. What `parse_host_port` takes,
    `parse_stun_like` takes for the same host and port unless brackets are part of the host. What
    only the latter takes has no port, a colon in a host without brackets, or brackets that are no
    pair around the host. `StrictIsWhole`: the former drops nothing of a text it accepts and takes
    a colon in a host only between brackets. `LenientIsWhole`: the latter drops brackets at the
    ends of the host and nothing else.

Why the bounds are enough. The longest shipped pipeline has four checks, and the runner's loop
depends on earlier checks only through the set `passed`; for longer ones there are the
theorems. The allocation sends at most two requests, so a second address and a second nonce
are what it takes to confuse two answers or to go stale. In the echo, two packets and two copies
are what a repeated echo needs to stand in for a lost one; with three packets the last is sent
as the permission lapses, and a buffer of three overflows. `MaxTime` exceeds the six
ticks the waits can use up when the task is prompt, so it never cuts a prompt behaviour short;
otherwise it only bounds how late the task may be. All of this holds for other values by the
theorems of section 4. Four answers of three addresses contain every pattern of repetition the
set and the list could disagree on. The interface addresses include every value of the second
octet next to the edges of each block, so that every mask is decided on both sides of its edge.
Message values have every length modulo 4, one of them is an attribute itself, and with octets of
six values three of the longest overflow the length field. Texts of six characters hold a
bracketed literal with a colon and a port of one digit, or two colons with two digits, and with
15 as the largest port "15" and "51" lie at and beyond it. Three lines are the most that are read; three
clients make one wait behind one that is behind a third.

**Findings** (each a violation run; the quoted text is in `PROJECT.json`):

1. A response to another transaction ends the round as malformed (`core/checks/turn_alloc.rs:169`),
   so a duplicated or delayed first challenge fails a check whose credentials the server knows;
   `docs/PROTOCOLS.md:63` says the transaction id ties a response to its request.
2. The reported RTT of an early packet contains the pauses before the packets after it, also with
   a task that is scheduled promptly, because nothing is read before the last has been sent
   (`core/checks/turn_echo.rs:230`); the trace has two packets. `docs/PROTOCOLS.md:133` says it is
   the round-trip time.
3. Exit code 0 does not mean that all checks passed (`README.md:594`): after an anonymous
   allocation the echo skips itself, which `turn_echo.rs:118` calls unreachable.
4. An anonymous allocation gives no relay candidate, against `core/checks/ice_gather.rs:19`.
5. A bracketed IPv6 literal without a port is refused instead of getting the default
   (`cli/target.rs:44`), against the test at line 107.
6. `ice TURN:host` is accepted and then run as STUN, or its credentials refused
   (`cli/main.rs:369`), against the test at `cli/target.rs:100`.

Observed while modelling, without a run of its own:

* Echoes that the check's own full buffer drops count as loss of the relay, which
  `turn_echo.rs:33-34` says the warning is about; a full buffer is one of the three causes that
  `NoFalseLoss` allows.
* A client that says hello to `--serve` and falls silent in the middle of the handshake holds up
  all others for as long as the library keeps trying, since `serve_forever` has no timeout
  (`core/checks/dtls.rs:177`); the comment at lines 155-158, "one bad handshake doesn't take the
  server down", is about those that fail.
* A permission lasts 300 s and is not refreshed: a run of 15000 packets and more loses the rest.
* A server that sends STUN over TLS without the length prefix is reported as silent or malformed;
  `GoodPeersPass` is stated of servers that frame as the code does.
* `parse_binding_response` takes a MAPPED-ADDRESS that comes before the XOR-MAPPED-ADDRESS;
  `OrderIrrelevant` leaves that pair out.
* `parse_stun_like` splits a bare IPv6 literal at its last colon, where `parse_host_port`
  refuses it: one of the reasons in `ParsersAgree` for which the two may differ.
* With no ERROR-CODE in a refusal the Allocate parser reports error 0 and the CreatePermission
  parser calls it malformed; with several the first keeps the last and the second the first.
* Lengths are cut to 16 bits by a cast (`core/turn_codec.rs:73`, `core/checks/turns_alloc.rs:247`).
  The properties of `wire` are stated of messages that fit, and none of them would notice.

**Fairness.** Always of the program itself, and of others only where a variable of the model
says that they are sound:

* `alloc`: starting and the timeouts (`WF`): a tokio timer that has expired is delivered and
  the task polled. Server and network owe nothing.
* `echo`: time passes (`Tick`) and the task is polled (`Progress`).
* `checks`: each task is polled and each timeout expires. For DTLS the budget need only run out
  if `faulty`; if not, client and server library go on with a handshake that works. The TURNS
  server answers if not `faulty`. The resolver, the STUN server and the endpoint owe nothing;
  nothing live is said of DNS, since its lookup has no timeout.
* `wire`: octets written arrive and the reader is polled; writer and timer owe nothing.
* `main`: the process runs: it goes on to its next secret, and its accept loop takes up the next
  client. A handshake that has begun owes nothing, since nothing in `serve_forever` bounds it, nor
  do writers of stdin, clients and closes. What `NobodyWaitsForEver` says of clients is therefore
  conditional, in the formula itself: if handshakes end, however they end, everybody is taken up.

No fairness is needed for the safety properties.

## 4. What is proved

Every theorem holds for all values of the constants that satisfy the named assumptions.

`PipelineProofs`: for any set of checks, any requirement relation (cyclic ones included)
and pipelines of any length, the type invariant, `Cascade`, `PassedIsReported`, `RootCause`
and `HealthyHidesOnlyOwnSkips`. `PassedIsReported` is the heart: `passed` is the set of ids
reported as passed and is closed under requirements, because an id is only added after its
requirements were found in the set. `Cascade` follows since the least closed set around a
check's requirements lies inside `passed`. The inductive invariant adds that the results are
those of a prefix of the checks, in order, which is what `RootCause` needs to place the missing
requirement earlier in the list: it was reported and did not pass, so either it ran, or it was
itself skipped for a cause that is further up still. `HealthyHidesOnlyOwnSkips` follows from
`RootCause`, since without failures and warnings that cause can only be a skip of its own.

`TurnAllocProofs`: for any addresses, any number of nonces and any stray datagrams, the
type invariant, `PassIsAllocated`, `CredentialsBlamedFairly`, `CredentialsOnDemand`,
`ChallengeOnlyIsHarmless`, and that the exchange implements the contract `AllocOutcomes`. None
of these is inductive: a Pass is decided long after the server granted, so the invariant says
of every reply in flight what the server did to send it (a success carries the allocation's
address and transaction, an unauthorized answer to an authenticated request stands for a
rejection), and of the client which of its two requests a transaction id belongs to. The
refinement proof shows that no step but a returning one changes the context or the status and
that each return matches one member of the contract.

`TurnEchoProofs`: for any number of packets, timing, buffer and network, the type invariant,
`PassMeansAllEchoed`, `FiguresAreTrue` and the refinement of `EchoOutcomes`. The invariant
accounts for copies one by one: each copy the relay delivered has been counted once (as received
or as a duplicate), waits in the buffer, or was dropped. That count is a cardinality, and the
step of the proof that carries it is the reading of a datagram: the copies not yet read lose one
element, and the injection from what is counted into what was delivered gains one.

The module also proves `TimelyVerdict`, `PermissionStands` and `NoFalseLoss`, the properties
that are about time. The plan of a prompt task is that packet k goes out k - 1 intervals after
the permission was granted, exactly, and that no wait ends later than it was set to. For
`NoFalseLoss` the invariant says that every packet echoed has an arrival unless the buffer has
overflowed; that
a packet with an arrival and no RTT has its echo in the buffer; and that while a prompt task
collects and time has passed since the last packet, what is unread arrived just now. A packet
that is still without an RTT when the deadline strikes therefore has no echo, one that a full
buffer dropped, or one that came no earlier.

`FramingProofs`: for octets of any base, messages of any length that two octets can say, and
any cutting of the stream, `Framing` implements `Channel` (`ImplementsChannel`). The invariant
says where the frames lie: there are offsets of the frames in everything ever sent, and each
octet of `buf` followed by `stream`, what is in flight, is the octet of a frame not yet received
that its position says. Reading any piece moves octets from `stream` to `buf` and changes
nothing of that; a length read is the length of the next message because of it.

`WireProofs`: every safety property of the run `wire`. Each part has an invariant of its own and
`NextWire` puts them together; that of the frames is `FramingProofs`' (`FP!IInv`), instantiated.

* *The walk* (`WalkInv`), for buffers of any size and content: every slice handed out ends before
  the walk's position, which is a multiple of four; one lemma says what the pad does to a position.
* *Messages* (`MsgInv`), for octets of any size, any attribute types and values, and any number of
  attributes. None of the properties is inductive: they speak of what arrived. The invariant says
  where the attributes lie while the message is built (`LaidOut`: there are positions, the first 0,
  the last the end, each behind the one before by header, value and pad, and at each stands its
  attribute), what the digest was computed over, and that a datagram is a beginning of the message.
  The step that carries it is that an attribute appended disturbs none that stands
  (`AppendLaidOut`). Reading is about the two recursive functions of the walkers. `Recursion`
  shows, with the well-founded order on positions, that such functions exist, so `WalkMeans` and
  `DataMeans` are their equations; `Downward` carries a fact from the end of the buffer to its
  beginning. `LaidOutIsRead` is then that the walk from the k-th position finds the attributes
  from the k-th on, and `WalkersAgree` that at every position, of any octets whatever, the echo's
  walker returns the first DATA attribute of what the shared one finds. That needs no layout, and
  so holds of distorted messages.
* *Responses* (`ResponseInv`), for any number of attributes: in a permuted list the one attribute
  of a type is found again, first or last (`SameIsFound`, `SameIsFoundLast`), which is all that
  the parsers ask of it.
* *Addresses* (`AddressInv`), for any cookie and any octets: a mask applied twice is none
  (`MaskedTwice`), two masks that differ give different addresses (`MaskedOnceAndElse`), and a
  value too short for its family is an error (`ParsedIsWhole`).

`TurnsAllocProofs`: for any addresses and nonces, the type invariant, `PassIsAllocated`,
`MalformedHasCause`, `CredentialsBlamedFairly` and the refinement of `TurnsOutcomes`. Over a
connection the invariant is shorter than that of `TurnAlloc`: of request and response one is on
its way at most, it carries the transaction id of the client's present round, and a response says
what the server has done. Hence no response can be read in the wrong round, and "malformed" is
the server's fault.

`ChecksProofs`: for the checks side by side, any addresses and any answers of resolver, servers
and endpoint, the type invariant, `ReportsAreTrue` and `ImplementContracts`: each of DNS, STUN
binding, signaling, ICE gathering, DTLS handshake and TURNS allocation does what the composition
takes a check to do. Each part has an invariant of its own (`DnsInv`, `StunInv`, `WsInv`, `IceInv`,
`DtlsInv`, and the invariant of `TurnsAllocProofs`), which the steps of the others leave alone. Its core
is the same six times: what the program holds was put there by its environment for the attempt now
under way, so a verdict blames the peer only for what the peer did. For STUN binding that includes
that an answer that is not the server's can have come only from a stray sender; for ICE that a gathered
candidate comes from an interface or a server, and that the filters, given there as tests of bits, pass
no loopback, link-local or unspecified address (`Usefulv4IsOutside`, `Usefulv6IsOutside`).

`MainProofs`: for any addresses, nonces and clients, any number of lines written to stdin,
targets of any length over any letters, and ports of any width, every safety property of the run
`main`. The parts of the binary have invariants of their own, and `NextMain` puts them together:

* *The invocation* (`IInv`). The module instantiates `PipelineProofs` with the checks and
  requirements of the code, so the runner's invariant is not proved twice. `Places` says where
  each check stands in the eight pipelines of `main.rs`: none twice, requirements first, nothing
  behind the echo. `OutcomeMeans` says of each contract what it adds to the context. A check that
  is run therefore finds what it reads, because its requirements have passed and `Learned` says
  what each of them left; and since a check runs once in a pipeline, a session is never older than
  the relayed address next to it. For `ReportSpeaksForAll` the invariant says of each target done
  where its results begin in the report (`ChecksBefore`, a cardinality: `ChecksOfOneMore` is its
  induction step), and that the verdict on the report so far is the worst of theirs.
* *The command line* (`LineInv`, `KindInv`). The pipeline chosen when the target is accepted is
  kept, and what was accepted says which it is. `EachItsOwn` speaks of a run that has begun; the invariant says
  of each secret in between which line it will take: the lines read plus those the secrets before
  it in the order still need. It holds whenever the lines are written, and whether or not stdin is
  closed.
* *The accept loop* (`ServeInv`). Each client is at one place, new, in the backlog once, taken up or
  announced, which is what keeps a second announcement out.
* *The parsers* need no invariant: `TextMeans` holds of every text. `BracketedIs`, `PlainIs` and
  `RestTaken` say how a text that a parser accepts is made; `TrimmedGives` that trimming leaves all
  between the first and the last character that is no bracket. One direction of the agreement is
  `RestIs`: the other parser splits at the same colon, since a port has none, and trims no more than
  the brackets. For the other, `PlainTaken` and `BracketedTaken` say what suffices for
  `parse_host_port`, and `OnlyTheOther` that all else is one of the three exceptions.

Assumptions are those on the constants, stated in the modules that declare them: `NoAddr` is no
address, nonces are `1..MaxNonce`, strays are datagrams the parser rejects, `Requires` maps
checks to sets of checks, `EchoAssumption` and `SizesAssumption` say which constants are natural
numbers and which are not zero, and `Fits` (which `Wire` assumes of its constants) that messages
are of octets and fewer than two octets can count. The last is what `send_framed` takes for
granted of `msg.len()`. `Digital` and `Masks` (assumed by `Wire` too) say that values, the peer's
address and the digest are of octets, of which there are three values at least, that the digest's
length is a multiple of four (20 in the code), that types fit two octets, and that the cookie has
four. `EnumerationsAssumption` says that the lists of interface addresses the
environment chooses from are lists of addresses. In `Main`, `MaxLines` is a natural number, a
colon is not a digit, and "nobody" is not a client.

Only model-checked: everything live (liveness and fairness are outside the prover). The claims
that a run refutes are, of course, not theorems either.

## 5. Not modelled, and why

* The renderer, `--quiet` and JSON output, the crate roots: formatting of a finished report and
  re-exports; no state.
* The contents of texts, keys and HMACs. That the digest covers the right octets is modelled,
  what it is is not.
* The time the operating system's resolver takes: the lookup has no timeout in the code, so
  there is nothing to state (hazard at `dns.rs:56`).
* The allocation that stays behind at the server when the answer of round two is lost: the code
  sends no Refresh, and there is no behaviour to state (hazard at `turn_alloc.rs:158`).
* A 438 to the echo's CreatePermission: the code treats it as any other refusal, which is one
  outcome in `TurnEcho` (hazard at `turn_alloc.rs:184`).
* The insides of TLS, DTLS and WebSocket libraries.
* Several relay or STUN servers behind one name: the code takes the first address.

## 6. Plan

All components that keep state are modelled, every check is shown to implement the contract the
composition uses, and every safety and action property of the passing runs is a theorem. What could be added:

1. `main`'s liveness (`NobodyWaitsForEver`) and the checks' (`Terminates`, `GoodPeersPass`) stay
   with TLC as long as the prover knows no fairness; the steps that are not temporal, that a wait
   always has an enabled exit and that a measure falls with every step, could be lemmas.
2. A check added to the program needs its contract in `Context`, an entry in `Probe`'s
   `Requires` and `Pipelines`, and its refinement in `Checks` and `ChecksProofs`.
