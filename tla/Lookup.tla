-------------------------------- MODULE Lookup --------------------------------
(***************************************************************************)
(* DnsCheck::run, probe-core/src/checks/dns.rs: one call of the operating  *)
(* system's resolver, whose socket addresses are stripped of their ports   *)
(* and of repetitions (one per socket type is common) in the order they    *)
(* come.  The later checks use the first address and no other.             *)
(***************************************************************************)
EXTENDS Context, Sequences

CONSTANTS Ips,         \* addresses a name may have
          MaxAnswers   \* bound: socket addresses the resolver returns

VARIABLES pc,       \* "start", "lookup", "dedupe", "done"
          ctx,      \* the ProbeContext
          resolved, \* ctx.resolved_ips
          result,   \* status and why
          answers,  \* history: what the resolver said
          rest,     \* the iterator: answers not yet looked at
          seen,     \* the HashSet
          ips       \* the Vec

vars == <<pc, ctx, resolved, result, answers, rest, seen, ips>>

Init ==
    /\ pc = "start"
    /\ \E host, port \in BOOLEAN : ctx = NewContext(host, port, FALSE, FALSE)
    /\ resolved = <<>>
    /\ result = [status |-> "none", why |-> "running"]
    /\ answers = <<>> /\ rest = <<>> /\ seen = {} /\ ips = <<>>

Return(status, why) ==
    /\ pc' = "done"
    /\ result' = [status |-> status, why |-> why]

Skip ==
    /\ pc = "start" /\ ~ctx.host
    /\ Return("skip", "no host")
    /\ UNCHANGED <<ctx, resolved, answers, rest, seen, ips>>

Ask ==
    /\ pc = "start" /\ ctx.host
    /\ pc' = "lookup"
    /\ UNCHANGED <<ctx, resolved, result, answers, rest, seen, ips>>

\* The resolver is the operating system's, with its own timeouts.
Unresolved ==
    /\ pc = "lookup"
    /\ Return("fail", "did not resolve")
    /\ UNCHANGED <<ctx, resolved, answers, rest, seen, ips>>

Resolved ==
    /\ pc = "lookup"
    /\ \E n \in 0..MaxAnswers : \E list \in [1..n -> Ips] : answers' = list /\ rest' = list
    /\ pc' = "dedupe"
    /\ UNCHANGED <<ctx, resolved, result, seen, ips>>

\* One pass of the loop.
\* Mutant: only neighbours are compared.
TakeAnswerUnseen ==
    /\ pc = "dedupe" /\ rest # <<>>
    /\ ips' = IF ips # <<>> /\ ips[Len(ips)] = Head(rest) THEN ips ELSE Append(ips, Head(rest))
    /\ seen' = seen \cup {Head(rest)}
    /\ rest' = Tail(rest)
    /\ UNCHANGED <<pc, ctx, resolved, result, answers>>

TakeAnswer ==
    /\ pc = "dedupe" /\ rest # <<>>
    /\ ips' = IF Head(rest) \in seen THEN ips ELSE Append(ips, Head(rest))
    /\ seen' = seen \cup {Head(rest)}
    /\ rest' = Tail(rest)
    /\ UNCHANGED <<pc, ctx, resolved, result, answers>>

NoAddress ==
    /\ pc = "dedupe" /\ rest = <<>> /\ ips = <<>>
    /\ Return("fail", "zero addresses")
    /\ UNCHANGED <<ctx, resolved, answers, rest, seen, ips>>

\* Mutant: an empty list passes.
PassAnyway ==
    /\ pc = "dedupe" /\ rest = <<>>
    /\ ctx' = [ctx EXCEPT !.ips = ips # <<>>]
    /\ resolved' = ips
    /\ Return("pass", "resolved")
    /\ UNCHANGED <<answers, rest, seen, ips>>

Pass ==
    /\ pc = "dedupe" /\ rest = <<>> /\ ips # <<>>
    /\ ctx' = [ctx EXCEPT !.ips = TRUE]
    /\ resolved' = ips
    /\ Return("pass", "resolved")
    /\ UNCHANGED <<answers, rest, seen, ips>>

Returned == pc = "done" /\ UNCHANGED vars

Next == \/ Skip \/ Ask \/ Unresolved \/ Resolved
        \/ TakeAnswer \/ NoAddress \/ Pass
        \/ Returned

Spec == Init /\ [][Next]_vars

-----------------------------------------------------------------------------
(* Properties *)

(* What the check leaves behind: every address of the answer, once, and in *)
(* the order of their first appearance, so that the address the checks use *)
(* is the one the resolver prefers.  Nothing is left without a Pass.       *)
ResolvedIsTheAnswer ==
    IF result.status # "pass" THEN resolved = <<>>
    ELSE LET first(ip) == CHOOSE k \in 1..Len(answers) :
                              answers[k] = ip /\ \A j \in 1..k - 1 : answers[j] # ip
         IN /\ {resolved[k] : k \in 1..Len(resolved)} = {answers[k] : k \in 1..Len(answers)}
            /\ \A j, k \in 1..Len(resolved) : j < k => first(resolved[j]) < first(resolved[k])

(* One step from a context to an answer of the contract; a Pass leaves     *)
(* an address, which is what the later checks take it to mean.             *)
Contract == INSTANCE AtomicCheck WITH Outcomes <- DnsOutcomes, status <- result.status

ImplementsContract == Contract!Spec
=============================================================================
