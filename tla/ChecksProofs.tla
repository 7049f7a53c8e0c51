---------------------------- MODULE ChecksProofs ----------------------------
(***************************************************************************)
(* Theorems about the checks that have no peer but the network, for any    *)
(* addresses, names, interfaces and nonces: each reports what is so and    *)
(* answers as its contract says.  The part that runs keeps an invariant of *)
(* its own; that of the TURNS check is TurnsAllocProofs'.                  *)
(***************************************************************************)
EXTENDS Checks, FiniteSetTheorems, SequenceTheorems, TLAPS

TP == INSTANCE TurnsAllocProofs

-----------------------------------------------------------------------------
(* The name: what the loop over the resolver's answers has done.           *)

\* The resolver first gave ip as its p-th answer.
First(p, ip) == /\ p \in 1..Len(answers) /\ answers[p] = ip
                /\ \A q \in 1..p - 1 : answers[q] # ip

\* ips lists the first n answers, each once, in the order of their first
\* appearance.
Deduped(n) ==
    /\ \A k \in 1..Len(ips) : \E p \in 1..n : First(p, ips[k])
    /\ \A p \in 1..n : \E k \in 1..Len(ips) : ips[k] = answers[p]
    /\ \A j, k \in 1..Len(ips) :
          j < k => \E p, q \in 1..n : p < q /\ First(p, ips[j]) /\ First(q, ips[k])

Taken == Len(answers) - Len(rest)

DedupeInv ==
    /\ Len(rest) <= Len(answers)
    /\ \A k \in 1..Len(rest) : rest[k] = answers[Taken + k]
    /\ seen = {answers[k] : k \in 1..Taken}
    /\ Deduped(Taken)

DnsInv ==
    /\ pc \in {"start", "lookup", "dedupe", "done"}
    /\ ctx \in ProbeContext
    /\ pc = "done" <=> result.status # "none"
    /\ pc \in {"lookup", "dedupe"} => ctx.host
    /\ answers \in Seq(Ips) /\ rest \in Seq(Ips) /\ ips \in Seq(Ips)
    /\ pc \in {"start", "lookup"} => ips = <<>> /\ seen = {}
    /\ pc = "dedupe" => DedupeInv
    /\ result.status # "pass" => resolved = <<>>
    /\ result.status = "pass" => resolved = ips /\ Deduped(Len(answers))

\* The contexts checks start in.
LEMMA FreshContext ==
    ASSUME NEW host \in BOOLEAN, NEW port \in BOOLEAN, NEW user \in BOOLEAN,
           NEW pass \in BOOLEAN, NEW known \in BOOLEAN
    PROVE  /\ NewContext(host, port, user, pass) \in ProbeContext
           /\ [NewContext(host, port, user, pass) EXCEPT !.ips = known] \in ProbeContext
           /\ [NewContext(host, port, user, pass) EXCEPT !.ips = known].srflx = NoAddr
<1> DEFINE c == NewContext(host, port, user, pass)
           d == [c EXCEPT !.ips = known]
<1>1. c \in ProbeContext /\ c.srflx = NoAddr
    BY DEF NewContext, ProbeContext, NoSession
<1> HIDE DEF c
<1>2. d \in ProbeContext
    BY <1>1 DEF ProbeContext
<1>3. d.srflx = NoAddr
    BY <1>1 DEF ProbeContext
<1> QED BY <1>1, <1>2, <1>3 DEF c

LEMMA InitDns == Dns!Init => DnsInv
<1> SUFFICES ASSUME Dns!Init PROVE DnsInv
    OBVIOUS
<1>1. ctx \in ProbeContext
    <2>1. PICK host \in BOOLEAN, port \in BOOLEAN : ctx = NewContext(host, port, FALSE, FALSE)
        BY DEF Dns!Init, Dns!NewContext, NewContext, Dns!NoSession, NoSession
    <2> QED BY <2>1, FreshContext
<1>2. /\ pc = "start" /\ result.status = "none" /\ resolved = <<>>
      /\ answers = <<>> /\ rest = <<>> /\ seen = {} /\ ips = <<>>
    BY DEF Dns!Init
<1> QED BY <1>1, <1>2 DEF DnsInv

\* A function on 1..n is a sequence.
LEMMA ListIsSeq ==
    ASSUME NEW S, NEW n \in Nat, NEW list \in [1..n -> S]
    PROVE  list \in Seq(S) /\ Len(list) = n
<1>1. list \in Seq(S)
    BY SeqDef
<1>2. DOMAIN list = 1..Len(list) /\ Len(list) \in Nat
    BY <1>1, LenProperties
<1> QED BY <1>1, <1>2

\* One pass of the loop.
LEMMA TakeAnswerKeepsDns ==
    ASSUME DnsInv, Dns!TakeAnswer
    PROVE  DnsInv'
<1> DEFINE ip == Head(rest)
           t == Taken + 1
<1>1. /\ pc = "dedupe" /\ rest # <<>>
      /\ ips' = IF ip \in seen THEN ips ELSE Append(ips, ip)
      /\ seen' = seen \cup {ip} /\ rest' = Tail(rest)
      /\ UNCHANGED <<pc, ctx, resolved, result, answers>>
    BY DEF Dns!TakeAnswer
<1>2. /\ answers \in Seq(Ips) /\ rest \in Seq(Ips) /\ ips \in Seq(Ips)
      /\ Len(answers) \in Nat /\ Len(rest) \in Nat /\ Len(ips) \in Nat
      /\ DedupeInv
    BY <1>1 DEF DnsInv
<1>3. /\ Len(rest) >= 1 /\ rest' \in Seq(Ips) /\ Len(rest') = Len(rest) - 1
      /\ \A k \in 1..Len(rest') : rest'[k] = rest[k + 1]
      /\ ip = rest[1] /\ ip \in Ips
    BY <1>1, <1>2, HeadTailProperties
<1>4. /\ Taken \in Nat /\ t \in Nat /\ Taken' = t /\ t <= Len(answers)
      /\ t \in 1..Len(answers) /\ answers[t] = ip
    BY <1>1, <1>2, <1>3 DEF Taken, DedupeInv
<1>5. ips' \in Seq(Ips)
    BY <1>1, <1>2, <1>3
<1>6. \A k \in 1..Len(rest') : rest'[k] = answers'[Taken' + k]
    <2> TAKE k \in 1..Len(rest')
    <2>1. k + 1 \in 1..Len(rest) /\ Taken + (k + 1) = t + k
        BY <1>2, <1>3, <1>4
    <2>2. rest[k + 1] = answers[t + k]
        BY <1>2, <2>1 DEF DedupeInv
    <2> QED BY <1>1, <1>3, <1>4, <2>2
<1>7. seen' = {answers'[k] : k \in 1..Taken'}
    <2>1. 1..t = 1..Taken \cup {t}
        BY <1>4
    <2> QED BY <1>1, <1>2, <1>4, <2>1 DEF DedupeInv
<1>8. \A p, x : First(p, x)' <=> First(p, x)
    BY <1>1 DEF First
<1>9. Deduped(Taken)'
    <2>1. CASE ip \in seen
        <3>1. ips' = ips
            BY <1>1, <2>1
        <3>2. PICK p \in 1..Taken : answers[p] = ip
            BY <1>2, <2>1 DEF DedupeInv
        <3>3. \E k \in 1..Len(ips) : ips[k] = answers[p]
            BY <1>2 DEF DedupeInv, Deduped
        <3>4. \A q \in 1..t : q \in 1..Taken \/ q = t
            BY <1>4
        <3>5. \A q \in 1..t : \E k \in 1..Len(ips) : ips[k] = answers[q]
            BY <1>2, <1>4, <3>2, <3>3, <3>4 DEF DedupeInv, Deduped
        <3>6. 1..Taken \subseteq 1..t
            BY <1>4
        <3> QED
            BY <1>1, <1>2, <1>4, <1>8, <3>1, <3>5, <3>6 DEF DedupeInv, Deduped
    <2>2. CASE ip \notin seen
        <3> DEFINE n == Len(ips)
        <3>1. /\ ips' = Append(ips, ip) /\ Len(ips') = n + 1 /\ n \in Nat
              /\ \A k \in 1..n : ips'[k] = ips[k]
              /\ ips'[n + 1] = ip
            BY <1>1, <1>2, <1>3, <2>2
        <3>2. First(t, ip)
            <4>1. \A q \in 1..Taken : answers[q] # ip
                BY <1>2, <2>2 DEF DedupeInv
            <4>2. t - 1 = Taken
                BY <1>4
            <4> QED BY <1>4, <4>1, <4>2 DEF First
        <3>3. \A k \in 1..n + 1 : k \in 1..n \/ k = n + 1
            BY <3>1
        <3>4. 1..Taken \subseteq 1..t /\ t \in 1..t /\ \A p \in 1..Taken : p < t
            BY <1>4
        <3>5. \A k \in 1..n + 1 : \E p \in 1..t : First(p, ips'[k])
            BY <1>2, <3>1, <3>2, <3>3, <3>4 DEF DedupeInv, Deduped
        <3>6. \A p \in 1..t : \E k \in 1..n + 1 : ips'[k] = answers[p]
            <4> TAKE p \in 1..t
            <4>1. CASE p \in 1..Taken
                <5>1. PICK k \in 1..n : ips[k] = answers[p]
                    BY <1>2, <4>1 DEF DedupeInv, Deduped
                <5>2. k \in 1..n + 1
                    BY <3>1
                <5> QED BY <3>1, <5>1, <5>2
            <4>2. CASE p = t
                <5>1. n + 1 \in 1..n + 1
                    BY <3>1
                <5> QED BY <1>4, <3>1, <4>2, <5>1
            <4> QED BY <1>4, <4>1, <4>2
        <3>7. ASSUME NEW j \in 1..n + 1, NEW k \in 1..n + 1, j < k
              PROVE  \E p, q \in 1..t : p < q /\ First(p, ips'[j]) /\ First(q, ips'[k])
            <4>1. j \in 1..n
                BY <3>1, <3>7
            <4>2. CASE k \in 1..n
                <5>1. PICK p \in 1..Taken, q \in 1..Taken :
                          p < q /\ First(p, ips[j]) /\ First(q, ips[k])
                    BY <1>2, <3>7, <4>1, <4>2 DEF DedupeInv, Deduped
                <5> QED BY <3>1, <3>4, <4>1, <4>2, <5>1
            <4>3. CASE k = n + 1
                <5>1. PICK p \in 1..Taken : First(p, ips[j])
                    BY <1>2, <4>1 DEF DedupeInv, Deduped
                <5> QED BY <3>1, <3>2, <3>4, <4>1, <4>3, <5>1
            <4> QED BY <3>3, <4>2, <4>3
        <3> QED BY <1>1, <1>4, <1>8, <3>1, <3>5, <3>6, <3>7 DEF Deduped
    <2> QED BY <2>1, <2>2
<1>10. DedupeInv'
    <2>1. Len(rest') <= Len(answers')
        BY <1>1, <1>2, <1>3 DEF DedupeInv
    <2> QED BY <1>6, <1>7, <1>9, <2>1 DEF DedupeInv
<1>11. result.status = "none" /\ resolved = <<>>
    BY <1>1 DEF DnsInv
<1> QED BY <1>1, <1>2, <1>3, <1>5, <1>10, <1>11 DEF DnsInv

LEMMA NextDns == DnsInv /\ [Dns!Next]_(Dns!vars) => DnsInv'
<1> SUFFICES ASSUME DnsInv, [Dns!Next]_(Dns!vars) PROVE DnsInv'
    OBVIOUS
<1>1. CASE Dns!TakeAnswer
    BY <1>1, TakeAnswerKeepsDns
<1>2. CASE Dns!Skip \/ Dns!Unresolved \/ Dns!NoAddress
    <2>1. /\ pc' = "done" /\ result'.status \in {"skip", "fail"}
          /\ UNCHANGED <<ctx, resolved, answers, rest, seen, ips>>
          /\ result.status = "none"
        <3>1. /\ pc # "done" /\ UNCHANGED <<ctx, resolved, answers, rest, seen, ips>>
              /\ \E w : Dns!Return("skip", w) \/ Dns!Return("fail", w)
            BY <1>2 DEF Dns!Skip, Dns!Unresolved, Dns!NoAddress
        <3> QED BY <3>1 DEF Dns!Return, DnsInv
    <2> QED BY <2>1 DEF DnsInv
<1>3. CASE Dns!Ask
    BY <1>3 DEF Dns!Ask, DnsInv
<1>4. CASE Dns!Resolved
    <2>1. PICK n \in 0..MaxAnswers : \E list \in [1..n -> Ips] : answers' = list /\ rest' = list
        BY <1>4 DEF Dns!Resolved
    <2>2. /\ pc = "lookup" /\ pc' = "dedupe" /\ ips = <<>> /\ seen = {} /\ ctx.host
          /\ result.status = "none" /\ resolved = <<>>
          /\ UNCHANGED <<ctx, resolved, result, seen, ips>>
        BY <1>4 DEF Dns!Resolved, DnsInv
    <2>3. answers' \in Seq(Ips) /\ rest' = answers' /\ Len(answers') \in Nat
        BY <2>1, ListIsSeq
    <2>4. Taken' = 0
        BY <2>3 DEF Taken
    <2>5. DedupeInv'
        BY <2>2, <2>3, <2>4 DEF DedupeInv, Deduped
    <2> QED BY <2>2, <2>3, <2>5 DEF DnsInv
<1>5. CASE Dns!Pass
    <2>1. /\ pc = "dedupe" /\ rest = <<>> /\ pc' = "done" /\ result'.status = "pass"
          /\ resolved' = ips /\ ctx' = [ctx EXCEPT !.ips = TRUE]
          /\ UNCHANGED <<answers, rest, seen, ips>>
        BY <1>5 DEF Dns!Pass, Dns!Return
    <2>2. ctx' \in ProbeContext
        BY <2>1 DEF DnsInv, ProbeContext
    <2>3. Taken = Len(answers)
        BY <2>1 DEF Taken, DnsInv
    <2>4. Deduped(Len(answers))'
        BY <2>1, <2>3 DEF DnsInv, DedupeInv, Deduped, First
    <2> QED BY <2>1, <2>2, <2>4 DEF DnsInv
<1>6. CASE UNCHANGED Dns!vars
    <2>1. UNCHANGED <<pc, ctx, resolved, result, answers, rest, seen, ips>>
        BY <1>6 DEF Dns!vars
    <2>2. UNCHANGED DedupeInv /\ UNCHANGED Deduped(Len(answers))
        BY <2>1 DEF DedupeInv, Deduped, First, Taken
    <2> QED BY <2>1, <2>2 DEF DnsInv
<1> QED BY <1>1, <1>2, <1>3, <1>4, <1>5, <1>6 DEF Dns!Next, Dns!Returned

\* What is left behind is the answer without its repetitions.
LEMMA DnsIsSound == DnsInv => Dns!ResolvedIsTheAnswer
<1> SUFFICES ASSUME DnsInv, result.status = "pass"
             PROVE  Dns!ResolvedIsTheAnswer
    BY DEF DnsInv, Dns!ResolvedIsTheAnswer
<1> DEFINE first(ip) == CHOOSE k \in 1..Len(answers) :
                            answers[k] = ip /\ \A j \in 1..k - 1 : answers[j] # ip
<1>1. /\ resolved = ips /\ Deduped(Len(answers))
      /\ Len(answers) \in Nat /\ Len(ips) \in Nat
    BY DEF DnsInv
<1>2. ASSUME NEW p, NEW ip, First(p, ip) PROVE first(ip) = p
    <2>1. First(first(ip), ip)
        BY <1>2 DEF First
    <2>2. ASSUME NEW a \in 1..Len(answers), NEW b \in 1..Len(answers), First(a, ip), First(b, ip)
          PROVE  ~(a < b)
        <3>1. a < b => a \in 1..b - 1
            BY <1>1, <2>2
        <3> QED BY <2>2, <3>1 DEF First
    <2>3. /\ p \in 1..Len(answers) /\ first(ip) \in 1..Len(answers)
        BY <1>2, <2>1 DEF First
    <2>4. ~(p < first(ip)) /\ ~(first(ip) < p)
        BY <1>2, <2>1, <2>2, <2>3
    <2> HIDE DEF first
    <2> QED BY <1>1, <2>3, <2>4
<1>3. {resolved[k] : k \in 1..Len(resolved)} = {answers[k] : k \in 1..Len(answers)}
    <2>1. \A k \in 1..Len(ips) : \E p \in 1..Len(answers) : answers[p] = ips[k]
        BY <1>1 DEF Deduped, First
    <2>2. \A p \in 1..Len(answers) : \E k \in 1..Len(ips) : ips[k] = answers[p]
        BY <1>1 DEF Deduped
    <2>3. {ips[k] : k \in 1..Len(ips)} \subseteq {answers[k] : k \in 1..Len(answers)}
        BY <2>1
    <2>4. {answers[k] : k \in 1..Len(answers)} \subseteq {ips[k] : k \in 1..Len(ips)}
        BY <2>2
    <2> QED BY <1>1, <2>3, <2>4
<1>4. ASSUME NEW j \in 1..Len(resolved), NEW k \in 1..Len(resolved), j < k
      PROVE  first(resolved[j]) < first(resolved[k])
    <2>1. PICK p \in 1..Len(answers), q \in 1..Len(answers) :
              p < q /\ First(p, resolved[j]) /\ First(q, resolved[k])
        BY <1>1, <1>4 DEF Deduped
    <2>2. first(resolved[j]) = p /\ first(resolved[k]) = q
        BY <1>2, <2>1
    <2> HIDE DEF first
    <2> QED BY <2>1, <2>2
<1> QED BY <1>3, <1>4 DEF Dns!ResolvedIsTheAnswer

\* One step of the contract of a check whose status goes from s to t, or none.
Answers(check, s, t) ==
    \/ t = s /\ ctx' = ctx
    \/ s = "none" /\ \E a \in OutcomesOf(check, ctx) : t = a.status /\ ctx' = a.ctx

LEMMA AnswerIsOne ==
    ASSUME NEW O, NEW s, NEW c, Answer(s, c) \in O
    PROVE  \E a \in O : s = a.status /\ c = a.ctx
<1>1. Answer(s, c).status = s /\ Answer(s, c).ctx = c
    BY DEF Answer
<1> QED BY <1>1

LEMMA DnsAnswers ==
    ASSUME DnsInv, [Dns!Next]_(Dns!vars)
    PROVE  Answers("dns", result.status, result'.status)
<1>1. OutcomesOf("dns", ctx) = DnsOutcomes(ctx)
    BY DEF OutcomesOf
<1>2. CASE Dns!Skip
    <2>1. /\ ~ctx.host /\ result'.status = "skip" /\ result.status = "none" /\ ctx' = ctx
        BY <1>2 DEF Dns!Skip, Dns!Return, DnsInv
    <2>2. Answer("skip", ctx) \in DnsOutcomes(ctx)
        BY <2>1 DEF DnsOutcomes
    <2> QED BY <1>1, <2>1, <2>2, AnswerIsOne DEF Answers
<1>3. CASE Dns!Unresolved \/ Dns!NoAddress
    <2>1. ctx.host /\ result'.status = "fail" /\ result.status = "none" /\ ctx' = ctx
        <3>1. /\ pc \in {"lookup", "dedupe"} /\ ctx' = ctx
              /\ \E w : Dns!Return("fail", w)
            BY <1>3 DEF Dns!Unresolved, Dns!NoAddress
        <3> QED BY <3>1 DEF Dns!Return, DnsInv
    <2>2. Answer("fail", ctx) \in DnsOutcomes(ctx)
        BY <2>1 DEF DnsOutcomes
    <2> QED BY <1>1, <2>1, <2>2, AnswerIsOne DEF Answers
<1>4. CASE Dns!Pass
    <2>1. /\ ctx.host /\ result'.status = "pass" /\ result.status = "none"
          /\ ctx' = [ctx EXCEPT !.ips = TRUE]
        BY <1>4 DEF Dns!Pass, Dns!Return, DnsInv
    <2>2. Answer("pass", ctx') \in DnsOutcomes(ctx)
        BY <2>1 DEF DnsOutcomes
    <2> QED BY <1>1, <2>1, <2>2, AnswerIsOne DEF Answers
<1>5. CASE Dns!Ask \/ Dns!Resolved \/ Dns!TakeAnswer \/ UNCHANGED Dns!vars
    BY <1>5 DEF Dns!Ask, Dns!Resolved, Dns!TakeAnswer, Dns!vars, Answers
<1> QED BY <1>2, <1>3, <1>4, <1>5 DEF Dns!Next, Dns!Returned

-----------------------------------------------------------------------------
(* The binding: a response with this request's id carries an address the   *)
(* server has seen.                                                        *)

Response == [type : {"success", "error", "no_address", "garbage"}, tx : BOOLEAN,
             addr : Addrs \cup {NoAddr}]

StunInv ==
    /\ pc \in {"start", "recv", "done"}
    /\ ctx \in ProbeContext
    /\ pc = "done" <=> result.status # "none"
    /\ pc = "recv" => HasTarget(ctx)
    /\ requests \subseteq {"binding"} /\ datagrams \subseteq Response
    /\ mapping \in Addrs /\ seen \subseteq Addrs /\ expired \in BOOLEAN
    /\ \A d \in datagrams : d.type = "success" /\ d.tx => d.addr \in seen
    /\ result.status = "pass" => ctx.srflx \in seen
    /\ result.status # "pass" => ctx.srflx = NoAddr

LEMMA InitStun == Stun!Init => StunInv
<1> SUFFICES ASSUME Stun!Init PROVE StunInv
    OBVIOUS
<1>1. ctx \in ProbeContext /\ ctx.srflx = NoAddr
    <2>1. PICK host \in BOOLEAN, port \in BOOLEAN, known \in BOOLEAN :
              ctx = [NewContext(host, port, FALSE, FALSE) EXCEPT !.ips = known]
        BY DEF Stun!Init, Stun!NewContext, NewContext, Stun!NoSession, NoSession
    <2> QED BY <2>1, FreshContext
<1>2. /\ pc = "start" /\ result.status = "none" /\ requests = {} /\ datagrams = {}
      /\ mapping \in Addrs /\ seen = {} /\ expired = FALSE
    BY DEF Stun!Init
<1> QED BY <1>1, <1>2 DEF StunInv

\* The address a datagram that passes is taken to say.
LEMMA SrflxMeans ==
    ASSUME StunInv, NEW d \in datagrams, Stun!Srflx(d) # NoAddr
    PROVE  Stun!Srflx(d) \in seen /\ Stun!Srflx(d) \in Addrs
<1>1. d.type = "success" /\ d.tx /\ Stun!Srflx(d) = d.addr
    BY DEF Stun!Srflx
<1> QED BY <1>1 DEF StunInv

LEMMA RecvMeans ==
    ASSUME StunInv, Stun!Recv
    PROVE  /\ pc = "recv" /\ pc' = "done" /\ result.status = "none" /\ HasTarget(ctx)
           /\ \/ \E a \in Addrs : /\ a \in seen /\ result'.status = "pass"
                                  /\ ctx' = [ctx EXCEPT !.srflx = a]
              \/ result'.status = "fail" /\ ctx' = ctx
           /\ datagrams' \subseteq datagrams
           /\ UNCHANGED <<requests, mapping, seen, expired>>
<1>1. PICK d \in datagrams :
          /\ IF Stun!Srflx(d) # NoAddr
             THEN /\ Stun!Return("pass", "srflx")
                  /\ ctx' = [ctx EXCEPT !.srflx = Stun!Srflx(d)]
             ELSE Stun!Return("fail", "bad response") /\ UNCHANGED ctx
          /\ datagrams' \in {datagrams, datagrams \ {d}}
    BY DEF Stun!Recv
<1>2. /\ pc = "recv" /\ result.status = "none" /\ HasTarget(ctx)
      /\ UNCHANGED <<requests, mapping, seen, expired>>
    BY DEF Stun!Recv, StunInv
<1>3. CASE Stun!Srflx(d) # NoAddr
    <2>1. Stun!Srflx(d) \in seen /\ Stun!Srflx(d) \in Addrs
        BY <1>3, SrflxMeans
    <2>2. pc' = "done" /\ result'.status = "pass"
        BY <1>1, <1>3 DEF Stun!Return
    <2> QED BY <1>1, <1>2, <1>3, <2>1, <2>2
<1>4. CASE Stun!Srflx(d) = NoAddr
    <2>1. Stun!Return("fail", "bad response") /\ ctx' = ctx
        BY <1>1, <1>4
    <2>2. pc' = "done" /\ result'.status = "fail"
        BY <2>1 DEF Stun!Return
    <2> QED BY <1>1, <1>2, <2>1, <2>2
<1> QED BY <1>3, <1>4

\* Datagrams come from the server, which has seen the mapping, or say that
\* they are nobody's.
LEMMA WorldKeepsStun ==
    ASSUME StunInv, Stun!World
    PROVE  StunInv'
<1>1. UNCHANGED <<pc, ctx, result>>
    BY DEF Stun!World, Stun!Serve, Stun!Lose, Stun!Stray, Stun!Rebind, Stun!Expire
<1>2. CASE Stun!Serve
    <2>1. /\ seen' = seen \cup {mapping} /\ requests' \in {requests, {}}
          /\ UNCHANGED <<mapping, expired>>
        BY <1>2 DEF Stun!Serve
    <2>2. PICK d : /\ datagrams' = datagrams \cup {d}
                   /\ d \in Response /\ (d.type = "success" /\ d.tx => d.addr \in seen')
        <3>1. CASE datagrams' = datagrams \cup {[type |-> "success", tx |-> TRUE, addr |-> mapping]}
            <4> DEFINE d == [type |-> "success", tx |-> TRUE, addr |-> mapping]
            <4>1. d \in Response /\ d.addr \in seen' /\ datagrams' = datagrams \cup {d}
                BY <2>1, <3>1 DEF StunInv, Response
            <4> HIDE DEF d
            <4> QED BY <4>1
        <3>2. CASE \E type \in {"error", "no_address", "garbage"} :
                       datagrams' = datagrams \cup {[type |-> type, tx |-> TRUE, addr |-> NoAddr]}
            <4>1. PICK type \in {"error", "no_address", "garbage"} :
                      datagrams' = datagrams \cup {[type |-> type, tx |-> TRUE, addr |-> NoAddr]}
                BY <3>2
            <4> DEFINE d == [type |-> type, tx |-> TRUE, addr |-> NoAddr]
            <4>2. d \in Response /\ d.type # "success" /\ datagrams' = datagrams \cup {d}
                BY <4>1 DEF Response
            <4> HIDE DEF d
            <4> QED BY <4>2
        <3> QED BY <1>2, <3>1, <3>2 DEF Stun!Serve
    <2> QED BY <1>1, <2>1, <2>2 DEF StunInv
<1>3. CASE Stun!Lose
    <2>1. /\ requests' \subseteq requests /\ datagrams' \subseteq datagrams
          /\ UNCHANGED <<mapping, seen, expired>>
        BY <1>3 DEF Stun!Lose
    <2> QED BY <1>1, <2>1 DEF StunInv
<1>4. CASE Stun!Stray
    <2>1. /\ UNCHANGED <<requests, mapping, seen, expired>>
          /\ \E a \in Addrs : \E d \in {[type |-> "success", tx |-> FALSE, addr |-> a],
                                       [type |-> "garbage", tx |-> FALSE, addr |-> NoAddr]} :
                datagrams' = datagrams \cup {d}
        BY <1>4 DEF Stun!Stray
    <2>2. PICK d \in Response : datagrams' = datagrams \cup {d} /\ ~d.tx
        <3>1. PICK a \in Addrs : \E d \in {[type |-> "success", tx |-> FALSE, addr |-> a],
                                            [type |-> "garbage", tx |-> FALSE, addr |-> NoAddr]} :
                  datagrams' = datagrams \cup {d}
            BY <2>1
        <3>2. PICK d \in {[type |-> "success", tx |-> FALSE, addr |-> a],
                          [type |-> "garbage", tx |-> FALSE, addr |-> NoAddr]} :
                  datagrams' = datagrams \cup {d}
            BY <3>1
        <3>3. \/ d = [type |-> "success", tx |-> FALSE, addr |-> a]
              \/ d = [type |-> "garbage", tx |-> FALSE, addr |-> NoAddr]
            BY <3>2
        <3>4. d \in Response /\ ~d.tx
            <4> DEFINE x == [type |-> "success", tx |-> FALSE, addr |-> a]
                       y == [type |-> "garbage", tx |-> FALSE, addr |-> NoAddr]
            <4>1. x \in Response /\ y \in Response /\ ~x.tx /\ ~y.tx
                BY DEF Response
            <4>2. d = x \/ d = y
                BY <3>3
            <4> HIDE DEF x, y
            <4> QED BY <4>1, <4>2
        <3> QED BY <3>2, <3>4
    <2> QED BY <1>1, <2>1, <2>2 DEF StunInv
<1>5. CASE Stun!Rebind
    BY <1>1, <1>5 DEF Stun!Rebind, StunInv
<1>6. CASE Stun!Expire
    BY <1>1, <1>6 DEF Stun!Expire, StunInv
<1> QED BY <1>2, <1>3, <1>4, <1>5, <1>6 DEF Stun!World

LEMMA NextStun == StunInv /\ [Stun!Next]_(Stun!vars) => StunInv'
<1> SUFFICES ASSUME StunInv, [Stun!Next]_(Stun!vars) PROVE StunInv'
    OBVIOUS
<1>1. CASE Stun!Skip \/ Stun!LocalError \/ Stun!RecvError \/ Stun!Timeout
    <2>1. /\ pc # "done" /\ UNCHANGED <<ctx, requests, datagrams, mapping, seen, expired>>
          /\ \E s \in {"skip", "fail"} : \E w : Stun!Return(s, w)
        BY <1>1 DEF Stun!Skip, Stun!LocalError, Stun!RecvError, Stun!Timeout
    <2>2. pc' = "done" /\ result'.status \in {"skip", "fail"}
        BY <2>1 DEF Stun!Return
    <2> QED BY <2>1, <2>2 DEF StunInv
<1>2. CASE Stun!Send
    <2>1. HasTarget(ctx)
        BY <1>2 DEF Stun!Send, Stun!HasTarget, HasTarget
    <2> QED BY <1>2, <2>1 DEF Stun!Send, StunInv
<1>3. CASE Stun!Recv
    <2>1. CASE \E a \in Addrs : /\ a \in seen /\ result'.status = "pass"
                                /\ ctx' = [ctx EXCEPT !.srflx = a]
        <3>1. ctx' \in ProbeContext /\ ctx'.srflx \in seen
            BY <2>1 DEF StunInv, ProbeContext
        <3> QED BY <1>3, <2>1, <3>1, RecvMeans DEF StunInv
    <2>2. CASE result'.status = "fail" /\ ctx' = ctx
        BY <1>3, <2>2, RecvMeans DEF StunInv
    <2> QED BY <1>3, <2>1, <2>2, RecvMeans
<1>4. CASE Stun!World
    BY <1>4, WorldKeepsStun
<1>5. CASE UNCHANGED Stun!vars
    BY <1>5 DEF Stun!vars, StunInv
<1> QED BY <1>1, <1>2, <1>3, <1>4, <1>5 DEF Stun!Next, Stun!Check, Stun!Returned

LEMMA StunIsSound == StunInv => Stun!TypeOK /\ Stun!SrflxWasSeen
<1> SUFFICES ASSUME StunInv PROVE Stun!TypeOK /\ Stun!SrflxWasSeen
    OBVIOUS
<1>1. (pc = "done") = (result.status # "none")
    BY DEF StunInv
<1>2. ctx \in Stun!ProbeContext /\ datagrams \subseteq Stun!Datagram
    BY DEF StunInv, Stun!ProbeContext, ProbeContext, Stun!Sessions, Sessions,
           Stun!NoSession, NoSession, Stun!Datagram, Response
<1>3. Stun!TypeOK
    BY <1>1, <1>2 DEF Stun!TypeOK, StunInv
<1> QED BY <1>3 DEF StunInv, Stun!SrflxWasSeen

LEMMA StunAnswers ==
    ASSUME StunInv, [Stun!Next]_(Stun!vars)
    PROVE  Answers("stun", result.status, result'.status)
<1>1. OutcomesOf("stun", ctx) = StunOutcomes(ctx)
    BY DEF OutcomesOf
<1>2. CASE Stun!Skip
    <2>1. /\ ~HasTarget(ctx) /\ result'.status = "skip" /\ result.status = "none" /\ ctx' = ctx
        BY <1>2 DEF Stun!Skip, Stun!Return, StunInv, Stun!HasTarget, HasTarget
    <2>2. Answer("skip", ctx) \in StunOutcomes(ctx)
        BY <2>1 DEF StunOutcomes
    <2> QED BY <1>1, <2>1, <2>2, AnswerIsOne DEF Answers
<1>3. CASE Stun!LocalError \/ Stun!RecvError \/ Stun!Timeout
    <2>1. /\ HasTarget(ctx) /\ pc # "done" /\ ctx' = ctx
          /\ \E w : Stun!Return("fail", w)
        BY <1>3 DEF Stun!LocalError, Stun!RecvError, Stun!Timeout, StunInv,
                    Stun!HasTarget, HasTarget
    <2>2. result'.status = "fail" /\ result.status = "none"
        BY <2>1 DEF Stun!Return, StunInv
    <2>3. Answer("fail", ctx) \in StunOutcomes(ctx)
        BY <2>1 DEF StunOutcomes
    <2> QED BY <1>1, <2>1, <2>2, <2>3, AnswerIsOne DEF Answers
<1>4. CASE Stun!Recv
    <2>1. CASE \E a \in Addrs : /\ a \in seen /\ result'.status = "pass"
                                /\ ctx' = [ctx EXCEPT !.srflx = a]
        <3>1. Answer("pass", ctx') \in StunOutcomes(ctx)
            BY <1>4, <2>1, RecvMeans DEF StunOutcomes
        <3> QED BY <1>1, <1>4, <2>1, <3>1, RecvMeans, AnswerIsOne DEF Answers
    <2>2. CASE result'.status = "fail" /\ ctx' = ctx
        <3>1. Answer("fail", ctx) \in StunOutcomes(ctx)
            BY <1>4, RecvMeans DEF StunOutcomes
        <3> QED BY <1>1, <1>4, <2>2, <3>1, RecvMeans, AnswerIsOne DEF Answers
    <2> QED BY <1>4, <2>1, <2>2, RecvMeans
<1>5. CASE Stun!Send \/ Stun!World \/ UNCHANGED Stun!vars
    BY <1>5 DEF Stun!Send, Stun!World, Stun!Serve, Stun!Lose, Stun!Stray, Stun!Rebind,
                Stun!Expire, Stun!vars, Answers
<1> QED BY <1>2, <1>3, <1>4, <1>5 DEF Stun!Next, Stun!Check, Stun!Returned

-----------------------------------------------------------------------------
(* Signaling: the request says whether it is authorized, and the answer    *)
(* stays what it was.                                                      *)

WsInv ==
    /\ pc \in {"start", "connect", "close", "done"}
    /\ ctx \in ProbeContext
    /\ pc = "done" <=> result.status # "none"
    /\ result.status \in {"none", "pass", "fail"}
    /\ auth \in {"none", "valid", "invalid"}
    /\ request \in {"none", "plain", "authorized"}
    /\ answer \in {"none", "101", "refusal"}
    /\ pc = "start" => request = "none"
    /\ pc = "connect" => auth # "invalid"
    /\ answer # "none" => request # "none"
    /\ request # "none" => auth # "invalid" /\ (request = "authorized" <=> auth = "valid")
    /\ answer = "101" /\ endpoint = "gated" => request = "authorized"
    /\ pc = "close" => answer = "101"
    /\ result.status = "pass" => answer = "101" /\ result.authOk = (auth # "none")

LEMMA InitWs == Ws!Init => WsInv
<1> SUFFICES ASSUME Ws!Init PROVE WsInv
    OBVIOUS
<1>1. ctx \in ProbeContext
    <2>1. PICK host \in BOOLEAN, port \in BOOLEAN, known \in BOOLEAN :
              ctx = [NewContext(host, port, FALSE, FALSE) EXCEPT !.ips = known]
        BY DEF Ws!Init, Ws!NewContext, NewContext, Ws!NoSession, NoSession
    <2> QED BY <2>1, FreshContext
<1>2. /\ pc = "start" /\ result.status = "none" /\ request = "none" /\ answer = "none"
      /\ auth \in {"none", "valid", "invalid"}
    BY DEF Ws!Init
<1> QED BY <1>1, <1>2 DEF WsInv

LEMMA NextWs == WsInv /\ [Ws!Next]_(Ws!vars) => WsInv'
<1> SUFFICES ASSUME WsInv, [Ws!Next]_(Ws!vars) PROVE WsInv'
    OBVIOUS
<1>1. CASE Ws!InvalidUrl \/ Ws!InvalidHeader \/ Ws!ConnectError \/ Ws!Timeout
    <2>1. /\ UNCHANGED <<request, answer, endpoint>>
          /\ \E w : Ws!Return("fail", w, FALSE)
        BY <1>1 DEF Ws!InvalidUrl, Ws!InvalidHeader, Ws!ConnectError, Ws!Timeout, Ws!wire
    <2>2. pc' = "done" /\ result'.status = "fail" /\ UNCHANGED <<ctx, auth>>
        BY <2>1 DEF Ws!Return
    <2> QED BY <2>1, <2>2 DEF WsInv
<1>2. CASE Ws!Close
    <2>1. /\ pc = "close" /\ UNCHANGED <<request, answer, endpoint>>
          /\ pc' = "done" /\ UNCHANGED <<ctx, auth>>
          /\ result'.status = "pass" /\ result'.authOk = (auth # "none")
        BY <1>2 DEF Ws!Close, Ws!Return, Ws!wire
    <2> QED BY <2>1 DEF WsInv
<1>3. CASE Ws!Connect
    BY <1>3 DEF Ws!Connect, Ws!wire, WsInv
<1>4. CASE Ws!Request
    <2>1. /\ pc = "connect" /\ request = "none" /\ answer = "none"
          /\ request' = IF auth = "valid" THEN "authorized" ELSE "plain"
          /\ UNCHANGED <<pc, ctx, result, auth, answer, endpoint>>
        BY <1>4 DEF Ws!Request, WsInv
    <2> QED BY <2>1 DEF WsInv
<1>5. CASE Ws!Upgraded
    BY <1>5 DEF Ws!Upgraded, Ws!wire, WsInv
<1>6. CASE Ws!Answer101 \/ Ws!Refuse
    <2>1. /\ request # "none" /\ answer = "none" /\ answer' \in {"101", "refusal"}
          /\ answer' = "101" /\ endpoint = "gated" => request = "authorized"
          /\ UNCHANGED <<pc, ctx, result, auth, request, endpoint>>
        BY <1>6 DEF Ws!Answer101, Ws!Refuse
    <2> QED BY <2>1 DEF WsInv
<1>7. CASE Ws!HangUp \/ Ws!Expire \/ UNCHANGED Ws!vars
    <2>1. UNCHANGED <<pc, ctx, result, auth, request, answer, endpoint>>
        BY <1>7 DEF Ws!HangUp, Ws!Expire, Ws!vars, Ws!wire
    <2> QED BY <2>1 DEF WsInv
<1> QED BY <1>1, <1>2, <1>3, <1>4, <1>5, <1>6, <1>7 DEF Ws!Next, Ws!Returned

LEMMA WsIsSound == WsInv => Ws!TypeOK /\ Ws!AuthOkIsMeant
<1> SUFFICES ASSUME WsInv PROVE Ws!TypeOK /\ Ws!AuthOkIsMeant
    OBVIOUS
<1>1. (pc = "done") = (result.status # "none")
    BY DEF WsInv
<1>2. ctx \in Ws!ProbeContext
    BY DEF WsInv, Ws!ProbeContext, ProbeContext, Ws!Sessions, Sessions, Ws!NoSession, NoSession
<1>3. Ws!TypeOK
    BY <1>1, <1>2 DEF Ws!TypeOK, WsInv
<1>4. ASSUME result.status = "pass"
      PROVE  /\ answer = "101"
             /\ result.authOk = (request = "authorized")
             /\ endpoint = "gated" => result.authOk
    <2>1. answer = "101" /\ result.authOk = (auth # "none")
        BY <1>4 DEF WsInv
    <2>2. (auth # "none") <=> (request = "authorized")
        BY <2>1 DEF WsInv
    <2>3. (auth # "none") = (request = "authorized")
        BY <2>2
    <2>4. endpoint = "gated" => auth # "none"
        BY <2>1, <2>2 DEF WsInv
    <2> QED BY <2>1, <2>3, <2>4
<1> QED BY <1>3, <1>4 DEF Ws!AuthOkIsMeant

LEMMA WsAnswers ==
    ASSUME WsInv, [Ws!Next]_(Ws!vars)
    PROVE  Answers("signaling", result.status, result'.status)
<1>1. OutcomesOf("signaling", ctx) = {Answer("pass", ctx), Answer("fail", ctx)}
    BY DEF OutcomesOf, SignalingOutcomes
<1>2. CASE Ws!InvalidUrl \/ Ws!InvalidHeader \/ Ws!ConnectError \/ Ws!Timeout \/ Ws!Close
    <2>1. pc # "done" /\ \E w, ok : Ws!Return("fail", w, ok) \/ Ws!Return("pass", w, ok)
        BY <1>2 DEF Ws!InvalidUrl, Ws!InvalidHeader, Ws!ConnectError, Ws!Timeout, Ws!Close
    <2>2. result.status = "none" /\ result'.status \in {"fail", "pass"} /\ ctx' = ctx
        BY <2>1 DEF Ws!Return, WsInv
    <2> QED BY <1>1, <2>2, AnswerIsOne DEF Answers
<1>3. CASE \/ Ws!Connect \/ Ws!Request \/ Ws!Upgraded \/ Ws!Answer101 \/ Ws!Refuse
           \/ Ws!HangUp \/ Ws!Expire \/ UNCHANGED Ws!vars
    BY <1>3 DEF Ws!Connect, Ws!Request, Ws!Upgraded, Ws!Answer101, Ws!Refuse, Ws!HangUp,
                Ws!Expire, Ws!vars, Answers
<1> QED BY <1>2, <1>3 DEF Ws!Next, Ws!Returned

-----------------------------------------------------------------------------
(* DTLS: the client is not through before the server's last flight.        *)

DtlsInv ==
    /\ pc \in {"start", "dial", "close", "join", "done"}
    /\ ctx \in ProbeContext
    /\ pc = "done" <=> result.status # "none"
    /\ result.status \in {"none", "pass", "fail", "skip"}
    /\ server \in {"none", "accepting", "closing", "done", "error"}
    /\ flight \in BOOLEAN /\ expired \in BOOLEAN
    /\ mode \in {"loopback", "remote"}
    /\ pc \in {"dial", "close", "join"} /\ mode = "remote" => HasTarget(ctx)
    /\ pc \in {"close", "join"} => flight
    /\ pc = "join" => mode = "loopback"
    /\ result.status = "pass" => flight /\ (mode = "loopback" => server = "done")

LEMMA InitDtls == Dtls!Init => DtlsInv
<1> SUFFICES ASSUME Dtls!Init PROVE DtlsInv
    OBVIOUS
<1>1. ctx \in ProbeContext
    <2>1. PICK host \in BOOLEAN, port \in BOOLEAN, user \in BOOLEAN, pass \in BOOLEAN,
               known \in BOOLEAN :
              ctx = [NewContext(host, port, user, pass) EXCEPT !.ips = known]
        BY DEF Dtls!Init, Dtls!NewContext, NewContext, Dtls!NoSession, NoSession
    <2> QED BY <2>1, FreshContext
<1>2. /\ pc = "start" /\ result.status = "none" /\ server = "none" /\ flight = FALSE
      /\ expired = FALSE /\ mode \in {"loopback", "remote"}
    BY DEF Dtls!Init
<1> QED BY <1>1, <1>2 DEF DtlsInv

\* The steps with which `run` returns.
LEMMA DtlsReturns ==
    ASSUME DtlsInv, NEW s \in {"pass", "fail", "skip"}, NEW w, Dtls!Return(s, w), pc # "done",
           UNCHANGED <<server, flight, expired, mode>>,
           s = "skip" => mode = "remote" /\ ~HasTarget(ctx),
           s = "fail" => (mode = "remote" => HasTarget(ctx)),
           s = "pass" => /\ mode = "remote" => HasTarget(ctx)
                         /\ flight /\ (mode = "loopback" => server = "done")
    PROVE  DtlsInv' /\ Answers(mode, result.status, result'.status)
<1>1. pc' = "done" /\ result'.status = s /\ ctx' = ctx /\ result.status = "none"
    BY DEF Dtls!Return, DtlsInv
<1>2. DtlsInv'
    BY <1>1 DEF DtlsInv
<1>3. OutcomesOf(mode, ctx) = IF mode = "loopback" THEN DtlsLoopbackOutcomes(ctx)
                              ELSE DtlsRemoteOutcomes(ctx)
    BY DEF DtlsInv, OutcomesOf
<1>4. Answer(s, ctx) \in OutcomesOf(mode, ctx)
    <2>1. CASE mode = "loopback"
        BY <1>3, <2>1 DEF DtlsLoopbackOutcomes
    <2>2. CASE mode = "remote"
        BY <1>3, <2>2 DEF DtlsRemoteOutcomes
    <2> QED BY <2>1, <2>2 DEF DtlsInv
<1> QED BY <1>1, <1>2, <1>4, AnswerIsOne DEF Answers

\* Every step keeps the invariant and is one of the contract, or none.
LEMMA NextDtls ==
    ASSUME DtlsInv, [Dtls!Next]_(Dtls!vars)
    PROVE  DtlsInv' /\ mode' = mode /\ Answers(mode, result.status, result'.status)
<1>0. mode' = mode
    BY DEF Dtls!Next, Dtls!ClientNext, Dtls!ServerNext, Dtls!Skip, Dtls!StartRemote,
           Dtls!StartLoopback, Dtls!ListenError, Dtls!DialError, Dtls!Handshaken, Dtls!Close,
           Dtls!Join, Dtls!Timeout, Dtls!LastFlight, Dtls!Accept, Dtls!AcceptError,
           Dtls!ServerClose, Dtls!Expire, Dtls!Returned, Dtls!vars, Dtls!setting
<1>1. CASE Dtls!Skip
    <2>1. /\ Dtls!Return("skip", "no target") /\ mode = "remote" /\ ~HasTarget(ctx)
          /\ pc # "done" /\ UNCHANGED <<server, flight, expired, mode>>
        BY <1>1 DEF Dtls!Skip, Dtls!setting, Dtls!HasTarget, HasTarget
    <2> QED BY <1>0, <2>1, DtlsReturns
<1>2. CASE Dtls!ListenError \/ Dtls!DialError \/ Dtls!Timeout
    <2>1. /\ \E w : Dtls!Return("fail", w)
          /\ pc # "done" /\ UNCHANGED <<server, flight, expired, mode>>
          /\ mode = "remote" => HasTarget(ctx)
        BY <1>2 DEF Dtls!ListenError, Dtls!DialError, Dtls!Timeout, Dtls!setting, DtlsInv
    <2> QED BY <1>0, <2>1, DtlsReturns
<1>3. CASE Dtls!Close
    <2>1. CASE mode = "loopback"
        <3>1. pc' = "join" /\ UNCHANGED <<ctx, result, server, flight, expired, mode>> /\ flight
            BY <1>3, <2>1 DEF Dtls!Close, Dtls!setting, DtlsInv
        <3>2. DtlsInv'
            BY <1>3, <2>1, <3>1 DEF DtlsInv, Dtls!Close
        <3> QED BY <1>0, <3>1, <3>2 DEF Answers
    <2>2. CASE mode = "remote"
        <3>1. /\ Dtls!Return("pass", "handshake") /\ pc # "done" /\ flight /\ HasTarget(ctx)
              /\ UNCHANGED <<server, flight, expired, mode>>
            BY <1>3, <2>2 DEF Dtls!Close, Dtls!setting, DtlsInv
        <3> QED BY <1>0, <2>2, <3>1, DtlsReturns
    <2> QED BY <2>1, <2>2 DEF DtlsInv
<1>4. CASE Dtls!Join
    <2>1. /\ pc # "done" /\ flight /\ mode = "loopback"
          /\ UNCHANGED <<server, flight, expired, mode>>
          /\ \/ server = "done" /\ Dtls!Return("pass", "handshake")
             \/ Dtls!Return("fail", "handshake")
        BY <1>4 DEF Dtls!Join, Dtls!setting, DtlsInv
    <2> QED BY <1>0, <2>1, DtlsReturns
<1>5. CASE Dtls!StartRemote
    <2>1. /\ mode = "remote" /\ HasTarget(ctx) /\ pc' = "dial" /\ pc = "start"
          /\ server' \in {"accepting", "none"} /\ UNCHANGED <<ctx, result, flight, expired>>
        BY <1>5 DEF Dtls!StartRemote, Dtls!setting, Dtls!HasTarget, HasTarget
    <2> QED BY <1>0, <2>1 DEF DtlsInv, Answers
<1>6. CASE Dtls!StartLoopback
    <2>1. /\ mode = "loopback" /\ pc' = "dial" /\ pc = "start"
          /\ server' = "accepting" /\ UNCHANGED <<ctx, result, flight, expired>>
        BY <1>6 DEF Dtls!StartLoopback
    <2> QED BY <1>0, <2>1 DEF DtlsInv, Answers
<1>7. CASE Dtls!Handshaken
    <2>1. pc = "dial" /\ flight /\ pc' = "close" /\ UNCHANGED <<ctx, result, server, flight, expired>>
        BY <1>7 DEF Dtls!Handshaken
    <2> QED BY <1>0, <2>1 DEF DtlsInv, Answers
<1>8. CASE Dtls!ServerNext
    <2>1. /\ UNCHANGED <<pc, ctx, result, expired>>
          /\ server' \in {"accepting", "closing", "done", "error"}
          /\ flight' = TRUE \/ flight' = flight
          /\ server # "done"
        BY <1>8 DEF Dtls!ServerNext, Dtls!LastFlight, Dtls!Accept, Dtls!AcceptError,
                    Dtls!ServerClose
    <2>2. flight \in BOOLEAN /\ (flight' = TRUE \/ flight' = flight)
        BY <2>1 DEF DtlsInv
    <2>3. flight' \in BOOLEAN /\ (flight => flight')
        BY <2>2, Zenon
    <2>4. result.status = "pass" => mode = "remote" /\ flight
        BY <2>1 DEF DtlsInv
    <2>5. DtlsInv'
        BY <1>0, <2>1, <2>3, <2>4 DEF DtlsInv
    <2> QED BY <1>0, <2>1, <2>5 DEF Answers
<1>9. CASE Dtls!Expire \/ UNCHANGED Dtls!vars
    <2>1. UNCHANGED <<pc, ctx, result, server, flight>> /\ expired' \in BOOLEAN
        BY <1>9 DEF Dtls!Expire, Dtls!vars, DtlsInv
    <2> QED BY <1>0, <2>1 DEF DtlsInv, Answers
<1> QED
    BY <1>1, <1>2, <1>3, <1>4, <1>5, <1>6, <1>7, <1>8, <1>9
       DEF Dtls!Next, Dtls!ClientNext, Dtls!Returned

LEMMA DtlsIsSound == DtlsInv => Dtls!TypeOK /\ Dtls!PassMeansBothEnds
<1> SUFFICES ASSUME DtlsInv PROVE Dtls!TypeOK /\ Dtls!PassMeansBothEnds
    OBVIOUS
<1>1. (pc = "done") = (result.status # "none")
    BY DEF DtlsInv
<1>2. ctx \in Dtls!ProbeContext
    BY DEF DtlsInv, Dtls!ProbeContext, ProbeContext, Dtls!Sessions, Sessions,
           Dtls!NoSession, NoSession
<1> QED BY <1>1, <1>2 DEF Dtls!TypeOK, Dtls!PassMeansBothEnds, DtlsInv

-----------------------------------------------------------------------------
(* Host addresses: the predicates of the code are the blocks they stand    *)
(* for, whatever the address.                                              *)

\* An octet is its bits.
LEMMA OctetIsBits ==
    ASSUME NEW x \in Ice!Octet
    PROVE  /\ \A i \in 1..8 : Ice!Bit(x, i) \in {0, 1}
           /\ x \div 16 = 8 * Ice!Bit(x, 1) + 4 * Ice!Bit(x, 2) + 2 * Ice!Bit(x, 3) + Ice!Bit(x, 4)
           /\ x % 16 = 8 * Ice!Bit(x, 5) + 4 * Ice!Bit(x, 6) + 2 * Ice!Bit(x, 7) + Ice!Bit(x, 8)
<1>1. /\ Ice!Bit(x, 1) = (x \div 128) % 2 /\ Ice!Bit(x, 2) = (x \div 64) % 2
      /\ Ice!Bit(x, 3) = (x \div 32) % 2 /\ Ice!Bit(x, 4) = (x \div 16) % 2
      /\ Ice!Bit(x, 5) = (x \div 8) % 2 /\ Ice!Bit(x, 6) = (x \div 4) % 2
      /\ Ice!Bit(x, 7) = (x \div 2) % 2 /\ Ice!Bit(x, 8) = (x \div 1) % 2
    BY DEF Ice!Bit, Ice!Weight
<1>2. \A i \in 1..8 : i = 1 \/ i = 2 \/ i = 3 \/ i = 4 \/ i = 5 \/ i = 6 \/ i = 7 \/ i = 8
    OBVIOUS
<1>3. \A n \in Nat : n % 2 \in {0, 1}
    OBVIOUS
<1>4. \A i \in 1..8 : Ice!Bit(x, i) \in {0, 1}
    <2>1. /\ x \div 128 \in Nat /\ x \div 64 \in Nat /\ x \div 32 \in Nat /\ x \div 16 \in Nat
          /\ x \div 8 \in Nat /\ x \div 4 \in Nat /\ x \div 2 \in Nat /\ x \div 1 \in Nat
        BY DEF Ice!Octet
    <2> QED BY <1>1, <1>2, <1>3, <2>1
<1>5. x \div 16 = 8 * ((x \div 128) % 2) + 4 * ((x \div 64) % 2)
                      + 2 * ((x \div 32) % 2) + ((x \div 16) % 2)
    BY DEF Ice!Octet
<1>6. x % 16 = 8 * ((x \div 8) % 2) + 4 * ((x \div 4) % 2)
                   + 2 * ((x \div 2) % 2) + ((x \div 1) % 2)
    BY DEF Ice!Octet
<1> QED BY <1>1, <1>4, <1>5, <1>6

LEMMA SameBits ==
    ASSUME NEW x \in Ice!Octet, NEW y \in Ice!Octet, \A i \in 1..8 : Ice!Bit(x, i) = Ice!Bit(y, i)
    PROVE  x = y
<1>1. /\ Ice!Bit(x, 1) = Ice!Bit(y, 1) /\ Ice!Bit(x, 2) = Ice!Bit(y, 2)
      /\ Ice!Bit(x, 3) = Ice!Bit(y, 3) /\ Ice!Bit(x, 4) = Ice!Bit(y, 4)
      /\ Ice!Bit(x, 5) = Ice!Bit(y, 5) /\ Ice!Bit(x, 6) = Ice!Bit(y, 6)
      /\ Ice!Bit(x, 7) = Ice!Bit(y, 7) /\ Ice!Bit(x, 8) = Ice!Bit(y, 8)
    OBVIOUS
<1>2. x \div 16 = y \div 16 /\ x % 16 = y % 16
    BY <1>1, OctetIsBits
<1>3. x = 16 * (x \div 16) + (x % 16) /\ y = 16 * (y \div 16) + (y % 16)
    BY DEF Ice!Octet
<1> QED BY <1>2, <1>3

\* A prefix of whole octets.
LEMMA InBlockByOctets ==
    ASSUME NEW o, NEW b, NEW m \in Nat, NEW n, n = 8 * m,
           \A i \in 1..m : o[i] \in Ice!Octet /\ b[i] \in Ice!Octet
    PROVE  Ice!InBlock(o, b, n) <=> \A i \in 1..m : o[i] = b[i]
<1>1. ASSUME \A i \in 1..m : o[i] = b[i], NEW k \in 0..n - 1
      PROVE  Ice!Bit(o[(k \div 8) + 1], (k % 8) + 1) = Ice!Bit(b[(k \div 8) + 1], (k % 8) + 1)
    <2>1. (k \div 8) + 1 \in 1..m
        BY <1>1
    <2> QED BY <1>1, <2>1
<1>2. ASSUME Ice!InBlock(o, b, n), NEW i \in 1..m
      PROVE  o[i] = b[i]
    <2>1. ASSUME NEW j \in 1..8 PROVE Ice!Bit(o[i], j) = Ice!Bit(b[i], j)
        <3> DEFINE k == 8 * (i - 1) + (j - 1)
        <3>1. k \in 0..n - 1 /\ (k \div 8) + 1 = i /\ (k % 8) + 1 = j
            BY <2>1
        <3> HIDE DEF k
        <3>2. Ice!Bit(o[(k \div 8) + 1], (k % 8) + 1) = Ice!Bit(b[(k \div 8) + 1], (k % 8) + 1)
            BY <1>2, <3>1 DEF Ice!InBlock
        <3> QED BY <3>1, <3>2
    <2> QED BY <2>1, SameBits
<1> QED BY <1>1, <1>2 DEF Ice!InBlock

\* A prefix of octets and bits; those after it do not matter.
LEMMA InBlockByBits ==
    ASSUME NEW o, NEW b, NEW m \in Nat, NEW r \in 0..7, NEW n, n = 8 * m + r
    PROVE  Ice!InBlock(o, b, n) <=>
              /\ Ice!InBlock(o, b, 8 * m)
              /\ \A j \in 1..r : Ice!Bit(o[m + 1], j) = Ice!Bit(b[m + 1], j)
<1>1. ASSUME Ice!InBlock(o, b, n)
      PROVE  /\ Ice!InBlock(o, b, 8 * m)
             /\ \A j \in 1..r : Ice!Bit(o[m + 1], j) = Ice!Bit(b[m + 1], j)
    <2>1. Ice!InBlock(o, b, 8 * m)
        BY <1>1 DEF Ice!InBlock
    <2>2. ASSUME NEW j \in 1..r PROVE Ice!Bit(o[m + 1], j) = Ice!Bit(b[m + 1], j)
        <3> DEFINE k == 8 * m + (j - 1)
        <3>1. k \in 0..n - 1 /\ (k \div 8) + 1 = m + 1 /\ (k % 8) + 1 = j
            BY <2>2
        <3> HIDE DEF k
        <3>2. Ice!Bit(o[(k \div 8) + 1], (k % 8) + 1) = Ice!Bit(b[(k \div 8) + 1], (k % 8) + 1)
            BY <1>1, <3>1 DEF Ice!InBlock
        <3> QED BY <3>1, <3>2
    <2> QED BY <2>1, <2>2
<1>2. ASSUME Ice!InBlock(o, b, 8 * m), NEW k \in 0..n - 1,
             \A j \in 1..r : Ice!Bit(o[m + 1], j) = Ice!Bit(b[m + 1], j)
      PROVE  Ice!Bit(o[(k \div 8) + 1], (k % 8) + 1) = Ice!Bit(b[(k \div 8) + 1], (k % 8) + 1)
    <2>1. CASE k < 8 * m
        BY <1>2, <2>1 DEF Ice!InBlock
    <2>2. CASE k >= 8 * m
        <3>1. (k \div 8) + 1 = m + 1 /\ (k % 8) + 1 \in 1..r
            BY <1>2, <2>2
        <3> QED BY <1>2, <3>1
    <2> QED BY <1>2, <2>1, <2>2
<1> QED BY <1>1, <1>2 DEF Ice!InBlock

\* The bits of 224.0.0.0/4 and the odd two of fe80::/10.
LEMMA OddBits ==
    ASSUME NEW x \in Ice!Octet
    PROVE  /\ (\A j \in 1..4 : Ice!Bit(x, j) = Ice!Bit(224, j)) <=> x \in 224..239
           /\ (\A j \in 1..2 : Ice!Bit(x, j) = Ice!Bit(128, j)) <=> x \div 64 = 2
<1>1. /\ \A j \in 1..4 : j = 1 \/ j = 2 \/ j = 3 \/ j = 4
      /\ \A j \in 1..2 : j = 1 \/ j = 2
    OBVIOUS
<1>2. /\ Ice!Bit(x, 1) = (x \div 128) % 2 /\ Ice!Bit(x, 2) = (x \div 64) % 2
      /\ Ice!Bit(x, 3) = (x \div 32) % 2 /\ Ice!Bit(x, 4) = (x \div 16) % 2
    BY DEF Ice!Bit, Ice!Weight
<1>3. /\ Ice!Bit(224, 1) = 1 /\ Ice!Bit(224, 2) = 1 /\ Ice!Bit(224, 3) = 1
      /\ Ice!Bit(224, 4) = 0
      /\ Ice!Bit(128, 1) = 1 /\ Ice!Bit(128, 2) = 0
    BY DEF Ice!Bit, Ice!Weight
<1>4. ((x \div 128) % 2 = 1 /\ (x \div 64) % 2 = 1 /\ (x \div 32) % 2 = 1
          /\ (x \div 16) % 2 = 0)
          <=> x \in 224..239
    BY DEF Ice!Octet
<1>5. ((x \div 128) % 2 = 1 /\ (x \div 64) % 2 = 0) <=> x \div 64 = 2
    BY DEF Ice!Octet
<1>6. (\A j \in 1..4 : Ice!Bit(x, j) = Ice!Bit(224, j)) <=>
          /\ Ice!Bit(x, 1) = 1 /\ Ice!Bit(x, 2) = 1 /\ Ice!Bit(x, 3) = 1 /\ Ice!Bit(x, 4) = 0
    BY <1>1, <1>3
<1>7. (\A j \in 1..2 : Ice!Bit(x, j) = Ice!Bit(128, j)) <=>
          (Ice!Bit(x, 1) = 1 /\ Ice!Bit(x, 2) = 0)
    BY <1>1, <1>3
<1> QED BY <1>2, <1>4, <1>5, <1>6, <1>7

LEMMA Usefulv4IsOutside ==
    ASSUME NEW o \in [1..4 -> Ice!Octet]
    PROVE  Ice!IsUseful(o) <=> ~Ice!Useless(o)
<1>1. Len(o) = 4
    BY ListIsSeq
<1>2. /\ \A i \in 1..4 : o[i] \in Ice!Octet
      /\ 0 \in Ice!Octet /\ 127 \in Ice!Octet /\ 169 \in Ice!Octet /\ 254 \in Ice!Octet /\ 255 \in Ice!Octet
      /\ \A i \in 1..4 : i = 1 \/ i = 2 \/ i = 3 \/ i = 4
    BY DEF Ice!Octet
<1>3. Ice!InBlock(o, <<127, 0, 0, 0>>, 8) <=> o[1] = 127
    <2> DEFINE b == <<127, 0, 0, 0>>
    <2>1. \A i \in 1..1 : i = 1
        OBVIOUS
    <2>2. b[1] = 127
        OBVIOUS
    <2>3. \A i \in 1..1 : o[i] \in Ice!Octet /\ b[i] \in Ice!Octet
        BY <1>2, <2>1, <2>2
    <2> HIDE DEF b
    <2>4. Ice!InBlock(o, b, 8) <=> \A i \in 1..1 : o[i] = b[i]
        <3> DEFINE m == 1
                   n == 8
        <3>1. m \in Nat /\ n = 8 * m /\ \A i \in 1..m : o[i] \in Ice!Octet /\ b[i] \in Ice!Octet
            BY <2>3
        <3> HIDE DEF m, n
        <3>2. Ice!InBlock(o, b, n) <=> \A i \in 1..m : o[i] = b[i]
            BY <3>1, InBlockByOctets
        <3> QED BY <3>2 DEF m, n
    <2> QED BY <2>1, <2>2, <2>4 DEF b
<1>4. Ice!InBlock(o, <<169, 254, 0, 0>>, 16) <=> o[1] = 169 /\ o[2] = 254
    <2> DEFINE b == <<169, 254, 0, 0>>
    <2>1. \A i \in 1..2 : i = 1 \/ i = 2
        OBVIOUS
    <2>2. b[1] = 169 /\ b[2] = 254
        OBVIOUS
    <2>3. \A i \in 1..2 : o[i] \in Ice!Octet /\ b[i] \in Ice!Octet
        BY <1>2, <2>1, <2>2
    <2> HIDE DEF b
    <2>4. Ice!InBlock(o, b, 16) <=> \A i \in 1..2 : o[i] = b[i]
        <3> DEFINE m == 2
                   n == 16
        <3>1. m \in Nat /\ n = 8 * m /\ \A i \in 1..m : o[i] \in Ice!Octet /\ b[i] \in Ice!Octet
            BY <2>3
        <3> HIDE DEF m, n
        <3>2. Ice!InBlock(o, b, n) <=> \A i \in 1..m : o[i] = b[i]
            BY <3>1, InBlockByOctets
        <3> QED BY <3>2 DEF m, n
    <2> QED BY <2>1, <2>2, <2>4 DEF b
<1>5. ASSUME NEW x \in {0, 255}
      PROVE  Ice!InBlock(o, <<x, x, x, x>>, 32) <=> o = <<x, x, x, x>>
    <2> DEFINE b == <<x, x, x, x>>
    <2>1. \A i \in 1..4 : b[i] = x
        BY <1>2
    <2>2. b \in [1..4 -> Ice!Octet]
        BY <1>2
    <2>3. \A i \in 1..4 : o[i] \in Ice!Octet /\ b[i] \in Ice!Octet
        BY <1>2, <2>1
    <2> HIDE DEF b
    <2>4. Ice!InBlock(o, b, 32) <=> \A i \in 1..4 : o[i] = b[i]
        <3> DEFINE m == 4
                   n == 32
        <3>1. m \in Nat /\ n = 8 * m /\ \A i \in 1..m : o[i] \in Ice!Octet /\ b[i] \in Ice!Octet
            BY <2>3
        <3> HIDE DEF m, n
        <3>2. Ice!InBlock(o, b, n) <=> \A i \in 1..m : o[i] = b[i]
            BY <3>1, InBlockByOctets
        <3> QED BY <3>2 DEF m, n
    <2>5. (\A i \in 1..4 : o[i] = b[i]) <=> o = b
        BY <2>2
    <2> QED BY <2>4, <2>5 DEF b
<1>6. Ice!InBlock(o, <<224, 0, 0, 0>>, 4) <=> o[1] \in 224..239
    <2> DEFINE b == <<224, 0, 0, 0>>
    <2>1. Ice!InBlock(o, b, 0)
        BY DEF Ice!InBlock
    <2>2. b[1] = 224
        OBVIOUS
    <2> HIDE DEF b
    <2>3. Ice!InBlock(o, b, 4) <=>
              /\ Ice!InBlock(o, b, 0)
              /\ \A j \in 1..4 : Ice!Bit(o[1], j) = Ice!Bit(b[1], j)
        <3> DEFINE m == 0
                   r == 4
                   n == 4
        <3>1. m \in Nat /\ r \in 0..7 /\ n = 8 * m + r
            OBVIOUS
        <3>2. 8 * m = 0 /\ m + 1 = 1
            OBVIOUS
        <3> HIDE DEF m, r, n
        <3>3. Ice!InBlock(o, b, n) <=>
                  /\ Ice!InBlock(o, b, 8 * m)
                  /\ \A j \in 1..r : Ice!Bit(o[m + 1], j) = Ice!Bit(b[m + 1], j)
            BY <3>1, InBlockByBits
        <3> QED BY <3>2, <3>3 DEF r, n
    <2> QED BY <1>2, <2>1, <2>2, <2>3, OddBits DEF b
<1>7. Ice!Useless(o) <=>
          \/ o[1] = 127 \/ (o[1] = 169 /\ o[2] = 254) \/ o = <<0, 0, 0, 0>>
          \/ o[1] \in 224..239 \/ o = <<255, 255, 255, 255>>
    BY <1>1, <1>3, <1>4, <1>5, <1>6 DEF Ice!Useless
<1>8. Ice!IsUseful(o) <=> Ice!IsUsefulV4(o)
    BY <1>1 DEF Ice!IsUseful
<1> QED BY <1>7, <1>8 DEF Ice!IsUsefulV4

LEMMA Usefulv6IsOutside ==
    ASSUME NEW o \in [1..16 -> Ice!Octet]
    PROVE  Ice!IsUseful(o) <=> ~Ice!Useless(o)
<1>1. Len(o) = 16
    BY ListIsSeq
<1>2. /\ \A i \in 1..16 : o[i] \in Ice!Octet
      /\ 0 \in Ice!Octet /\ 1 \in Ice!Octet /\ 128 \in Ice!Octet /\ 254 \in Ice!Octet /\ 255 \in Ice!Octet
    BY DEF Ice!Octet
<1>3. ASSUME NEW a \in Ice!Octet, NEW b \in Ice!Octet, NEW c \in Ice!Octet
      PROVE  /\ \A i \in 1..16 : Ice!Block6(a, b, c)[i] \in Ice!Octet
             /\ Ice!Block6(a, b, c)[1] = a /\ Ice!Block6(a, b, c)[2] = b
             /\ Ice!Block6(a, b, c)[16] = c
             /\ \A i \in 3..15 : Ice!Block6(a, b, c)[i] = 0
    BY <1>2 DEF Ice!Block6
<1>4. ASSUME NEW c \in {0, 1}
      PROVE  Ice!InBlock(o, Ice!Block6(0, 0, c), 128) <=> Ice!Zeros(o, c)
    <2> DEFINE b == Ice!Block6(0, 0, c)
    <2>1. /\ \A i \in 1..16 : b[i] \in Ice!Octet
          /\ b[1] = 0 /\ b[2] = 0 /\ b[16] = c /\ \A i \in 3..15 : b[i] = 0
        BY <1>2, <1>3
    <2> HIDE DEF b
    <2>2. Ice!InBlock(o, b, 128) <=> \A i \in 1..16 : o[i] = b[i]
        <3> DEFINE m == 16
                   n == 128
        <3>1. m \in Nat /\ n = 8 * m /\ \A i \in 1..m : o[i] \in Ice!Octet /\ b[i] \in Ice!Octet
            BY <1>2, <2>1
        <3> HIDE DEF m, n
        <3>2. Ice!InBlock(o, b, n) <=> \A i \in 1..m : o[i] = b[i]
            BY <3>1, InBlockByOctets
        <3> QED BY <3>2 DEF m, n
    <2>3. /\ \A i \in 1..15 : i = 1 \/ i = 2 \/ i \in 3..15
          /\ \A i \in 1..16 : i \in 1..15 \/ i = 16
          /\ 1..15 \subseteq 1..16 /\ 16 \in 1..16
        OBVIOUS
    <2>4. \A i \in 1..15 : b[i] = 0
        BY <2>1, <2>3
    <2>5. (\A i \in 1..16 : o[i] = b[i]) <=> (\A i \in 1..15 : o[i] = 0) /\ o[16] = c
        BY <2>1, <2>3, <2>4
    <2> QED BY <2>2, <2>5 DEF b, Ice!Zeros
<1>5. Ice!InBlock(o, Ice!Block6(255, 0, 0), 8) <=> o[1] = 255
    <2> DEFINE b == Ice!Block6(255, 0, 0)
    <2>1. b[1] = 255 /\ \A i \in 1..1 : i = 1 /\ i \in 1..16
        BY <1>2, <1>3
    <2> HIDE DEF b
    <2>2. \A i \in 1..1 : o[i] \in Ice!Octet /\ b[i] \in Ice!Octet
        BY <1>2, <2>1
    <2>3. Ice!InBlock(o, b, 8) <=> \A i \in 1..1 : o[i] = b[i]
        <3> DEFINE m == 1
                   n == 8
        <3>1. m \in Nat /\ n = 8 * m /\ \A i \in 1..m : o[i] \in Ice!Octet /\ b[i] \in Ice!Octet
            BY <2>2
        <3> HIDE DEF m, n
        <3>2. Ice!InBlock(o, b, n) <=> \A i \in 1..m : o[i] = b[i]
            BY <3>1, InBlockByOctets
        <3> QED BY <3>2 DEF m, n
    <2> QED BY <2>1, <2>3 DEF b
<1>6. Ice!InBlock(o, Ice!Block6(254, 128, 0), 10) <=> o[1] = 254 /\ o[2] \div 64 = 2
    <2> DEFINE b == Ice!Block6(254, 128, 0)
    <2>1. b[1] = 254 /\ b[2] = 128 /\ \A i \in 1..1 : i = 1 /\ i \in 1..16
        BY <1>2, <1>3
    <2> HIDE DEF b
    <2>2. \A i \in 1..1 : o[i] \in Ice!Octet /\ b[i] \in Ice!Octet
        BY <1>2, <2>1
    <2>3. Ice!InBlock(o, b, 8) <=> \A i \in 1..1 : o[i] = b[i]
        <3> DEFINE m == 1
                   n == 8
        <3>1. m \in Nat /\ n = 8 * m /\ \A i \in 1..m : o[i] \in Ice!Octet /\ b[i] \in Ice!Octet
            BY <2>2
        <3> HIDE DEF m, n
        <3>2. Ice!InBlock(o, b, n) <=> \A i \in 1..m : o[i] = b[i]
            BY <3>1, InBlockByOctets
        <3> QED BY <3>2 DEF m, n
    <2>4. Ice!InBlock(o, b, 10) <=>
              /\ Ice!InBlock(o, b, 8)
              /\ \A j \in 1..2 : Ice!Bit(o[2], j) = Ice!Bit(b[2], j)
        <3> DEFINE m == 1
                   r == 2
                   n == 10
        <3>1. m \in Nat /\ r \in 0..7 /\ n = 8 * m + r
            OBVIOUS
        <3>2. 8 * m = 8 /\ m + 1 = 2
            OBVIOUS
        <3> HIDE DEF m, r, n
        <3>3. Ice!InBlock(o, b, n) <=>
                  /\ Ice!InBlock(o, b, 8 * m)
                  /\ \A j \in 1..r : Ice!Bit(o[m + 1], j) = Ice!Bit(b[m + 1], j)
            BY <3>1, InBlockByBits
        <3> QED BY <3>2, <3>3 DEF r, n
    <2>5. o[2] \in Ice!Octet
        BY <1>2
    <2> QED BY <2>1, <2>3, <2>4, <2>5, OddBits DEF b
<1>7. 64 * (Ice!Segment0(o) \div 64) = 65152 <=> o[1] = 254 /\ o[2] \div 64 = 2
    <2>1. ASSUME NEW x \in Ice!Octet, NEW y \in Ice!Octet
          PROVE  64 * ((256 * x + y) \div 64) = 65152 <=> x = 254 /\ y \div 64 = 2
        BY DEF Ice!Octet
    <2>2. o[1] \in Ice!Octet /\ o[2] \in Ice!Octet
        BY <1>2
    <2> QED BY <2>1, <2>2 DEF Ice!Segment0
<1>8. Ice!Useless(o) <=>
          \/ Ice!Zeros(o, 1) \/ Ice!Zeros(o, 0) \/ o[1] = 255
          \/ 64 * (Ice!Segment0(o) \div 64) = 65152
    BY <1>1, <1>4, <1>5, <1>6, <1>7 DEF Ice!Useless
<1>9. Ice!IsUseful(o) <=> Ice!IsUsefulV6(o)
    BY <1>1 DEF Ice!IsUseful
<1> QED BY <1>8, <1>9 DEF Ice!IsUsefulV6

-----------------------------------------------------------------------------
(* The candidates: what the loop over the interfaces has collected.        *)

\* IceGather counts with a Cardinality of its own instance.
LEMMA SameCardinality == \A S : Ice!Cardinality(S) = Cardinality(S)
BY DEF Ice!Cardinality, Cardinality

\* The useful ones among the first n interfaces.
UsefulIn(n) == {k \in 1..n : ~Ice!Useless(addrs[k])}
Visited == Len(addrs) - Len(rest)

\* The candidates begin with the useful ones of the first n interfaces, in
\* their order, and no other of them is a host's.
HostsFirst(n) ==
    /\ Cardinality(UsefulIn(n)) <= Len(candidates)
    /\ \A k \in UsefulIn(n) :
          candidates[Cardinality(UsefulIn(k))] = Ice!Candidate("host", addrs[k])
    /\ \A j \in 1..Len(candidates) :
          candidates[j].kind = "host" <=> j <= Cardinality(UsefulIn(n))

VisitInv ==
    /\ Len(rest) <= Len(addrs)
    /\ \A k \in 1..Len(rest) : rest[k] = addrs[Visited + k]
    /\ HostsFirst(Visited)
    /\ Len(candidates) = Cardinality(UsefulIn(Visited))

CandidateSet == [kind : {"host", "srflx", "relay"}, addr : Ice!Address \cup Addrs]

IceInv ==
    /\ pc \in {"start", "hosts", "relay", "done"}
    /\ ctx \in ProbeContext
    /\ pc = "done" <=> status # "none"
    /\ addrs \in Seq(Ice!Address) /\ rest \in Seq(Ice!Address)
    /\ candidates \in Seq(CandidateSet)
    /\ pc = "start" => candidates = <<>>
    /\ pc = "hosts" => VisitInv
    /\ pc = "relay" =>
          /\ HostsFirst(Len(addrs))
          /\ Len(candidates) = Cardinality(UsefulIn(Len(addrs)))
                                  + (IF ctx.srflx = NoAddr THEN 0 ELSE 1)
    /\ status \in {"pass", "warn"} =>
          HostsFirst(Len(addrs)) /\ counts = Ice!CountKinds(candidates)

LEMMA UsefulIsOutside ==
    ASSUME NEW o \in Ice!Address
    PROVE  Ice!IsUseful(o) <=> ~Ice!Useless(o)
BY Usefulv4IsOutside, Usefulv6IsOutside DEF Ice!Address

\* One interface more.
LEMMA NextUseful ==
    ASSUME NEW n \in Nat
    PROVE  /\ IsFiniteSet(UsefulIn(n)) /\ Cardinality(UsefulIn(n)) \in Nat
           /\ Ice!Useless(addrs[n + 1]) => UsefulIn(n + 1) = UsefulIn(n)
           /\ ~Ice!Useless(addrs[n + 1]) =>
                 /\ UsefulIn(n + 1) = UsefulIn(n) \cup {n + 1}
                 /\ Cardinality(UsefulIn(n + 1)) = Cardinality(UsefulIn(n)) + 1
<1>1. IsFiniteSet(UsefulIn(n)) /\ Cardinality(UsefulIn(n)) \in Nat
    <2>1. IsFiniteSet(1..n)
        BY FS_Interval
    <2>2. UsefulIn(n) \in SUBSET (1..n)
        BY DEF UsefulIn
    <2> QED BY <2>1, <2>2, FS_Subset, FS_CardinalityType
<1>2. 1..n + 1 = 1..n \cup {n + 1} /\ n + 1 \notin 1..n
    OBVIOUS
<1>3. Ice!Useless(addrs[n + 1]) => UsefulIn(n + 1) = UsefulIn(n)
    BY <1>2 DEF UsefulIn
<1>4. ~Ice!Useless(addrs[n + 1]) => UsefulIn(n + 1) = UsefulIn(n) \cup {n + 1}
    BY <1>2 DEF UsefulIn
<1>5. n + 1 \notin UsefulIn(n)
    BY <1>2 DEF UsefulIn
<1> QED BY <1>1, <1>3, <1>4, <1>5, FS_AddElement

\* The place of a useful one.
LEMMA PlaceOfUseful ==
    ASSUME NEW n \in Nat, NEW k \in UsefulIn(n)
    PROVE  Cardinality(UsefulIn(k)) \in 1..Cardinality(UsefulIn(n))
<1>1. k \in 1..n /\ k \in UsefulIn(k) /\ UsefulIn(k) \in SUBSET UsefulIn(n)
    BY DEF UsefulIn
<1>2. k \in Nat
    BY <1>1
<1>3. /\ IsFiniteSet(UsefulIn(n)) /\ Cardinality(UsefulIn(n)) \in Nat
      /\ IsFiniteSet(UsefulIn(k)) /\ Cardinality(UsefulIn(k)) \in Nat
    BY <1>2, NextUseful
<1>4. Cardinality(UsefulIn(k)) <= Cardinality(UsefulIn(n))
    BY <1>1, <1>3, FS_Subset
<1>5. Cardinality(UsefulIn(k)) # 0
    BY <1>1, <1>3, FS_EmptySet
<1> QED BY <1>3, <1>4, <1>5

LEMMA InitIce == Ice!Init => IceInv
<1> SUFFICES ASSUME Ice!Init PROVE IceInv
    OBVIOUS
<1>1. PICK srflx \in {NoAddr} \cup Addrs, session \in {NoSession} \cup Sessions :
          ctx = [NewContext(TRUE, TRUE, TRUE, TRUE) EXCEPT
                    !.ips = TRUE, !.srflx = srflx, !.session = session,
                    !.relayed = session.relayed]
    BY DEF Ice!Init, Ice!NewContext, NewContext, Ice!NoSession, NoSession, Ice!Sessions, Sessions
<1>2. session.relayed \in Addrs \cup {NoAddr}
    BY DEF Sessions, NoSession
<1>3. ctx \in ProbeContext
    BY <1>1, <1>2 DEF NewContext, ProbeContext
<1>4. pc = "start" /\ status = "none" /\ addrs = <<>> /\ rest = <<>> /\ candidates = <<>>
    BY DEF Ice!Init
<1> QED BY <1>3, <1>4 DEF IceInv

\* One pass of the loop.
LEMMA TakeAddressKeepsIce ==
    ASSUME IceInv, Ice!TakeAddress
    PROVE  IceInv'
<1> DEFINE a == Head(rest)
           host == Ice!Candidate("host", a)
           C(k) == Cardinality(UsefulIn(k))
<1>1. /\ pc = "hosts" /\ rest # <<>> /\ rest' = Tail(rest)
      /\ candidates' = IF Ice!IsUseful(a) THEN Append(candidates, host) ELSE candidates
      /\ UNCHANGED <<pc, ctx, status, addrs>>
    BY DEF Ice!TakeAddress
<1>2. /\ addrs \in Seq(Ice!Address) /\ rest \in Seq(Ice!Address)
      /\ candidates \in Seq(CandidateSet)
      /\ Len(addrs) \in Nat /\ Len(rest) \in Nat /\ Len(candidates) \in Nat
      /\ VisitInv
    BY <1>1 DEF IceInv
<1>3. /\ Len(rest) >= 1 /\ rest' \in Seq(Ice!Address) /\ Len(rest') = Len(rest) - 1
      /\ \A k \in 1..Len(rest') : rest'[k] = rest[k + 1]
      /\ a = rest[1] /\ a \in Ice!Address
    BY <1>1, <1>2, HeadTailProperties
<1>0. PICK n \in Nat : n = Visited
    BY <1>2 DEF Visited, VisitInv
<1>4. n = Visited /\ Visited' = n + 1 /\ n + 1 <= Len(addrs) /\ addrs[n + 1] = a
    BY <1>0, <1>1, <1>2, <1>3 DEF Visited, VisitInv
<1>5. Ice!IsUseful(a) <=> ~Ice!Useless(a)
    BY <1>3, UsefulIsOutside
<1>6. \A k \in 1..Len(rest') : rest'[k] = addrs'[Visited' + k]
    <2> TAKE k \in 1..Len(rest')
    <2>1. k + 1 \in 1..Len(rest) /\ n + (k + 1) = (n + 1) + k
        BY <1>2, <1>3
    <2>2. rest[k + 1] = addrs[(n + 1) + k]
        BY <1>2, <1>4, <2>1 DEF VisitInv
    <2> QED BY <1>1, <1>3, <1>4, <2>2
<1>7. \A k : UsefulIn(k)' = UsefulIn(k)
    BY <1>1 DEF UsefulIn, Ice!Useless, Ice!InBlock, Ice!Bit
<1>8. host \in CandidateSet /\ host.kind = "host"
    BY <1>3 DEF CandidateSet, Ice!Candidate
<1>9. /\ candidates' \in Seq(CandidateSet)
      /\ HostsFirst(n + 1)' /\ Len(candidates') = C(n + 1)
    <2>1. CASE Ice!Useless(a)
        <3>1. candidates' = candidates /\ UsefulIn(n + 1) = UsefulIn(n)
            BY <1>1, <1>4, <1>5, <2>1, NextUseful
        <3> QED BY <1>1, <1>2, <1>4, <1>7, <3>1 DEF VisitInv, HostsFirst
    <2>2. CASE ~Ice!Useless(a)
        <3>1. /\ UsefulIn(n + 1) = UsefulIn(n) \cup {n + 1}
              /\ C(n + 1) = C(n) + 1 /\ C(n) \in Nat
            BY <1>4, <2>2, NextUseful
        <3>2. Len(candidates) = C(n)
            BY <1>2, <1>4 DEF VisitInv
        <3> HIDE DEF host, C
        <3>3. /\ candidates' = Append(candidates, host)
              /\ candidates' \in Seq(CandidateSet) /\ Len(candidates') = C(n) + 1
              /\ \A j \in 1..C(n) : candidates'[j] = candidates[j]
              /\ candidates'[C(n) + 1] = host
            BY <1>1, <1>2, <1>5, <1>8, <2>2, <3>2
        <3>4. ASSUME NEW k \in UsefulIn(n + 1)
              PROVE  candidates'[C(k)] = Ice!Candidate("host", addrs[k])
            <4>1. CASE k \in UsefulIn(n)
                <5>1. candidates[C(k)] = Ice!Candidate("host", addrs[k])
                    BY <1>2, <1>4, <4>1 DEF VisitInv, HostsFirst, C
                <5>2. C(k) \in 1..C(n)
                    BY <1>4, <4>1, PlaceOfUseful DEF C
                <5> QED BY <3>3, <5>1, <5>2
            <4>2. CASE k = n + 1
                BY <1>4, <3>1, <3>3, <4>2 DEF host
            <4> QED BY <3>1, <4>1, <4>2
        <3>5. ASSUME NEW j \in 1..C(n) + 1
              PROVE  candidates'[j].kind = "host" /\ j <= C(n + 1)
            <4>1. CASE j \in 1..C(n)
                <5>1. candidates[j].kind = "host"
                    BY <1>2, <1>4, <3>1, <3>2, <4>1 DEF VisitInv, HostsFirst, C
                <5> QED BY <3>1, <3>3, <4>1, <5>1
            <4>2. CASE j = C(n) + 1
                BY <1>8, <3>1, <3>3, <4>2
            <4> QED BY <3>1, <4>1, <4>2
        <3>6. C(n + 1) <= Len(candidates')
            BY <3>1, <3>3
        <3> QED BY <1>1, <1>7, <3>1, <3>3, <3>4, <3>5, <3>6 DEF HostsFirst, C
    <2> QED BY <2>1, <2>2
<1>10. VisitInv'
    <2>1. Len(rest') <= Len(addrs')
        BY <1>1, <1>2, <1>3 DEF VisitInv
    <2> QED BY <1>4, <1>6, <1>7, <1>9, <2>1 DEF VisitInv
<1>11. status = "none"
    BY <1>1 DEF IceInv
<1> QED BY <1>1, <1>2, <1>3, <1>9, <1>10, <1>11 DEF IceInv

\* A candidate that is no host's goes to the end.
LEMMA AppendOther ==
    ASSUME NEW n \in Nat, NEW c \in CandidateSet, c.kind # "host",
           candidates \in Seq(CandidateSet), HostsFirst(n),
           candidates' = Append(candidates, c), UNCHANGED addrs
    PROVE  HostsFirst(n)'
<1> DEFINE m == Cardinality(UsefulIn(n))
<1>1. \A k : UsefulIn(k)' = UsefulIn(k)
    BY DEF UsefulIn, Ice!Useless, Ice!InBlock, Ice!Bit
<1>2. m \in Nat /\ m <= Len(candidates) /\ Len(candidates) \in Nat
    BY NextUseful DEF HostsFirst
<1>3. /\ Len(candidates') = Len(candidates) + 1
      /\ \A j \in 1..Len(candidates) : candidates'[j] = candidates[j]
      /\ candidates'[Len(candidates) + 1] = c
    BY <1>2
<1>4. ASSUME NEW k \in UsefulIn(n)
      PROVE  candidates'[Cardinality(UsefulIn(k))] = Ice!Candidate("host", addrs[k])
    <2>1. Cardinality(UsefulIn(k)) \in 1..Len(candidates)
        BY <1>2, <1>4, PlaceOfUseful
    <2> QED BY <1>3, <1>4, <2>1 DEF HostsFirst
<1>5. ASSUME NEW j \in 1..Len(candidates) + 1
      PROVE  candidates'[j].kind = "host" <=> j <= m
    <2>1. CASE j \in 1..Len(candidates)
        BY <1>3, <2>1 DEF HostsFirst
    <2>2. CASE j = Len(candidates) + 1
        <3>1. candidates'[j].kind # "host" /\ ~(j <= m)
            BY <1>2, <1>3, <2>2
        <3> QED BY <3>1
    <2> QED BY <1>2, <2>1, <2>2
<1> HIDE DEF m
<1>6. m <= Len(candidates')
    BY <1>2, <1>3
<1> QED BY <1>1, <1>3, <1>4, <1>5, <1>6 DEF HostsFirst, m

LEMMA DisjointUnion ==
    ASSUME NEW S, NEW T, IsFiniteSet(S), IsFiniteSet(T), S \cap T = {}
    PROVE  /\ IsFiniteSet(S \cup T)
           /\ Cardinality(S \cup T) = Cardinality(S) + Cardinality(T)
<1>1. Cardinality(S) \in Nat /\ Cardinality(T) \in Nat
    BY FS_CardinalityType
<1>2. Cardinality({}) = 0
    BY FS_EmptySet
<1>3. Cardinality(S \cap T) = 0
    BY <1>2
<1>4. /\ IsFiniteSet(S \cup T)
      /\ Cardinality(S \cup T) = Cardinality(S) + Cardinality(T) - Cardinality(S \cap T)
    BY FS_Union, Zenon
<1> QED BY <1>1, <1>3, <1>4

\* Every candidate is of one kind, so the counts add up.
LEMMA CountsAddUp ==
    ASSUME NEW cs \in Seq(CandidateSet)
    PROVE  /\ Ice!CountKinds(cs).host + Ice!CountKinds(cs).srflx + Ice!CountKinds(cs).relay = Len(cs)
<1> DEFINE K(kind) == {i \in DOMAIN cs : cs[i].kind = kind}
<1>1. DOMAIN cs = 1..Len(cs) /\ Len(cs) \in Nat
    BY LenProperties
<1>2. IsFiniteSet(DOMAIN cs) /\ Cardinality(DOMAIN cs) = Len(cs)
    BY <1>1, FS_Interval
<1>3. ASSUME NEW kind PROVE IsFiniteSet(K(kind)) /\ Cardinality(K(kind)) \in Nat
    <2>1. K(kind) \in SUBSET (DOMAIN cs)
        OBVIOUS
    <2> HIDE DEF K
    <2> QED BY <1>2, <2>1, FS_Subset, FS_CardinalityType
<1>4. \A i \in DOMAIN cs : cs[i].kind \in {"host", "srflx", "relay"}
    <2>1. \A i \in 1..Len(cs) : cs[i] \in CandidateSet
        BY ElementOfSeq
    <2> QED BY <1>1, <2>1 DEF CandidateSet
<1>5. /\ DOMAIN cs = (K("host") \cup K("srflx")) \cup K("relay")
      /\ K("host") \cap K("srflx") = {}
      /\ (K("host") \cup K("srflx")) \cap K("relay") = {}
    BY <1>4
<1>6. /\ Ice!CountKinds(cs).host = Cardinality(K("host"))
      /\ Ice!CountKinds(cs).srflx = Cardinality(K("srflx"))
      /\ Ice!CountKinds(cs).relay = Cardinality(K("relay"))
    BY SameCardinality DEF Ice!CountKinds
<1> HIDE DEF K
<1>7. /\ IsFiniteSet(K("host") \cup K("srflx"))
      /\ Cardinality(K("host") \cup K("srflx")) = Cardinality(K("host")) + Cardinality(K("srflx"))
    BY <1>3, <1>5, DisjointUnion
<1>8. Cardinality((K("host") \cup K("srflx")) \cup K("relay"))
          = Cardinality(K("host") \cup K("srflx")) + Cardinality(K("relay"))
    BY <1>3, <1>5, <1>7, DisjointUnion
<1> QED BY <1>2, <1>3, <1>5, <1>6, <1>7, <1>8

\* The property in the terms of the loop.
LEMMA HostsFirstIsIt ==
    ASSUME addrs \in Seq(Ice!Address), candidates \in Seq(CandidateSet),
           HostsFirst(Len(addrs)), counts = Ice!CountKinds(candidates)
    PROVE  Ice!HostsAreTheUseful
<1> DEFINE n == Len(addrs)
<1>1. n \in Nat /\ DOMAIN addrs = 1..n /\ DOMAIN candidates = 1..Len(candidates)
    BY LenProperties
<1>2. Ice!Useful = UsefulIn(n)
    BY <1>1 DEF Ice!Useful, UsefulIn
<1>3. ASSUME NEW k \in UsefulIn(n) PROVE Ice!Rank(k) = Cardinality(UsefulIn(k))
    <2>1. {j \in UsefulIn(n) : j <= k} = UsefulIn(k)
        BY <1>1, <1>3 DEF UsefulIn
    <2>2. Ice!Rank(k) = Cardinality({j \in UsefulIn(n) : j <= k})
        BY <1>2, SameCardinality DEF Ice!Rank
    <2> QED BY <2>1, <2>2
<1>4. counts.host + counts.srflx + counts.relay = Len(candidates)
    BY CountsAddUp
<1>5. Ice!Cardinality(Ice!Useful) = Cardinality(UsefulIn(n))
    BY <1>2, SameCardinality
<1>6. \A k \in Ice!Useful : candidates[Ice!Rank(k)] = Ice!Candidate("host", addrs[k])
    BY <1>2, <1>3 DEF HostsFirst
<1>7. /\ Cardinality(UsefulIn(n)) <= Len(candidates)
      /\ \A j \in 1..Len(candidates) :
            candidates[j].kind = "host" <=> j <= Cardinality(UsefulIn(n))
    BY DEF HostsFirst
<1> HIDE DEF n
<1> QED BY <1>1, <1>4, <1>5, <1>6, <1>7 DEF Ice!HostsAreTheUseful

LEMMA ListEnded ==
    ASSUME IceInv, pc = "hosts", rest = <<>>
    PROVE  /\ HostsFirst(Len(addrs)) /\ Len(addrs) \in Nat
           /\ Len(candidates) = Cardinality(UsefulIn(Len(addrs)))
<1>1. Visited = Len(addrs) /\ Len(addrs) \in Nat
    BY DEF IceInv, Visited
<1> QED BY <1>1 DEF IceInv, VisitInv

\* The relay is added and all is counted.
LEMMA ReturnMeans ==
    ASSUME IceInv, Ice!Return
    PROVE  /\ pc' = "done" /\ UNCHANGED <<ctx, addrs, rest>>
           /\ status = "none" /\ candidates' \in Seq(CandidateSet)
           /\ HostsFirst(Len(addrs))' /\ counts' = Ice!CountKinds(candidates')
           /\ status' = IF candidates' = <<>> THEN "warn" ELSE "pass"
           /\ candidates' = <<>> <=>
                 /\ Cardinality(UsefulIn(Len(addrs))) = 0
                 /\ ctx.srflx = NoAddr /\ ctx.session = NoSession
<1> DEFINE relay == Ice!Candidate("relay", ctx.session.relayed)
<1>1. /\ pc = "relay" /\ pc' = "done" /\ UNCHANGED <<ctx, addrs, rest>>
      /\ candidates' = IF ctx.session = NoSession THEN candidates ELSE Append(candidates, relay)
      /\ counts' = Ice!CountKinds(candidates')
      /\ status' = IF candidates' = <<>> THEN "warn" ELSE "pass"
    BY DEF Ice!Return, Ice!NoSession, NoSession
<1>2. /\ candidates \in Seq(CandidateSet) /\ Len(candidates) \in Nat
      /\ HostsFirst(Len(addrs)) /\ Len(addrs) \in Nat /\ status = "none"
      /\ Len(candidates) = Cardinality(UsefulIn(Len(addrs)))
                              + (IF ctx.srflx = NoAddr THEN 0 ELSE 1)
      /\ ctx \in ProbeContext
    BY <1>1 DEF IceInv
<1>3. Cardinality(UsefulIn(Len(addrs))) \in Nat
    BY <1>2, NextUseful
<1>4. candidates = <<>> <=> Cardinality(UsefulIn(Len(addrs))) = 0 /\ ctx.srflx = NoAddr
    <2>1. candidates = <<>> <=> Len(candidates) = 0
        BY <1>2, EmptySeq
    <2> QED BY <1>2, <1>3, <2>1
<1>5. CASE ctx.session = NoSession
    <2>1. candidates' = candidates /\ addrs' = addrs
        BY <1>1, <1>5
    <2>2. HostsFirst(Len(addrs))'
        <3>1. \A k : UsefulIn(k)' = UsefulIn(k)
            BY <2>1 DEF UsefulIn, Ice!Useless, Ice!InBlock, Ice!Bit
        <3> QED BY <1>2, <2>1, <3>1 DEF HostsFirst
    <2> QED BY <1>1, <1>2, <1>4, <1>5, <2>1, <2>2
<1>6. CASE ctx.session # NoSession
    <2>1. ctx.session \in Sessions
        BY <1>2, <1>6 DEF ProbeContext
    <2>2. relay \in CandidateSet /\ relay.kind # "host"
        BY <2>1 DEF CandidateSet, Ice!Candidate, Sessions
    <2>3. candidates' = Append(candidates, relay) /\ addrs' = addrs
        BY <1>1, <1>6
    <2> HIDE DEF relay
    <2>4. candidates' \in Seq(CandidateSet) /\ candidates' # <<>>
        BY <1>2, <2>2, <2>3, AppendProperties
    <2>5. PICK n \in Nat : n = Len(addrs)
        BY <1>2
    <2>6. HostsFirst(n)'
        BY <1>2, <2>2, <2>3, <2>5, AppendOther
    <2>7. Len(addrs)' = n
        BY <2>3, <2>5
    <2>8. HostsFirst(Len(addrs))'
        BY <2>6, <2>7 DEF HostsFirst
    <2> QED BY <1>1, <1>2, <1>6, <2>4, <2>8
<1> QED BY <1>5, <1>6

LEMMA NextIce == IceInv /\ [Ice!Next]_(Ice!vars) => IceInv'
<1> SUFFICES ASSUME IceInv, [Ice!Next]_(Ice!vars) PROVE IceInv'
    OBVIOUS
<1>1. CASE Ice!EnumerateError
    <2>1. /\ pc = "start" /\ pc' = "done" /\ status' = "fail"
          /\ UNCHANGED <<ctx, addrs, rest, candidates, counts>>
        BY <1>1 DEF Ice!EnumerateError
    <2> QED BY <2>1 DEF IceInv
<1>2. CASE Ice!Enumerate
    <2>1. /\ pc = "start" /\ pc' = "hosts" /\ addrs' \in Seq(Ice!Address) /\ rest' = addrs'
          /\ UNCHANGED <<ctx, status, candidates>>
        BY <1>2, EnumerationsAssumption DEF Ice!Enumerate
    <2>2. candidates' = <<>> /\ Len(candidates') = 0
        BY <2>1 DEF IceInv
    <2>3. Len(addrs') \in Nat /\ Visited' = 0
        BY <2>1 DEF Visited
    <2>4. UsefulIn(Visited)' = {} /\ Cardinality({}) = 0
        BY <2>3, FS_EmptySet DEF UsefulIn
    <2>5. HostsFirst(Visited)'
        BY <2>2, <2>4 DEF HostsFirst
    <2>6. \A k \in 1..Len(rest') : rest'[k] = addrs'[Visited' + k]
        BY <2>1, <2>3
    <2>7. Len(candidates') = Cardinality(UsefulIn(Visited))'
        BY <2>2, <2>4
    <2>8. VisitInv'
        BY <2>1, <2>3, <2>5, <2>6, <2>7 DEF VisitInv
    <2> QED BY <2>1, <2>8 DEF IceInv
<1>3. CASE Ice!TakeAddress
    BY <1>3, TakeAddressKeepsIce
<1>4. CASE Ice!AddSrflx
    <2> DEFINE srflx == Ice!Candidate("srflx", ctx.srflx)
    <2>1. /\ pc = "hosts" /\ rest = <<>> /\ pc' = "relay"
          /\ candidates' = IF ctx.srflx = NoAddr THEN candidates ELSE Append(candidates, srflx)
          /\ UNCHANGED <<ctx, status, addrs, rest>>
        BY <1>4 DEF Ice!AddSrflx
    <2>2. PICK n \in Nat : n = Len(addrs)
        BY <2>1 DEF IceInv
    <2>3. /\ HostsFirst(n) /\ Len(candidates) = Cardinality(UsefulIn(n))
          /\ candidates \in Seq(CandidateSet) /\ ctx \in ProbeContext /\ status = "none"
        BY <2>1, <2>2, ListEnded DEF IceInv
    <2>4. (\A k : UsefulIn(k)' = UsefulIn(k)) /\ Len(addrs)' = n
        BY <2>1, <2>2 DEF UsefulIn, Ice!Useless, Ice!InBlock, Ice!Bit
    <2>5. CASE ctx.srflx = NoAddr
        <3>1. candidates' = candidates
            BY <2>1, <2>5
        <3>2. HostsFirst(n)'
            BY <2>1, <2>3, <2>4, <3>1 DEF HostsFirst
        <3>3. HostsFirst(Len(addrs))' /\ UsefulIn(Len(addrs))' = UsefulIn(n)
            BY <2>4, <3>2 DEF HostsFirst, UsefulIn
        <3>4. Len(candidates') = Cardinality(UsefulIn(Len(addrs)))'
                                    + (IF ctx'.srflx = NoAddr THEN 0 ELSE 1)
            BY <2>1, <2>3, <2>5, <3>1, <3>3
        <3> QED BY <2>1, <2>3, <3>1, <3>3, <3>4 DEF IceInv
    <2>6. CASE ctx.srflx # NoAddr
        <3>1. candidates' = Append(candidates, srflx)
            BY <2>1, <2>6
        <3>2. srflx \in CandidateSet /\ srflx.kind # "host"
            BY <2>3, <2>6 DEF CandidateSet, Ice!Candidate, ProbeContext
        <3> HIDE DEF srflx
        <3>3. HostsFirst(n)'
            BY <2>1, <2>3, <3>1, <3>2, AppendOther
        <3>4. HostsFirst(Len(addrs))' /\ UsefulIn(Len(addrs))' = UsefulIn(n)
            BY <2>4, <3>3 DEF HostsFirst, UsefulIn
        <3>5. candidates' \in Seq(CandidateSet) /\ Len(candidates') = Len(candidates) + 1
            BY <2>3, <3>1, <3>2, AppendProperties
        <3>6. Len(candidates') = Cardinality(UsefulIn(Len(addrs)))'
                                    + (IF ctx'.srflx = NoAddr THEN 0 ELSE 1)
            BY <2>1, <2>3, <2>6, <3>4, <3>5
        <3> QED BY <2>1, <2>3, <3>4, <3>5, <3>6 DEF IceInv
    <2> QED BY <2>5, <2>6
<1>5. CASE Ice!Return
    <2>1. /\ pc' = "done" /\ UNCHANGED <<ctx, addrs, rest>> /\ candidates' \in Seq(CandidateSet)
          /\ HostsFirst(Len(addrs))' /\ counts' = Ice!CountKinds(candidates')
          /\ status' \in {"warn", "pass"}
        BY <1>5, ReturnMeans
    <2>2. /\ ctx' \in ProbeContext /\ addrs' \in Seq(Ice!Address) /\ rest' \in Seq(Ice!Address)
        BY <2>1 DEF IceInv
    <2> QED BY <2>1, <2>2 DEF IceInv
<1>6. CASE UNCHANGED Ice!vars
    <2>1. UNCHANGED <<pc, ctx, status, addrs, rest, candidates, counts>>
        BY <1>6 DEF Ice!vars
    <2>2. \A k : UsefulIn(k)' = UsefulIn(k)
        BY <2>1 DEF UsefulIn, Ice!Useless, Ice!InBlock, Ice!Bit
    <2>3. VisitInv' <=> VisitInv
        BY <2>1, <2>2 DEF VisitInv, HostsFirst, Visited
    <2>4. HostsFirst(Len(addrs))' <=> HostsFirst(Len(addrs))
        BY <2>1, <2>2 DEF HostsFirst
    <2>5. (counts = Ice!CountKinds(candidates))' <=> counts = Ice!CountKinds(candidates)
        BY <2>1 DEF Ice!CountKinds, Ice!Cardinality
    <2>6. Cardinality(UsefulIn(Len(addrs)))' = Cardinality(UsefulIn(Len(addrs)))
        BY <2>1, <2>2
    <2> QED BY <2>1, <2>3, <2>4, <2>5, <2>6 DEF IceInv
<1> QED BY <1>1, <1>2, <1>3, <1>4, <1>5, <1>6 DEF Ice!Next, Ice!Returned

LEMMA IceIsSound == IceInv => Ice!HostsAreTheUseful
BY HostsFirstIsIt DEF IceInv, Ice!HostsAreTheUseful

LEMMA IceAnswers ==
    ASSUME IceInv, [Ice!Next]_(Ice!vars)
    PROVE  Answers("ice", status, status')
<1>1. OutcomesOf("ice", ctx) = IceOutcomes(ctx)
    BY DEF OutcomesOf
<1>2. CASE Ice!EnumerateError
    <2>1. status' = "fail" /\ status = "none" /\ ctx' = ctx
        BY <1>2 DEF Ice!EnumerateError, IceInv
    <2>2. Answer("fail", ctx) \in IceOutcomes(ctx)
        BY DEF IceOutcomes
    <2> QED BY <1>1, <2>1, <2>2, AnswerIsOne DEF Answers
<1>3. CASE Ice!Return
    <2>1. /\ status = "none" /\ ctx' = ctx
          /\ status' = IF candidates' = <<>> THEN "warn" ELSE "pass"
          /\ candidates' = <<>> <=>
                /\ Cardinality(UsefulIn(Len(addrs))) = 0
                /\ ctx.srflx = NoAddr /\ ctx.session = NoSession
        BY <1>3, ReturnMeans
    <2> DEFINE host == Cardinality(UsefulIn(Len(addrs))) # 0
    <2>2. host \in BOOLEAN
        OBVIOUS
    <2>3. CandidateKinds(ctx, host) = {} <=> candidates' = <<>>
        BY <2>1 DEF CandidateKinds
    <2> HIDE DEF host
    <2>4. Answer(IF CandidateKinds(ctx, host) = {} THEN "warn" ELSE "pass", ctx)
              \in IceOutcomes(ctx)
        BY <2>2 DEF IceOutcomes
    <2>5. Answer(status', ctx) \in IceOutcomes(ctx)
        BY <2>1, <2>3, <2>4
    <2> QED BY <1>1, <2>1, <2>5, AnswerIsOne DEF Answers
<1>4. CASE Ice!Enumerate \/ Ice!TakeAddress \/ Ice!AddSrflx \/ UNCHANGED Ice!vars
    BY <1>4 DEF Ice!Enumerate, Ice!TakeAddress, Ice!AddSrflx, Ice!vars, Answers
<1> QED BY <1>2, <1>3, <1>4 DEF Ice!Next, Ice!Returned

-----------------------------------------------------------------------------
(* The allocation over TLS: its module has a proof of its own, and what it *)
(* says is said here of the variables of the part.                         *)

LEMMA TurnsAreThose == /\ Turns!Init => TP!Init
                       /\ Turns!Next => TP!Next
                       /\ UNCHANGED Turns!vars => UNCHANGED TP!vars
BY ZenonT(30) DEF Turns!Init, TP!Init, Turns!NewContext, TP!NewContext, Turns!NoSession,
         TP!NoSession, Turns!NoAllocation, TP!NoAllocation, Turns!client, TP!client,
         Turns!server, TP!server, Turns!link, TP!link, Turns!vars, TP!vars,
         Turns!Finish, TP!Finish, Turns!Return, TP!Return, Turns!CanTry, TP!CanTry,
         Turns!HasTarget, TP!HasTarget, Turns!HasCredentials, TP!HasCredentials,
         Turns!Skip, TP!Skip, Turns!NoConnection, TP!NoConnection, Turns!Connect,
         TP!Connect, Turns!Send, TP!Send, Turns!SendUnauth, TP!SendUnauth,
         Turns!SendError, TP!SendError, Turns!Waiting, TP!Waiting, Turns!Readable,
         TP!Readable, Turns!Recv, TP!Recv, Turns!Timeout, TP!Timeout,
         Turns!RecvError, TP!RecvError, Turns!Malformed, TP!Malformed, Turns!Refused,
         TP!Refused, Turns!Anonymous, TP!Anonymous, Turns!ChallengeOnly,
         TP!ChallengeOnly, Turns!SendAuthed, TP!SendAuthed, Turns!SendAuthedError,
         TP!SendAuthedError, Turns!CredentialsRejected, TP!CredentialsRejected,
         Turns!LongTerm, TP!LongTerm, Turns!Respond, TP!Respond, Turns!Demands,
         TP!Demands, Turns!Grant, TP!Grant, Turns!Challenge, TP!Challenge,
         Turns!Misbehave, TP!Misbehave, Turns!Bewildered, TP!Bewildered, Turns!Serve,
         TP!Serve, Turns!HangUp, TP!HangUp, Turns!Answered, TP!Answered,
         Turns!Progress, TP!Progress, Turns!Returned, TP!Returned, Turns!Next,
         TP!Next

LEMMA TurnsOutcomesAreThose == \A c : TP!TurnsOutcomes(c) = TurnsOutcomes(c)
BY DEF TP!TurnsOutcomes, TurnsOutcomes, TP!Answer, Answer, TP!HasTarget, HasTarget,
       TP!HasCredentials, HasCredentials

LEMMA InitTurns == Turns!Init => TP!IInv /\ result.status = "none"
<1>1. TP!Init => TP!IInv
    BY NoAddrAssumption, NoncesAssumption, TP!InitIInv
<1>2. Turns!Init => result.status = "none"
    BY DEF Turns!Init
<1> QED BY <1>1, <1>2, TurnsAreThose

LEMMA NextTurns ==
    ASSUME TP!IInv, [Turns!Next]_(Turns!vars)
    PROVE  TP!IInv' /\ Answers("turns", result.status, result'.status)
<1>1. [TP!Next]_(TP!vars)
    BY TurnsAreThose
<1>2. TP!IInv'
    BY <1>1, NoAddrAssumption, NoncesAssumption, TP!NextIInv
<1>3. [TP!Contract!Run]_<<result.status, ctx>>
    BY <1>1, NoAddrAssumption, NoncesAssumption, TP!NextAnswers
<1>4. CASE TP!Contract!Run
    <2>1. OutcomesOf("turns", ctx) = TP!TurnsOutcomes(ctx)
        BY TurnsOutcomesAreThose DEF OutcomesOf
    <2> QED BY <1>2, <1>4, <2>1 DEF TP!Contract!Run, Answers
<1>5. CASE UNCHANGED <<result.status, ctx>>
    BY <1>2, <1>5 DEF Answers
<1> QED BY <1>2, <1>3, <1>4, <1>5

LEMMA TurnsIsSound ==
    TP!IInv => /\ Turns!TypeOK /\ Turns!PassIsAllocated /\ Turns!MalformedHasCause
               /\ Turns!CredentialsBlamedFairly /\ ctx \in ProbeContext
<1> SUFFICES ASSUME TP!IInv
             PROVE  /\ Turns!TypeOK /\ Turns!PassIsAllocated /\ Turns!MalformedHasCause
                    /\ Turns!CredentialsBlamedFairly /\ ctx \in ProbeContext
    OBVIOUS
<1>1. /\ TP!TypeOK /\ TP!PassIsAllocated /\ TP!MalformedHasCause /\ TP!CredentialsBlamedFairly
    BY DEF TP!IInv, TP!ResultInv
<1>2. /\ Turns!ProbeContext = ProbeContext /\ TP!ProbeContext = ProbeContext
      /\ Turns!Request = TP!Request /\ Turns!Reply = TP!Reply
      /\ Turns!NoAllocation = TP!NoAllocation
    BY DEF Turns!ProbeContext, TP!ProbeContext, ProbeContext, Turns!Sessions, TP!Sessions,
           Sessions, Turns!NoSession, TP!NoSession, NoSession, Turns!Request, TP!Request,
           Turns!Reply, TP!Reply, Turns!NoAllocation, TP!NoAllocation
<1> QED
    BY <1>1, <1>2 DEF Turns!TypeOK, TP!TypeOK, Turns!PassIsAllocated, TP!PassIsAllocated,
       Turns!MalformedHasCause, TP!MalformedHasCause, Turns!CredentialsBlamedFairly,
       TP!CredentialsBlamedFairly

-----------------------------------------------------------------------------
(* All of them: each behaviour is one run of one part.                     *)

Parts == {"dns", "stun", "signaling", "ice", "dtls", "turns"}

IInv ==
    /\ part \in Parts
    /\ part = "dns" => DnsInv
    /\ part = "stun" => StunInv
    /\ part = "signaling" => WsInv
    /\ part = "ice" => IceInv
    /\ part = "dtls" => DtlsInv
    /\ part = "turns" => TP!IInv

\* What the contract is about, of the part that runs.
TheCheck == IF part = "dtls" THEN mode ELSE part
TheStatus == IF part = "ice" THEN status ELSE result.status

LEMMA InitIInv == Init => IInv /\ TheStatus = "none" /\ ctx \in ProbeContext
<1> SUFFICES ASSUME Init PROVE IInv /\ TheStatus = "none" /\ ctx \in ProbeContext
    OBVIOUS
<1>1. CASE part = "dns" /\ Dns!Init
    BY <1>1, InitDns DEF Dns!Init, DnsInv, IInv, Parts, TheStatus
<1>2. CASE part = "stun" /\ Stun!Init
    BY <1>2, InitStun DEF Stun!Init, StunInv, IInv, Parts, TheStatus
<1>3. CASE part = "signaling" /\ Ws!Init
    BY <1>3, InitWs DEF Ws!Init, WsInv, IInv, Parts, TheStatus
<1>4. CASE part = "ice" /\ Ice!Init
    BY <1>4, InitIce DEF Ice!Init, IceInv, IInv, Parts, TheStatus
<1>5. CASE part = "dtls" /\ Dtls!Init
    BY <1>5, InitDtls DEF Dtls!Init, DtlsInv, IInv, Parts, TheStatus
<1>6. CASE part = "turns" /\ Turns!Init
    BY <1>6, InitTurns, TurnsIsSound DEF IInv, Parts, TheStatus
<1> QED BY <1>1, <1>2, <1>3, <1>4, <1>5, <1>6 DEF Init

\* Every step is one of the part's, keeps its invariant, and is its answer or
\* leaves status and context alone.
LEMMA NextIInv ==
    ASSUME IInv, [Next]_vars
    PROVE  /\ IInv' /\ UNCHANGED TheCheck
           /\ Answers(TheCheck, TheStatus, TheStatus')
<1>1. part' = part
    BY DEF Next, vars
<1>2. CASE part = "dns"
    <2>1. [Dns!Next]_(Dns!vars)
        BY <1>2 DEF Next, vars, dnsOwn, Dns!vars
    <2>2. DnsInv' /\ Answers("dns", result.status, result'.status)
        BY <1>2, <2>1, NextDns, DnsAnswers DEF IInv
    <2> QED BY <1>1, <1>2, <2>2 DEF IInv, TheCheck, TheStatus
<1>3. CASE part = "stun"
    <2>1. [Stun!Next]_(Stun!vars)
        BY <1>3 DEF Next, vars, stunOwn, Stun!vars
    <2>2. StunInv' /\ Answers("stun", result.status, result'.status)
        BY <1>3, <2>1, NextStun, StunAnswers DEF IInv
    <2> QED BY <1>1, <1>3, <2>2 DEF IInv, TheCheck, TheStatus
<1>4. CASE part = "signaling"
    <2>1. [Ws!Next]_(Ws!vars)
        BY <1>4 DEF Next, vars, wsOwn, Ws!vars, Ws!wire
    <2>2. WsInv' /\ Answers("signaling", result.status, result'.status)
        BY <1>4, <2>1, NextWs, WsAnswers DEF IInv
    <2> QED BY <1>1, <1>4, <2>2 DEF IInv, TheCheck, TheStatus
<1>5. CASE part = "ice"
    <2>1. [Ice!Next]_(Ice!vars)
        BY <1>5 DEF Next, vars, iceOwn, Ice!vars
    <2>2. IceInv' /\ Answers("ice", status, status')
        BY <1>5, <2>1, NextIce, IceAnswers DEF IInv
    <2> QED BY <1>1, <1>5, <2>2 DEF IInv, TheCheck, TheStatus
<1>6. CASE part = "dtls"
    <2>1. [Dtls!Next]_(Dtls!vars)
        BY <1>6 DEF Next, vars, dtlsOwn, Dtls!vars, Dtls!setting
    <2>2. DtlsInv' /\ mode' = mode /\ Answers(mode, result.status, result'.status)
        BY <1>6, <2>1, NextDtls DEF IInv
    <2> QED BY <1>1, <1>6, <2>2 DEF IInv, TheCheck, TheStatus
<1>7. CASE part = "turns"
    <2>1. [Turns!Next]_(Turns!vars)
        BY <1>7 DEF Next, vars, turnsOwn, Turns!vars, Turns!client, Turns!server, Turns!link
    <2>2. TP!IInv' /\ Answers("turns", result.status, result'.status)
        BY <1>7, <2>1, NextTurns DEF IInv
    <2> QED BY <1>1, <1>7, <2>2 DEF IInv, TheCheck, TheStatus
<1> QED BY <1>2, <1>3, <1>4, <1>5, <1>6, <1>7 DEF IInv, Parts

LEMMA AlwaysIInv == Spec => []IInv
<1>1. Init => IInv
    BY InitIInv
<1>2. IInv /\ [Next]_vars => IInv'
    BY NextIInv
<1> QED BY <1>1, <1>2, PTL DEF Spec

\* Whichever check runs, its state is well typed.
THEOREM TypeCorrect == Spec => []TypeOK
<1>1. IInv => TypeOK
    BY StunIsSound, WsIsSound, DtlsIsSound, TurnsIsSound DEF IInv, TypeOK
<1> QED BY <1>1, AlwaysIInv, PTL

\* What a check reports is so, whatever the resolver, the servers, the peers
\* and the machine's interfaces are (dns.rs, stun.rs, signaling.rs,
\* ice_gather.rs, dtls.rs and turns_alloc.rs, `run` of each).
THEOREM ReportsAreTrueHolds == Spec => []ReportsAreTrue
<1>1. IInv => ReportsAreTrue
    BY DnsIsSound, StunIsSound, WsIsSound, IceIsSound, DtlsIsSound, TurnsIsSound
       DEF IInv, ReportsAreTrue, DnsIsTrue, StunIsTrue, WsIsTrue, IceIsTrue, DtlsIsTrue,
           TurnsIsTrue
<1> QED BY <1>1, AlwaysIInv, PTL

\* Each check implements the contract that the runner's composition uses: one
\* answer, and the context changed at that moment only (trait Check,
\* check.rs:76-94).
THEOREM ImplementContractsHolds == Spec => ImplementContracts
<1>1. Init => Contract!Init
    BY InitIInv DEF TheStatus, Contract!Init, Contract!ProbeContext, ProbeContext,
                    Contract!Sessions, Sessions, Contract!NoSession, NoSession
<1>2. IInv /\ [Next]_vars => [Contract!Run]_<<TheCheck, TheStatus, ctx>>
    <2> SUFFICES ASSUME IInv, [Next]_vars
                 PROVE  [Contract!Run]_<<TheCheck, TheStatus, ctx>>
        OBVIOUS
    <2>1. UNCHANGED TheCheck /\ Answers(TheCheck, TheStatus, TheStatus')
        BY NextIInv
    <2>2. CASE TheStatus' = TheStatus /\ ctx' = ctx
        BY <2>1, <2>2
    <2>3. CASE TheStatus = "none" /\ \E a \in OutcomesOf(TheCheck, ctx) :
                                         TheStatus' = a.status /\ ctx' = a.ctx
        BY <2>1, <2>3 DEF Contract!Run, TheCheck, TheStatus
    <2> QED BY <2>1, <2>2, <2>3 DEF Answers
<1> QED
    BY <1>1, <1>2, AlwaysIInv, PTL
       DEF Spec, ImplementContracts, Contract!Spec, TheCheck, TheStatus
=============================================================================
