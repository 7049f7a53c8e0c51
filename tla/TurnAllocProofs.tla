-------------------------- MODULE TurnAllocProofs --------------------------
(***************************************************************************)
(* Theorems about the allocation check for every set of addresses, every   *)
(* number of nonces, every server and every order, loss or repetition of   *)
(* the datagrams.                                                          *)
(***************************************************************************)
EXTENDS TurnAlloc, TLAPS

-----------------------------------------------------------------------------
(* The inductive invariant.  The properties speak of the client's result   *)
(* and the server's state; what links them is what a reply in flight says  *)
(* about the server, and that transaction 1 is the unauthenticated request *)
(* and 2 the authenticated one.                                            *)

ClientInv ==
    /\ pc = "start" => txid = 0
    /\ pc = "recv1" => txid = 1 /\ HasTarget(ctx)
    /\ pc = "recv2" => /\ txid = 2
                       /\ HasTarget(ctx)
                       /\ HasCredentials(ctx)
                       /\ challenge \in Nonces
    /\ result.why # "long-term" => ctx.session = NoSession
    /\ result.status = "pass" <=> result.why \in {"anonymous", "long-term"}
    /\ result.status = "warn" <=> result.why = "challenge only"
    /\ result.status = "none" <=> result.why = "running"
    /\ result.why = "credentials" => txid = 2

RequestsInv ==
    \A q \in requests : /\ q.tx = IF q.auth = "long-term" THEN 2 ELSE 1
                        /\ q.tx <= txid
                        /\ q.auth = "long-term" => q.nonce \in Nonces /\ pc # "recv1"

RepliesInv ==
    \A m \in replies :
        /\ m.tx \in 1..txid
        /\ m.type = "success" =>
             /\ m.tx = allocation.tx
             /\ m.relayed = allocation.relayed
        /\ m.type = "unauthorized" =>
             /\ m.nonce \in Nonces
             /\ IF m.tx = 1 THEN ~anonymous ELSE 2 \in rejected

AllocationInv ==
    /\ allocation # NoAllocation =>
         /\ allocation.relayed \in Addrs
         /\ allocation.tx = IF allocation.auth = "long-term" THEN 2 ELSE 1
         /\ allocation.tx <= txid
         /\ allocation.auth = "long-term" => \E q \in requests : q.auth = "long-term"
         /\ allocation.auth # "long-term" => anonymous
    /\ \A t \in rejected : t = 2 /\ ~credsValid /\ \E q \in requests : q.auth = "long-term"

ResultInv ==
    /\ result.why = "anonymous" => /\ allocation # NoAllocation
                                   /\ allocation.auth # "long-term"
                                   /\ ctx.relayed = allocation.relayed
    /\ result.why = "long-term" => /\ allocation # NoAllocation
                                   /\ allocation.auth = "long-term"
                                   /\ ctx.relayed = allocation.relayed
                                   /\ ctx.session.relayed = allocation.relayed
    /\ result.why = "challenge only" => /\ ~HasCredentials(ctx)
                                        /\ ~anonymous
                                        /\ \A q \in requests : q.auth # "long-term"
    /\ result.why = "credentials" => 2 \in rejected

IInv == /\ TypeOK
        /\ ClientInv
        /\ RequestsInv
        /\ RepliesInv
        /\ AllocationInv
        /\ CredentialsOnDemand
        /\ ResultInv

LEMMA InitIInv == Init => IInv
<1> SUFFICES ASSUME Init PROVE IInv
    OBVIOUS
<1> USE MaxNonceAssumption, NoncesAssumption, NoAddrAssumption
<1>1. PICK port, user, pass \in BOOLEAN :
         ctx = [NewContext(TRUE, port, user, pass) EXCEPT !.ips = TRUE]
    BY DEF Init
<1>2. ctx \in ProbeContext /\ ctx.session = NoSession
    BY <1>1 DEF NewContext, ProbeContext, NoSession
<1>3. ServerTypeOK
    BY DEF Init, ServerInit, ServerTypeOK, Allocation, Auth, NoAllocation
<1>4. TypeOK
    BY <1>2, <1>3 DEF Init, TypeOK, Result, Why
<1>5. ClientInv /\ RequestsInv /\ RepliesInv /\ AllocationInv
    BY <1>2 DEF Init, ServerInit, ClientInv, RequestsInv, RepliesInv, AllocationInv
<1>6. CredentialsOnDemand /\ ResultInv
    BY DEF Init, ServerInit, CredentialsOnDemand, ResultInv
<1> QED
    BY <1>4, <1>5, <1>6 DEF IInv

-----------------------------------------------------------------------------
(* Steps of the client *)

\* A return that changes nothing but the result keeps the invariant when what
\* it says is so.
LEMMA ReturnKeeps ==
    ASSUME IInv, pc # "done", UNCHANGED serverVars,
           NEW s \in {"warn", "fail", "skip"}, NEW w \in Why, Return(s, w),
           w \notin {"running", "anonymous", "long-term"},
           s = "warn" <=> w = "challenge only",
           w = "challenge only" => pc = "recv1" /\ ~HasCredentials(ctx) /\ ~anonymous,
           w = "credentials" => pc = "recv2" /\ 2 \in rejected
    PROVE  IInv'
<1> USE DEF IInv, Return, Finish, serverVars
<1>1. /\ pc' = "done"
      /\ result' = [status |-> s, why |-> w]
      /\ result.why = "running"
      /\ UNCHANGED <<requests, txid, challenge, ctx>>
      /\ UNCHANGED <<replies, allocation, nonce, rejected, anonymous, credsValid>>
    BY DEF TypeOK, ClientInv
<1> HIDE DEF Return, Finish, serverVars
<1>2. TypeOK'
    BY <1>1 DEF TypeOK, ServerTypeOK, Result
<1>3. ClientInv'
    BY <1>1 DEF ClientInv, HasTarget, HasCredentials
<1>4. RequestsInv'
    BY <1>1 DEF RequestsInv
<1>5. RepliesInv' /\ AllocationInv' /\ CredentialsOnDemand'
    BY <1>1 DEF RepliesInv, AllocationInv, CredentialsOnDemand, HasCredentials
<1>6. ResultInv'
    BY <1>1 DEF ResultInv, RequestsInv, HasCredentials
<1> QED
    BY <1>2, <1>3, <1>4, <1>5, <1>6

\* What the datagram a wait ends with says of the server.
LEMMA RecvMeaning ==
    ASSUME IInv, NEW round \in {"recv1", "recv2"}, NEW m \in replies \cup Strays,
           NEW outcome, Recv(round, m, outcome), outcome # "malformed"
    PROVE  /\ m \in replies
           /\ m \in Reply
           /\ m.tx = txid
           /\ m.type = outcome
           /\ txid = IF round = "recv1" THEN 1 ELSE 2
<1>1. m.tx = txid /\ m.type # "garbled" /\ m.type = outcome
    BY DEF Recv, ParseAllocateResponse
<1>2. m \in replies
    BY <1>1, StraysAssumption
<1> QED
    BY <1>1, <1>2 DEF IInv, TypeOK, ServerTypeOK, ClientInv, Recv

LEMMA SendUnauthKeeps == IInv /\ SendUnauth => IInv'
<1> SUFFICES ASSUME IInv, SendUnauth PROVE IInv'
    OBVIOUS
<1>1. /\ txid = 0
      /\ result.why = "running"
      /\ HasTarget(ctx)
    BY DEF IInv, SendUnauth, ClientInv, TypeOK
<1>empty. requests = {} /\ replies = {} /\ allocation = NoAllocation
    BY <1>1 DEF IInv, RequestsInv, RepliesInv, AllocationInv
<1>2. /\ txid' = 1
      /\ requests' = {[tx |-> 1, auth |-> "none", nonce |-> 0]}
      /\ pc' = "recv1"
      /\ UNCHANGED <<challenge, ctx, result, replies, allocation, nonce, rejected,
                     anonymous, credsValid>>
    BY <1>1, <1>empty DEF SendUnauth, NewTxid, serverVars
<1>3. TypeOK'
    <2>1. requests' \in SUBSET Request
        BY <1>2 DEF Request, Auth
    <2> QED
        BY <1>2, <2>1 DEF IInv, SendUnauth, TypeOK, ServerTypeOK
<1>4. ClientInv'
    BY <1>1, <1>2 DEF IInv, ClientInv, HasTarget
<1>5. RequestsInv' /\ RepliesInv' /\ CredentialsOnDemand'
    BY <1>empty, <1>2 DEF RequestsInv, RepliesInv, CredentialsOnDemand
<1>6. AllocationInv'
    BY <1>empty, <1>2 DEF IInv, AllocationInv
<1>7. ResultInv'
    BY <1>1, <1>2 DEF ResultInv
<1> QED
    BY <1>3, <1>4, <1>5, <1>6, <1>7 DEF IInv

\* The second request, whether or not the kernel takes it.
LEMMA SendAuthedKeeps ==
    ASSUME IInv, NEW m \in replies \cup Strays, SendAuthed(m) \/ SendAuthedError(m)
    PROVE  IInv'
<1>1. Recv("recv1", m, "unauthorized") /\ HasCredentials(ctx)
    BY DEF SendAuthed, SendAuthedError
<1>2. /\ pc = "recv1"
      /\ m \in replies
      /\ m \in Reply
      /\ m.tx = 1
      /\ m.type = "unauthorized"
      /\ txid = 1
    BY <1>1, RecvMeaning DEF Recv
<1>3. /\ m.nonce \in Nonces
      /\ ~anonymous
      /\ \A q \in requests : q.tx = 1 /\ q.auth # "long-term"
      /\ allocation = NoAllocation
      /\ rejected = {}
      /\ HasTarget(ctx)
    BY <1>2 DEF IInv, RepliesInv, RequestsInv, AllocationInv, ClientInv
<1>4. /\ txid' = 2
      /\ challenge' = m.nonce
      /\ UNCHANGED <<ctx, replies, allocation, nonce, rejected, anonymous, credsValid>>
    BY <1>1, <1>2 DEF SendAuthed, SendAuthedError, NewTxid, Recv, serverVars
<1>5. requests' \in {requests, requests \cup {[tx |-> 2, auth |-> "long-term", nonce |-> m.nonce]}}
    BY <1>4 DEF SendAuthed, SendAuthedError
<1>next. \/ pc' = "recv2" /\ result' = result
         \/ pc' = "done" /\ result' = [status |-> "fail", why |-> "local"]
    BY DEF SendAuthed, SendAuthedError, Finish
<1>open. /\ result.why = "running" /\ result.status = "none"
         /\ result' \in Result
         /\ \/ pc' = "recv2" /\ result'.status = "none" /\ result'.why = "running"
            \/ pc' = "done" /\ result'.status = "fail" /\ result'.why = "local"
    <2>1. result \in Result /\ result.status = "none" /\ result.why = "running"
        BY <1>2 DEF IInv, TypeOK, ClientInv
    <2>2. [status |-> "fail", why |-> "local"] \in Result
        BY DEF Result, Why
    <2> QED
        BY <1>next, <2>1, <2>2
<1>6. TypeOK'
    <2>1. requests' \in SUBSET Request
        BY <1>3, <1>5 DEF IInv, TypeOK, ServerTypeOK, Request, Auth
    <2> QED
        BY <1>3, <1>4, <1>open, <2>1 DEF IInv, TypeOK, ServerTypeOK
<1>7. ClientInv'
    <2>1. ctx.session = NoSession
        BY <1>open DEF IInv, ClientInv
    <2> QED
        BY <1>1, <1>3, <1>4, <1>open, <2>1 DEF ClientInv, HasTarget, HasCredentials
<1>8. RequestsInv'
    BY <1>3, <1>4, <1>5, <1>open DEF RequestsInv
<1>9. RepliesInv'
    BY <1>2, <1>4 DEF IInv, RepliesInv
<1>10. AllocationInv'
    BY <1>3, <1>4 DEF AllocationInv
<1>11. CredentialsOnDemand'
    BY <1>1, <1>2, <1>3, <1>4, <1>5 DEF CredentialsOnDemand, HasCredentials
<1>12. ResultInv'
    BY <1>open DEF ResultInv
<1> QED
    BY <1>6, <1>7, <1>8, <1>9, <1>10, <1>11, <1>12 DEF IInv

\* A Pass: what the client keeps is what the server holds.
LEMMA PassKeeps ==
    ASSUME IInv, NEW m \in replies \cup Strays, Anonymous(m) \/ LongTerm(m)
    PROVE  IInv'
<1>1. /\ m \in Reply
      /\ m.tx = txid
      /\ m.type = "success"
      /\ m.relayed = allocation.relayed
      /\ allocation.tx = txid
      /\ txid \in {1, 2}
    BY RecvMeaning DEF Anonymous, LongTerm, IInv, RepliesInv
<1>2. allocation # NoAllocation
    BY <1>1 DEF NoAllocation
<1>3. /\ m.relayed \in Addrs
      /\ txid = IF allocation.auth = "long-term" THEN 2 ELSE 1
    BY <1>1, <1>2 DEF IInv, AllocationInv
<1>4. /\ pc' = "done"
      /\ result.why = "running"
      /\ ctx.session = NoSession
      /\ UNCHANGED <<requests, txid, challenge, replies, allocation, nonce, rejected,
                     anonymous, credsValid>>
    BY DEF Anonymous, LongTerm, Recv, Finish, serverVars, IInv, TypeOK, ClientInv
<1>5. ASSUME Anonymous(m) PROVE IInv'
    <2>1. allocation.auth # "long-term"
        BY <1>3, <1>5, RecvMeaning DEF Anonymous
    <2>2. /\ result' = [status |-> "pass", why |-> "anonymous"]
          /\ ctx' = [ctx EXCEPT !.relayed = m.relayed]
        BY <1>5 DEF Anonymous, Finish
    <2>3. /\ result'.status = "pass"
          /\ result'.why = "anonymous"
          /\ result' \in Result
        BY <2>2 DEF Result, Why
    <2>4. /\ ctx' \in ProbeContext
          /\ ctx'.relayed = m.relayed
          /\ ctx'.user = ctx.user /\ ctx'.pass = ctx.pass
          /\ ctx'.session = NoSession
        BY <1>3, <1>4, <2>2 DEF IInv, TypeOK, ProbeContext
    <2>5. TypeOK'
        BY <1>4, <2>3, <2>4 DEF IInv, TypeOK, ServerTypeOK
    <2>6. ClientInv'
        BY <1>4, <2>3, <2>4 DEF ClientInv
    <2>7. RequestsInv' /\ RepliesInv' /\ AllocationInv'
        BY <1>4 DEF IInv, RequestsInv, RepliesInv, AllocationInv
    <2>8. CredentialsOnDemand'
        BY <1>4, <2>4 DEF IInv, CredentialsOnDemand, HasCredentials
    <2>9. ResultInv'
        BY <1>1, <1>2, <1>4, <2>1, <2>3, <2>4 DEF ResultInv
    <2> QED
        BY <2>5, <2>6, <2>7, <2>8, <2>9 DEF IInv
<1>6. ASSUME LongTerm(m) PROVE IInv'
    <2>1. allocation.auth = "long-term" /\ challenge \in Nonces
        <3>1. pc = "recv2"
            BY <1>6 DEF LongTerm, Recv
        <3>2. txid = 2 /\ challenge \in Nonces
            BY <3>1 DEF IInv, ClientInv
        <3> QED
            BY <1>3, <3>2
    <2>2. /\ result' = [status |-> "pass", why |-> "long-term"]
          /\ ctx' = [ctx EXCEPT !.relayed = m.relayed,
                                !.session = [relayed |-> m.relayed, nonce |-> challenge]]
        BY <1>6 DEF LongTerm, Finish
    <2>3. /\ result'.status = "pass"
          /\ result'.why = "long-term"
          /\ result' \in Result
        BY <2>2 DEF Result, Why
    <2>4. [relayed |-> m.relayed, nonce |-> challenge] \in Sessions
        BY <1>3, <2>1 DEF Sessions
    <2>5. /\ ctx' \in ProbeContext
          /\ ctx'.relayed = m.relayed
          /\ ctx'.user = ctx.user /\ ctx'.pass = ctx.pass
          /\ ctx'.session = [relayed |-> m.relayed, nonce |-> challenge]
        BY <1>3, <1>4, <2>2, <2>4 DEF IInv, TypeOK, ProbeContext
    <2>6. ctx'.session.relayed = m.relayed
        BY <2>5
    <2>7. TypeOK'
        BY <1>4, <2>3, <2>5 DEF IInv, TypeOK, ServerTypeOK
    <2>8. ClientInv'
        BY <1>4, <2>3 DEF ClientInv
    <2>9. RequestsInv' /\ RepliesInv' /\ AllocationInv'
        BY <1>4 DEF IInv, RequestsInv, RepliesInv, AllocationInv
    <2>10. CredentialsOnDemand'
        BY <1>4, <2>5 DEF IInv, CredentialsOnDemand, HasCredentials
    <2>11. ResultInv'
        BY <1>1, <1>2, <1>4, <2>1, <2>3, <2>5, <2>6 DEF ResultInv
    <2> QED
        BY <2>7, <2>8, <2>9, <2>10, <2>11 DEF IInv
<1> QED
    BY <1>5, <1>6

LEMMA ClientKeeps == IInv /\ ClientNext => IInv'
<1> SUFFICES ASSUME IInv, ClientNext PROVE IInv'
    OBVIOUS
<1>1. ASSUME Skip \/ LocalError \/ Timeout \/ RecvError PROVE IInv'
    <2>1. PICK s \in {"fail", "skip"}, w \in {"no target", "local", "timeout"} :
             Return(s, w) /\ pc # "done" /\ UNCHANGED serverVars
        BY <1>1 DEF Skip, LocalError, Timeout, RecvError
    <2> QED
        BY <2>1, ReturnKeeps DEF Why
<1>2. CASE SendUnauth
    BY <1>2, SendUnauthKeeps
<1>3. ASSUME NEW m \in replies \cup Strays, Malformed(m) \/ Refused(m) PROVE IInv'
    <2>1. PICK w \in {"malformed", "refused"} :
             Return("fail", w) /\ pc # "done" /\ UNCHANGED serverVars
        BY <1>3 DEF Malformed, Refused, Recv
    <2> QED
        BY <2>1, ReturnKeeps DEF Why
<1>4. ASSUME NEW m \in replies \cup Strays, ChallengeOnly(m) PROVE IInv'
    <2>1. Recv("recv1", m, "unauthorized") /\ ~HasCredentials(ctx)
          /\ Return("warn", "challenge only")
        BY <1>4 DEF ChallengeOnly
    <2>2. pc = "recv1" /\ UNCHANGED serverVars
        BY <2>1 DEF Recv
    <2>3. ~anonymous
        BY <2>1, RecvMeaning DEF IInv, RepliesInv
    <2> QED
        BY <2>1, <2>2, <2>3, ReturnKeeps DEF Why
<1>5. ASSUME NEW m \in replies \cup Strays, CredentialsRejected(m) PROVE IInv'
    <2>1. Recv("recv2", m, "unauthorized") /\ Return("fail", "credentials")
        BY <1>5 DEF CredentialsRejected
    <2>2. pc = "recv2" /\ UNCHANGED serverVars
        BY <2>1 DEF Recv
    <2>3. 2 \in rejected
        BY <2>1, RecvMeaning DEF IInv, RepliesInv
    <2> QED
        BY <2>1, <2>2, <2>3, ReturnKeeps DEF Why
<1> QED
    BY <1>1, <1>2, <1>3, <1>4, <1>5, SendAuthedKeeps, PassKeeps DEF ClientNext, Progress

-----------------------------------------------------------------------------
(* Steps of the server *)

\* A reply that says nothing a Pass or a rejection could rest on.
LEMMA PlainReplyKeeps ==
    ASSUME IInv, NEW m \in requests,
           Refuse(m) \/ Garble(m), UNCHANGED <<pc, txid, challenge, ctx, result>>
    PROVE  IInv'
<1>1. PICK t \in {"error", "garbled"} :
         replies' = replies \cup {[type |-> t, tx |-> m.tx, relayed |-> NoAddr, nonce |-> 0]}
    BY DEF Refuse, Garble, Send
<1>2. UNCHANGED <<requests, allocation, nonce, rejected, anonymous, credsValid,
                  pc, txid, challenge, ctx, result>>
    BY DEF Refuse, Garble, Steady
<1>3. /\ m.tx \in 1..txid
      /\ m.tx \in Nat
    BY DEF IInv, TypeOK, ServerTypeOK, Request, RequestsInv
<1>4. TypeOK'
    <2>1. replies' \in SUBSET Reply
        BY <1>1, <1>3 DEF IInv, TypeOK, ServerTypeOK, Reply
    <2> QED
        BY <1>2, <2>1 DEF IInv, TypeOK, ServerTypeOK
<1>5. RepliesInv'
    BY <1>1, <1>2, <1>3 DEF IInv, RepliesInv
<1>6. ClientInv' /\ RequestsInv' /\ AllocationInv' /\ ResultInv'
    BY <1>2 DEF IInv, ClientInv, RequestsInv, AllocationInv, ResultInv
<1>7. CredentialsOnDemand'
    BY <1>1, <1>2 DEF IInv, CredentialsOnDemand
<1> QED
    BY <1>4, <1>5, <1>6, <1>7 DEF IInv

LEMMA RepeatKeeps ==
    ASSUME IInv, NEW m \in requests,
           Repeat(m), UNCHANGED <<pc, txid, challenge, ctx, result>>
    PROVE  IInv'
<1>1. /\ allocation.tx = m.tx
      /\ replies' = replies \cup
            {[type |-> "success", tx |-> m.tx, relayed |-> allocation.relayed, nonce |-> 0]}
      /\ UNCHANGED <<requests, allocation, nonce, rejected, anonymous, credsValid,
                     pc, txid, challenge, ctx, result>>
    BY DEF Repeat, Send, Steady
<1>2. /\ m.tx \in 1..txid
      /\ m.tx \in Nat
    BY DEF IInv, TypeOK, ServerTypeOK, Request, RequestsInv
<1>3. TypeOK'
    <2>1. replies' \in SUBSET Reply
        BY <1>1, <1>2 DEF IInv, TypeOK, ServerTypeOK, Reply, Allocation
    <2> QED
        BY <1>1, <2>1 DEF IInv, TypeOK, ServerTypeOK
<1>4. RepliesInv'
    BY <1>1, <1>2 DEF IInv, RepliesInv
<1>5. ClientInv' /\ RequestsInv' /\ AllocationInv' /\ ResultInv'
    BY <1>1 DEF IInv, ClientInv, RequestsInv, AllocationInv, ResultInv
<1>6. CredentialsOnDemand'
    BY <1>1 DEF IInv, CredentialsOnDemand
<1> QED
    BY <1>3, <1>4, <1>5, <1>6 DEF IInv

\* No result but a Pass speaks of an allocation, so making the first one
\* disturbs none; and only a request of the kind the server accepts gets one.
LEMMA GrantKeeps ==
    ASSUME IInv, NEW m \in requests,
           Grant(m), UNCHANGED <<pc, txid, challenge, ctx, result>>
    PROVE  IInv'
<1>1. PICK r \in Addrs :
        /\ allocation' = [tx |-> m.tx, relayed |-> r, auth |-> m.auth]
        /\ replies' = replies \cup
              {[type |-> "success", tx |-> m.tx, relayed |-> r, nonce |-> 0]}
    BY DEF Grant, Send
<1>2. /\ allocation = NoAllocation
      /\ UNCHANGED <<requests, nonce, rejected, anonymous, credsValid,
                     pc, txid, challenge, ctx, result>>
      /\ m.auth # "long-term" => anonymous
    BY DEF Grant, Steady, Demands
<1>3. /\ m \in Request
      /\ m.tx \in 1..txid
      /\ m.tx \in Nat
      /\ m.tx = IF m.auth = "long-term" THEN 2 ELSE 1
      /\ m.auth \in Auth
    BY DEF IInv, TypeOK, ServerTypeOK, Request, RequestsInv
<1>4. /\ allocation'.tx = m.tx
      /\ allocation'.relayed = r
      /\ allocation'.auth = m.auth
      /\ allocation' \in Allocation
    BY <1>1, <1>3 DEF Allocation
<1>5. \A p \in replies : p.type # "success"
    <2> SUFFICES ASSUME NEW p \in replies, p.type = "success" PROVE FALSE
        OBVIOUS
    <2>1. p.tx = allocation.tx /\ p.tx \in 1..txid
        BY DEF IInv, RepliesInv
    <2>2. allocation.tx = 0 /\ txid \in 0..2
        BY <1>2 DEF NoAllocation, IInv, TypeOK
    <2> QED
        BY <2>1, <2>2
<1>6. TypeOK'
    <2>1. replies' \in SUBSET Reply
        BY <1>1, <1>3 DEF IInv, TypeOK, ServerTypeOK, Reply
    <2> QED
        BY <1>2, <1>4, <2>1 DEF IInv, TypeOK, ServerTypeOK
<1>7. RepliesInv'
    BY <1>1, <1>2, <1>3, <1>4, <1>5 DEF IInv, RepliesInv
<1>8. AllocationInv'
    BY <1>2, <1>3, <1>4 DEF IInv, AllocationInv
<1>9. ClientInv' /\ RequestsInv'
    BY <1>2 DEF IInv, ClientInv, RequestsInv
<1>10. ResultInv'
    BY <1>2 DEF IInv, ResultInv
<1>11. CredentialsOnDemand'
    BY <1>1, <1>2 DEF IInv, CredentialsOnDemand
<1> QED
    BY <1>6, <1>7, <1>8, <1>9, <1>10, <1>11 DEF IInv

LEMMA ChallengeKeeps ==
    ASSUME IInv, NEW m \in requests,
           Challenge(m), UNCHANGED <<pc, txid, challenge, ctx, result>>
    PROVE  IInv'
<1>1. /\ replies' = replies \cup
            {[type |-> "unauthorized", tx |-> m.tx, relayed |-> NoAddr, nonce |-> nonce]}
      /\ rejected' = IF m.auth = "long-term" THEN rejected \cup {m.tx} ELSE rejected
      /\ IF m.auth = "long-term" THEN ~credsValid ELSE ~anonymous
      /\ UNCHANGED <<requests, allocation, nonce, anonymous, credsValid,
                     pc, txid, challenge, ctx, result>>
    BY DEF Challenge, Send, Demands, Steady
<1>2. /\ m.tx \in 1..txid
      /\ m.tx \in Nat
      /\ m.tx = IF m.auth = "long-term" THEN 2 ELSE 1
      /\ nonce \in Nonces
    BY DEF IInv, TypeOK, ServerTypeOK, Request, RequestsInv
<1>3. TypeOK'
    <2>1. replies' \in SUBSET Reply
        BY <1>1, <1>2 DEF IInv, TypeOK, ServerTypeOK, Reply
    <2>2. rejected' \in SUBSET Nat
        BY <1>1, <1>2 DEF IInv, TypeOK, ServerTypeOK
    <2> QED
        BY <1>1, <2>1, <2>2 DEF IInv, TypeOK, ServerTypeOK
<1>4. RepliesInv'
    BY <1>1, <1>2 DEF IInv, RepliesInv
<1>5. AllocationInv'
    BY <1>1, <1>2 DEF IInv, AllocationInv
<1>6. ClientInv' /\ RequestsInv'
    BY <1>1 DEF IInv, ClientInv, RequestsInv
<1>7. ResultInv'
    BY <1>1 DEF IInv, ResultInv
<1>8. CredentialsOnDemand'
    BY <1>1 DEF IInv, CredentialsOnDemand
<1> QED
    BY <1>3, <1>4, <1>5, <1>6, <1>7, <1>8 DEF IInv

LEMMA NextIInv == IInv /\ [Next]_vars => IInv'
<1> SUFFICES ASSUME IInv, [Next]_vars PROVE IInv'
    OBVIOUS
<1>1. CASE ClientNext
    BY <1>1, ClientKeeps
<1>2. ASSUME ServerNext, UNCHANGED <<pc, txid, challenge, ctx, result>> PROVE IInv'
    <2>1. ASSUME RotateNonce PROVE IInv'
        <3>1. nonce' \in Nonces
            BY <2>1, MaxNonceAssumption DEF RotateNonce, IInv, TypeOK, ServerTypeOK
        <3> QED
            BY <1>2, <2>1, <3>1
               DEF RotateNonce, IInv, TypeOK, ServerTypeOK, ClientInv, RequestsInv,
                   RepliesInv, AllocationInv, CredentialsOnDemand, ResultInv
    <2> QED
        BY <1>2, <2>1, PlainReplyKeeps, RepeatKeeps, GrantKeeps, ChallengeKeeps DEF ServerNext
<1>3. CASE UNCHANGED vars
    BY <1>3 DEF vars, IInv, TypeOK, ServerTypeOK, ClientInv, RequestsInv,
                RepliesInv, AllocationInv, CredentialsOnDemand, ResultInv
<1> QED
    BY <1>1, <1>2, <1>3 DEF Next, Returned

-----------------------------------------------------------------------------
(* Theorems *)

\* Every variable keeps its type; no more than two transactions are opened
\* (turn_alloc.rs:84-212).
THEOREM TypeCorrect == Spec => []TypeOK
<1>1. IInv => TypeOK
    BY DEF IInv
<1> QED
    BY <1>1, InitIInv, NextIInv, PTL DEF Spec

\* A Pass reports an allocation the server really holds, and hands on a
\* session exactly when it was authenticated (turn_alloc.rs:109-124, 176-201).
THEOREM PassIsAllocatedHolds == Spec => []PassIsAllocated
<1>1. IInv => PassIsAllocated
    <2> SUFFICES ASSUME IInv, result.status = "pass" PROVE PassIsAllocated
        BY DEF PassIsAllocated
    <2>1. CASE result.why = "anonymous"
        BY <2>1 DEF IInv, ClientInv, ResultInv, PassIsAllocated
    <2>2. CASE result.why = "long-term"
        <3>1. /\ allocation # NoAllocation
              /\ allocation.auth = "long-term"
              /\ ctx.relayed = allocation.relayed
              /\ ctx.session.relayed = allocation.relayed
              /\ allocation.relayed \in Addrs
            BY <2>2 DEF IInv, ResultInv, AllocationInv
        <3>2. ctx.session # NoSession
            BY <3>1, NoAddrAssumption DEF NoSession
        <3> QED
            BY <3>1, <3>2 DEF PassIsAllocated
    <2> QED
        BY <2>1, <2>2 DEF IInv, ClientInv
<1> QED
    BY <1>1, InitIInv, NextIInv, PTL DEF Spec

\* Only a server that refused the credentials is said to have refused them
\* (turn_alloc.rs:202-207).
THEOREM CredentialsBlamedFairlyHolds == Spec => []CredentialsBlamedFairly
<1>1. IInv => CredentialsBlamedFairly
    BY DEF IInv, ClientInv, ResultInv, AllocationInv, CredentialsBlamedFairly
<1> QED
    BY <1>1, InitIInv, NextIInv, PTL DEF Spec

\* Credentials leave the client only in answer to a challenge of the server,
\* and only when both were given (turn_alloc.rs:131-158).
THEOREM CredentialsOnDemandHolds == Spec => []CredentialsOnDemand
<1>1. IInv => CredentialsOnDemand
    BY DEF IInv
<1> QED
    BY <1>1, InitIInv, NextIInv, PTL DEF Spec

\* A check that stops at the challenge leaves nothing on the server
\* (turn_alloc.rs:131-150).
THEOREM ChallengeOnlyIsHarmlessHolds == Spec => []ChallengeOnlyIsHarmless
<1>1. IInv => ChallengeOnlyIsHarmless
    <2> SUFFICES ASSUME IInv, result.status = "warn" PROVE ChallengeOnlyIsHarmless
        BY DEF ChallengeOnlyIsHarmless
    <2>1. /\ ~HasCredentials(ctx)
          /\ ~anonymous
          /\ \A q \in requests : q.auth # "long-term"
        BY DEF IInv, ClientInv, ResultInv
    <2>2. allocation = NoAllocation
        BY <2>1 DEF IInv, AllocationInv
    <2>3. rejected = {}
        BY <2>1 DEF IInv, AllocationInv
    <2> QED
        BY <2>1, <2>2, <2>3 DEF ChallengeOnlyIsHarmless
<1> QED
    BY <1>1, InitIInv, NextIInv, PTL DEF Spec

\* The message exchange implements the one-step contract that the pipeline
\* composition is built on (turn_alloc.rs:54-212).
THEOREM ImplementsContractHolds == Spec => ImplementsContract
<1>1. Init => Contract!Init
    <2> SUFFICES ASSUME Init PROVE Contract!Init
        OBVIOUS
    <2>1. TypeOK
        BY InitIInv DEF IInv
    <2> QED
        BY <2>1 DEF Init, TypeOK, Contract!Init, Contract!ProbeContext, ProbeContext,
                    Contract!Sessions, Sessions, Contract!NoSession, NoSession
<1>2. IInv /\ [Next]_vars => [Contract!Run]_<<result.status, ctx>>
    <2> SUFFICES ASSUME IInv, [Next]_vars PROVE [Contract!Run]_<<result.status, ctx>>
        OBVIOUS
    <2>1. ASSUME NEW a \in AllocOutcomes(ctx), result.status = "none",
                 result'.status = a.status, ctx' = a.ctx
          PROVE  Contract!Run
        BY <2>1 DEF Contract!Run
    <2>2. ASSUME pc # "done", NEW s, NEW w, Finish(s, w), UNCHANGED ctx,
                 Answer(s, ctx) \in AllocOutcomes(ctx)
          PROVE  Contract!Run
        <3>1. /\ result.status = "none"
              /\ result'.status = Answer(s, ctx).status
              /\ ctx' = Answer(s, ctx).ctx
            BY <2>2 DEF Finish, Answer, IInv, TypeOK
        <3> QED
            BY <2>1, <2>2, <3>1
    <2>3. HasTarget(ctx) => Answer("fail", ctx) \in AllocOutcomes(ctx)
        BY DEF AllocOutcomes
    <2>4. CASE Skip
        <3>1. Answer("skip", ctx) \in AllocOutcomes(ctx)
            BY <2>4 DEF Skip, AllocOutcomes
        <3> QED
            BY <2>2, <2>4, <3>1 DEF Skip, Return
    <2>5. ASSUME LocalError \/ Timeout \/ RecvError PROVE Contract!Run
        <3>1. PICK w : Return("fail", w) /\ pc # "done" /\ HasTarget(ctx)
            BY <2>5 DEF LocalError, Timeout, RecvError, IInv, ClientInv
        <3> QED
            BY <2>2, <2>3, <3>1 DEF Return
    <2>6. ASSUME NEW m \in replies \cup Strays,
                 \/ Malformed(m) \/ Refused(m) \/ CredentialsRejected(m)
                 \/ SendAuthedError(m)
          PROVE  Contract!Run
        <3>1. PICK w : Finish("fail", w) /\ UNCHANGED ctx
            BY <2>6 DEF Malformed, Refused, CredentialsRejected, SendAuthedError, Return
        <3>2. pc # "done" /\ HasTarget(ctx)
            BY <2>6 DEF Malformed, Refused, CredentialsRejected, SendAuthedError, Recv,
                        IInv, ClientInv
        <3> QED
            BY <2>2, <2>3, <3>1, <3>2
    <2>7. ASSUME NEW m \in replies \cup Strays, ChallengeOnly(m) PROVE Contract!Run
        <3>1. pc = "recv1" /\ ~HasCredentials(ctx) /\ Finish("warn", "challenge only")
              /\ UNCHANGED ctx
            BY <2>7 DEF ChallengeOnly, Recv, Return
        <3>2. Answer("warn", ctx) \in AllocOutcomes(ctx)
            BY <3>1 DEF IInv, ClientInv, AllocOutcomes
        <3> QED
            BY <2>2, <3>1, <3>2
    <2>8. ASSUME NEW m \in replies \cup Strays, Anonymous(m) \/ LongTerm(m)
          PROVE  m.relayed \in Addrs /\ result.status = "none" /\ HasTarget(ctx)
        <3>1. m.tx = txid /\ m.type = "success" /\ txid # 0 /\ m \in replies
            BY <2>8, RecvMeaning DEF Anonymous, LongTerm
        <3>2. m.relayed = allocation.relayed /\ allocation # NoAllocation
            BY <3>1 DEF IInv, RepliesInv, NoAllocation
        <3>3. pc \in {"recv1", "recv2"}
            BY <2>8 DEF Anonymous, LongTerm, Recv
        <3> QED
            BY <3>2, <3>3 DEF IInv, AllocationInv, ClientInv, TypeOK
    <2>9. ASSUME NEW m \in replies \cup Strays, Anonymous(m) PROVE Contract!Run
        <3> DEFINE a == Answer("pass", [ctx EXCEPT !.relayed = m.relayed])
        <3>1. a \in AllocOutcomes(ctx)
            BY <2>8, <2>9 DEF AllocOutcomes
        <3>2. result'.status = a.status /\ ctx' = a.ctx
            BY <2>9 DEF Anonymous, Finish, Answer
        <3> QED
            BY <2>1, <2>8, <2>9, <3>1, <3>2
    <2>10. ASSUME NEW m \in replies \cup Strays, LongTerm(m) PROVE Contract!Run
        <3> DEFINE u == [relayed |-> m.relayed, nonce |-> challenge]
                   a == Answer("pass", [ctx EXCEPT !.relayed = u.relayed, !.session = u])
        <3>1. u \in Sessions /\ HasCredentials(ctx)
            BY <2>8, <2>10 DEF LongTerm, Recv, IInv, ClientInv, Sessions
        <3>2. a \in AllocOutcomes(ctx)
            BY <2>8, <2>10, <3>1 DEF AllocOutcomes
        <3>3. result'.status = a.status /\ ctx' = a.ctx
            BY <2>10 DEF LongTerm, Finish, Answer
        <3> QED
            BY <2>1, <2>8, <2>10, <3>2, <3>3
    <2>11. ASSUME NEW m \in replies \cup Strays, SendAuthed(m)
           PROVE  UNCHANGED <<result.status, ctx>>
        BY <2>11 DEF SendAuthed
    <2>12. SendUnauth \/ UNCHANGED <<pc, txid, challenge, ctx, result>> \/ UNCHANGED vars
              => UNCHANGED <<result.status, ctx>>
        BY DEF SendUnauth, vars
    <2> QED
        BY <2>4, <2>5, <2>6, <2>7, <2>9, <2>10, <2>11, <2>12 DEF Next, ClientNext, Progress, Returned
<1> QED
    BY <1>1, <1>2, InitIInv, NextIInv, PTL DEF Spec, ImplementsContract, Contract!Spec
=============================================================================
