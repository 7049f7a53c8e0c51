-------------------------- MODULE TurnsAllocProofs --------------------------
(***************************************************************************)
(* Theorems about the allocation over TLS for every set of addresses and   *)
(* nonces, every server and every way a connection may end.                *)
(***************************************************************************)
EXTENDS TurnsAlloc, SequenceTheorems, TLAPS

-----------------------------------------------------------------------------
(* The inductive invariant.  Of request and response one at most is on its *)
(* way, and it belongs to the round the client is in; what a response says *)
(* the server has done.                                                    *)

StageInv ==
    /\ pc \in {"start", "send1"} => txid = 0 /\ toServer = <<>> /\ toClient = <<>>
    /\ pc = "recv1" => txid = 1
    /\ pc = "recv2" => txid = 2 /\ HasCredentials(ctx)
    /\ pc \in {"send1", "recv1", "recv2"} => CanTry(ctx)
    /\ result.status = "none" <=> result.why = "running"

RequestsInv ==
    \A k \in 1..Len(toServer) : /\ toServer[k].tx = txid /\ toServer[k].tx # 0
                                /\ pc = "recv2" => toServer[k].auth = "long-term"

RepliesInv ==
    Waiting => \A k \in 1..Len(toClient) :
        /\ toClient[k].tx = txid
        /\ toClient[k].type = "success" =>
              /\ allocation # NoAllocation
              /\ allocation.relayed = toClient[k].relayed
              /\ toClient[k].relayed \in Addrs
        /\ toClient[k].type = "unauthorized" /\ pc = "recv2" => txid \in rejected /\ ~credsValid
        /\ toClient[k].type = "garbled" => garbled

ResultInv ==
    /\ result.status = "pass" => toServer = <<>>
    /\ PassIsAllocated /\ MalformedHasCause /\ CredentialsBlamedFairly

IInv == TypeOK /\ StageInv /\ RequestsInv /\ RepliesInv /\ ResultInv

-----------------------------------------------------------------------------
(* What is on the way *)

LEMMA AppendToEmpty ==
    ASSUME NEW S, NEW s \in Seq(S), s = <<>>, NEW x \in S
    PROVE  /\ Append(s, x) \in Seq(S) /\ Len(Append(s, x)) = 1
           /\ Append(s, x)[1] = x
OBVIOUS

LEMMA OnlyOne ==
    ASSUME NEW S, NEW s \in Seq(S), s # <<>>, Len(s) <= 1
    PROVE  Len(s) = 1 /\ Head(s) = s[1] /\ Head(s) \in S /\ Tail(s) = <<>>
<1>1. Len(s) \in Nat /\ Len(s) # 0
    BY EmptySeq
<1>2. Len(s) = 1
    BY <1>1
<1>3. /\ Head(s) = s[1] /\ Head(s) \in S
      /\ Tail(s) \in Seq(S) /\ Len(Tail(s)) = 0
    BY <1>2, HeadTailProperties
<1>4. Tail(s) = <<>>
    BY <1>3, EmptySeq
<1> QED BY <1>2, <1>3, <1>4

\* A response on the way leaves no room for a request, nor the other way.
LEMMA OneOnTheWay ==
    ASSUME TypeOK
    PROVE  /\ toServer # <<>> => /\ toClient = <<>> /\ Len(toServer) = 1
                                 /\ Head(toServer) = toServer[1] /\ Head(toServer) \in Request
                                 /\ Tail(toServer) = <<>>
           /\ toClient # <<>> => /\ toServer = <<>> /\ Len(toClient) = 1
                                 /\ Head(toClient) = toClient[1] /\ Head(toClient) \in Reply
                                 /\ Tail(toClient) = <<>>
<1>1. /\ toServer \in Seq(Request) /\ toClient \in Seq(Reply)
      /\ Len(toServer) \in Nat /\ Len(toClient) \in Nat
      /\ Len(toServer) + Len(toClient) <= 1
    BY DEF TypeOK
<1>2. ASSUME toServer # <<>>
      PROVE  /\ toClient = <<>> /\ Len(toServer) = 1
             /\ Head(toServer) = toServer[1] /\ Head(toServer) \in Request
             /\ Tail(toServer) = <<>>
    <2>1. Len(toServer) >= 1
        BY <1>1, <1>2
    <2>2. Len(toServer) <= 1 /\ Len(toClient) = 0
        BY <1>1, <2>1
    <2> QED BY <1>1, <1>2, <2>2, OnlyOne
<1>3. ASSUME toClient # <<>>
      PROVE  /\ toServer = <<>> /\ Len(toClient) = 1
             /\ Head(toClient) = toClient[1] /\ Head(toClient) \in Reply
             /\ Tail(toClient) = <<>>
    <2>1. Len(toClient) >= 1
        BY <1>1, <1>3
    <2>2. Len(toClient) <= 1 /\ Len(toServer) = 0
        BY <1>1, <2>1
    <2> QED BY <1>1, <1>3, <2>2, OnlyOne
<1> QED BY <1>2, <1>3

-----------------------------------------------------------------------------
(* Initial states *)

LEMMA InitIInv == Init => IInv
<1> SUFFICES ASSUME Init PROVE IInv
    OBVIOUS
<1>1. ctx \in ProbeContext
    BY DEF Init, NewContext, ProbeContext, NoSession
<1>2. TypeOK
    BY <1>1 DEF Init, TypeOK
<1>3. StageInv
    BY DEF Init, StageInv
<1>4. RequestsInv /\ RepliesInv
    BY DEF Init, RequestsInv, RepliesInv, Waiting
<1>5. ResultInv
    BY DEF Init, ResultInv, PassIsAllocated, MalformedHasCause, CredentialsBlamedFairly
<1> QED BY <1>2, <1>3, <1>4, <1>5 DEF IInv

-----------------------------------------------------------------------------
(* The check's steps *)

\* Returns that receive nothing and leave everything but the result alone.
LEMMA ReturnKeepsIInv ==
    ASSUME IInv, Skip \/ NoConnection \/ SendError \/ Timeout \/ RecvError
    PROVE  IInv'
<1>1. PICK s, w : /\ Return(s, w) /\ UNCHANGED <<server, link>> /\ pc # "done"
                  /\ s \in {"skip", "fail"}
                  /\ w \in {"no target", "name", "connect", "handshake", "timeout", "send", "recv"}
    BY DEF Skip, NoConnection, SendError, Timeout, RecvError, Waiting
<1>2. /\ pc' = "done" /\ result' = [status |-> s, why |-> w]
      /\ UNCHANGED <<txid, challenge, ctx, server, link>>
    BY <1>1 DEF Return, Finish
<1>3. TypeOK'
    BY <1>1, <1>2 DEF IInv, TypeOK, server, link
<1>4. StageInv'
    BY <1>1, <1>2 DEF StageInv
<1>5. RequestsInv' /\ RepliesInv'
    BY <1>2 DEF IInv, RequestsInv, RepliesInv, Waiting, link
<1>6. ResultInv'
    BY <1>1, <1>2 DEF ResultInv, PassIsAllocated, MalformedHasCause, CredentialsBlamedFairly
<1> QED BY <1>3, <1>4, <1>5, <1>6 DEF IInv

\* What recv_framed hands over is the only message there was.
LEMMA RecvMeans ==
    ASSUME IInv, NEW round \in {"recv1", "recv2"}, NEW outcome, Recv(round, outcome)
    PROVE  /\ pc = round /\ result.status = "none" /\ result.why = "running"
           /\ toServer = <<>> /\ toClient' = <<>> /\ CanTry(ctx)
           /\ Head(toClient) \in Reply
           /\ Head(toClient).tx = txid /\ outcome = Head(toClient).type
           /\ outcome = "success" => /\ allocation # NoAllocation
                                     /\ allocation.relayed = Head(toClient).relayed
                                     /\ Head(toClient).relayed \in Addrs
           /\ outcome = "unauthorized" /\ round = "recv2" => txid \in rejected /\ ~credsValid
           /\ outcome = "garbled" => garbled
           /\ UNCHANGED <<up, server>>
<1>1. /\ pc = round /\ toClient # <<>> /\ toClient' = Tail(toClient) /\ UNCHANGED <<up, server>>
      /\ outcome = IF Head(toClient).tx # txid THEN "garbled" ELSE Head(toClient).type
    BY DEF Recv, Readable
<1>2. /\ toServer = <<>> /\ Len(toClient) = 1 /\ Head(toClient) = toClient[1]
      /\ Head(toClient) \in Reply /\ Tail(toClient) = <<>>
    BY <1>1, OneOnTheWay DEF IInv
<1>3. Waiting /\ 1 \in 1..Len(toClient)
    BY <1>1, <1>2 DEF Waiting
<1>4. /\ Head(toClient).tx = txid
      /\ Head(toClient).type = "success" =>
            /\ allocation # NoAllocation
            /\ allocation.relayed = Head(toClient).relayed
            /\ Head(toClient).relayed \in Addrs
      /\ Head(toClient).type = "unauthorized" /\ pc = "recv2" => txid \in rejected /\ ~credsValid
      /\ Head(toClient).type = "garbled" => garbled
    BY <1>2, <1>3 DEF IInv, RepliesInv
<1>5. result.status = "none" /\ result.why = "running" /\ CanTry(ctx)
    BY <1>1 DEF IInv, TypeOK, StageInv
<1> QED BY <1>1, <1>2, <1>4, <1>5

\* A response that ends the check.
LEMMA AnswerKeepsIInv ==
    ASSUME IInv, NEW round \in {"recv1", "recv2"}, NEW outcome, Recv(round, outcome),
           NEW s \in {"pass", "warn", "fail"}, NEW w, Finish(s, w), w # "running",
           ctx' \in ProbeContext, txid' \in {txid, txid + 1}, txid' \in 0..2,
           challenge' \in Nonces \cup {0}, UNCHANGED toServer,
           s = "pass" => outcome = "success" /\ ctx'.relayed = Head(toClient).relayed,
           w = "malformed" => outcome = "garbled",
           w = "credentials" => outcome = "unauthorized" /\ round = "recv2" /\ txid' = txid
    PROVE  IInv'
<1>1. /\ pc' = "done" /\ result' = [status |-> s, why |-> w]
      /\ toServer = <<>> /\ toServer' = <<>> /\ toClient' = <<>>
      /\ UNCHANGED <<up, faulty, peer, allocation, rejected, garbled, anonymous, credsValid>>
    BY RecvMeans DEF Finish, server
<1>2. TypeOK'
    BY <1>1 DEF TypeOK
<1>3. StageInv'
    BY <1>1 DEF StageInv
<1>4. RequestsInv' /\ RepliesInv'
    BY <1>1 DEF RequestsInv, RepliesInv, Waiting
<1>5. PassIsAllocated'
    <2>1. s = "pass" => allocation # NoAllocation /\ ctx'.relayed = allocation.relayed
        BY RecvMeans
    <2> QED BY <1>1, <2>1 DEF PassIsAllocated, NoAllocation
<1>6. MalformedHasCause'
    BY <1>1, RecvMeans DEF MalformedHasCause
<1>7. CredentialsBlamedFairly'
    BY <1>1, RecvMeans DEF CredentialsBlamedFairly
<1> QED BY <1>1, <1>2, <1>3, <1>4, <1>5, <1>6, <1>7 DEF IInv, ResultInv

LEMMA AnsweredKeepsIInv ==
    ASSUME IInv,
           Malformed \/ Refused \/ Anonymous \/ ChallengeOnly \/ CredentialsRejected \/ LongTerm
    PROVE  IInv'
<1>1. ctx \in ProbeContext /\ txid \in 0..2 /\ challenge \in Nonces \cup {0}
    BY DEF IInv, TypeOK
<1>2. CASE Malformed
    <2>1. PICK round \in {"recv1", "recv2"} : Recv(round, "garbled")
        BY <1>2 DEF Malformed
    <2> QED BY <1>1, <1>2, <2>1, AnswerKeepsIInv DEF Malformed, Return
<1>3. CASE Refused
    <2>1. PICK round \in {"recv1", "recv2"} : Recv(round, "error")
        BY <1>3 DEF Refused
    <2> QED BY <1>1, <1>3, <2>1, AnswerKeepsIInv DEF Refused, Return
<1>4. CASE Anonymous \/ LongTerm
    <2>1. PICK round \in {"recv1", "recv2"}, w \in {"anonymous", "long-term"} :
              /\ Recv(round, "success") /\ Finish("pass", w)
              /\ ctx' = [ctx EXCEPT !.relayed = Head(toClient).relayed]
              /\ UNCHANGED <<txid, challenge, toServer>>
        BY <1>4 DEF Anonymous, LongTerm
    <2>2. Head(toClient).relayed \in Addrs
        BY <2>1, RecvMeans
    <2>3. ctx' \in ProbeContext /\ ctx'.relayed = Head(toClient).relayed
        BY <1>1, <2>1, <2>2 DEF ProbeContext
    <2> QED BY <1>1, <2>1, <2>3, AnswerKeepsIInv
<1>5. CASE ChallengeOnly
    <2>1. /\ Recv("recv1", "unauthorized") /\ Finish("warn", "challenge only")
          /\ UNCHANGED <<txid, challenge, ctx, toServer>>
        BY <1>5 DEF ChallengeOnly, Return
    <2>2. /\ ctx' \in ProbeContext /\ challenge' \in Nonces \cup {0}
          /\ txid' \in {txid, txid + 1} /\ txid' \in 0..2 /\ UNCHANGED toServer
        BY <1>1, <2>1
    <2>3. PICK w : w = "challenge only"
        OBVIOUS
    <2>4. Finish("warn", w) /\ w \notin {"running", "malformed", "credentials"}
        BY <2>1, <2>3
    <2> QED BY <2>1, <2>2, <2>4, AnswerKeepsIInv
<1>6. CASE CredentialsRejected
    BY <1>1, <1>6, AnswerKeepsIInv DEF CredentialsRejected, Return
<1> QED BY <1>2, <1>3, <1>4, <1>5, <1>6

LEMMA ConnectKeepsIInv ==
    ASSUME IInv, Connect
    PROVE  IInv'
<1>1. /\ pc = "start" /\ pc' = "send1" /\ CanTry(ctx) /\ up' = TRUE
      /\ UNCHANGED <<txid, challenge, ctx, result, toServer, toClient, server>>
    BY DEF Connect
<1>2. TypeOK'
    BY <1>1 DEF IInv, TypeOK, server
<1>3. StageInv'
    BY <1>1 DEF IInv, StageInv, CanTry
<1>4. RequestsInv' /\ RepliesInv'
    BY <1>1 DEF IInv, RequestsInv, RepliesInv, Waiting, StageInv
<1>5. ResultInv'
    BY <1>1 DEF IInv, ResultInv, PassIsAllocated, MalformedHasCause, CredentialsBlamedFairly, server
<1> QED BY <1>2, <1>3, <1>4, <1>5 DEF IInv

\* The request of a round is the only thing on the way.
LEMMA SendKeepsIInv ==
    ASSUME IInv, NEW auth \in {"none", "long-term"}, NEW n \in Nonces \cup {0},
           pc \in {"send1", "recv1"},
           pc' = IF pc = "send1" THEN "recv1" ELSE "recv2",
           pc = "recv1" => HasCredentials(ctx) /\ auth = "long-term",
           Send(auth, n, pc'), challenge' \in Nonces \cup {0},
           toServer = <<>>, toClient' = <<>>
    PROVE  IInv'
<1>1. /\ txid = (IF pc = "send1" THEN 0 ELSE 1) /\ txid' = txid + 1
      /\ result.status = "none" /\ result.why = "running" /\ CanTry(ctx)
    BY DEF IInv, StageInv, TypeOK, Send
<1> DEFINE m == [tx |-> txid', auth |-> auth, nonce |-> n]
<1>2. /\ toServer' = Append(toServer, m)
      /\ UNCHANGED <<ctx, result, up, faulty, peer, allocation, rejected, garbled, anonymous, credsValid>>
    BY DEF Send, server
<1>3. m \in Request /\ m.tx = txid' /\ txid' \in 1..2
    BY <1>1, NoncesAssumption DEF Request
<1> HIDE DEF m
<1>4. toServer' \in Seq(Request) /\ Len(toServer') = 1 /\ toServer'[1] = m
    BY <1>2, <1>3, AppendToEmpty DEF IInv, TypeOK
<1>5. toClient' \in Seq(Reply) /\ Len(toClient') = 0
    BY EmptySeq
<1>6. TypeOK'
    BY <1>1, <1>2, <1>3, <1>4, <1>5 DEF IInv, TypeOK
<1>7. StageInv'
    BY <1>1, <1>2 DEF StageInv, HasCredentials, CanTry, HasTarget
<1>8. RequestsInv'
    <2>1. \A k \in 1..Len(toServer') : k = 1
        BY <1>4
    <2>2. pc' = "recv2" => m.auth = "long-term"
        BY DEF m
    <2> QED BY <1>3, <1>4, <2>1, <2>2 DEF RequestsInv
<1>9. RepliesInv'
    BY <1>5 DEF RepliesInv
<1>10. ResultInv'
    BY <1>1, <1>2 DEF IInv, ResultInv, PassIsAllocated, MalformedHasCause, CredentialsBlamedFairly
<1> QED BY <1>6, <1>7, <1>8, <1>9, <1>10 DEF IInv

LEMMA SendsKeepIInv ==
    ASSUME IInv, SendUnauth \/ SendAuthed \/ SendAuthedError
    PROVE  IInv'
<1>1. CASE SendUnauth
    <2>1. /\ pc = "send1" /\ Send("none", 0, "recv1") /\ pc' = "recv1"
          /\ UNCHANGED <<challenge, toClient>>
        BY <1>1 DEF SendUnauth, Send
    <2>2. toServer = <<>> /\ toClient' = <<>> /\ challenge' \in Nonces \cup {0}
        BY <2>1 DEF IInv, StageInv, TypeOK
    <2> QED BY <2>1, <2>2, SendKeepsIInv
<1>2. CASE SendAuthed
    <2>1. /\ Recv("recv1", "unauthorized") /\ HasCredentials(ctx) /\ pc' = "recv2"
          /\ challenge' = Head(toClient).nonce
          /\ Send("long-term", Head(toClient).nonce, "recv2")
        BY <1>2 DEF SendAuthed, Send
    <2>2. /\ pc = "recv1" /\ toServer = <<>> /\ toClient' = <<>>
          /\ Head(toClient).nonce \in Nonces \cup {0}
        BY <2>1, RecvMeans DEF Reply
    <2> QED BY <2>1, <2>2, SendKeepsIInv
<1>3. CASE SendAuthedError
    <2>1. /\ Recv("recv1", "unauthorized") /\ Finish("fail", "send")
          /\ txid' = txid + 1 /\ challenge' = Head(toClient).nonce
          /\ UNCHANGED <<ctx, toServer>>
        BY <1>3 DEF SendAuthedError
    <2>2. txid = 1 /\ ctx \in ProbeContext /\ Head(toClient).nonce \in Nonces \cup {0}
        BY <2>1, RecvMeans DEF IInv, StageInv, TypeOK, Reply
    <2> QED BY <2>1, <2>2, AnswerKeepsIInv
<1> QED BY <1>1, <1>2, <1>3

-----------------------------------------------------------------------------
(* Server and connection *)

LEMMA ServeKeepsIInv ==
    ASSUME IInv, Serve
    PROVE  IInv'
<1> DEFINE m == Head(toServer)
<1>1. /\ toServer # <<>> /\ toServer' = Tail(toServer)
      /\ UNCHANGED <<pc, txid, challenge, ctx, result, up, faulty, peer, anonymous, credsValid>>
      /\ Grant(m) \/ Challenge(m) \/ Misbehave(m) \/ Bewildered
    BY DEF Serve, client
<1>2. /\ m \in Request /\ m.tx = txid /\ m.tx # 0 /\ toServer' = <<>> /\ toClient = <<>>
      /\ pc = "recv2" => m.auth = "long-term"
    <2>1. /\ m \in Request /\ m = toServer[1] /\ 1 \in 1..Len(toServer)
          /\ Tail(toServer) = <<>> /\ toClient = <<>>
        BY <1>1, OneOnTheWay DEF IInv
    <2>2. m.tx = txid /\ m.tx # 0 /\ (pc = "recv2" => m.auth = "long-term")
        <3>1. \A k \in 1..Len(toServer) : /\ toServer[k].tx = txid /\ toServer[k].tx # 0
                                          /\ pc = "recv2" => toServer[k].auth = "long-term"
            BY DEF IInv, RequestsInv
        <3>2. /\ toServer[1].tx = txid /\ toServer[1].tx # 0
              /\ pc = "recv2" => toServer[1].auth = "long-term"
            BY <2>1, <3>1
        <3> HIDE DEF m
        <3> QED BY <2>1, <3>2
    <2>3. toServer' = <<>>
        BY <1>1, <2>1
    <2> QED BY <2>1, <2>2, <2>3
<1>3. pc \notin {"start", "send1"} /\ result.status # "pass"
    BY <1>1 DEF IInv, StageInv, ResultInv
<1> HIDE DEF m
\* The response, if there is one, and what it stands for.
<1> DEFINE Meant(r) ==
        /\ r.tx = txid
        /\ r.type = "success" => /\ allocation' # NoAllocation
                                 /\ allocation'.relayed = r.relayed
                                 /\ r.relayed \in Addrs
        /\ r.type = "unauthorized" /\ pc = "recv2" => txid \in rejected' /\ ~credsValid
        /\ r.type = "garbled" => garbled'
<1>4. \/ toClient' = toClient
      \/ \E r \in Reply : toClient' = Append(toClient, r) /\ Meant(r)
    <2>0. m.tx = txid /\ txid \in Nat
        BY <1>2 DEF IInv, TypeOK
    <2>1. CASE Grant(m)
        <3>1. PICK a \in Addrs :
                  /\ allocation' = [tx |-> m.tx, relayed |-> a, auth |-> m.auth]
                  /\ toClient' = Append(toClient, [type |-> "success", tx |-> m.tx, relayed |-> a, nonce |-> 0])
            BY <2>1 DEF Grant, Respond
        <3> DEFINE r == [type |-> "success", tx |-> m.tx, relayed |-> a, nonce |-> 0]
        <3>2. r \in Reply
            BY <2>0 DEF Reply
        <3>3. allocation' # NoAllocation /\ allocation'.relayed = a
            <4>1. allocation'.tx # NoAllocation.tx
                BY <1>2, <3>1 DEF NoAllocation
            <4> QED BY <3>1, <4>1
        <3>4. Meant(r)
            BY <2>0, <3>3
        <3> QED BY <3>1, <3>2, <3>4
    <2>2. CASE Challenge(m)
        <3>1. PICK n \in Nonces :
                  toClient' = Append(toClient, [type |-> "unauthorized", tx |-> m.tx, relayed |-> NoAddr, nonce |-> n])
            BY <2>2 DEF Challenge, Respond
        <3> DEFINE r == [type |-> "unauthorized", tx |-> m.tx, relayed |-> NoAddr, nonce |-> n]
        <3>2. r \in Reply
            BY <2>0 DEF Reply
        <3>3. pc = "recv2" => txid \in rejected' /\ ~credsValid
            BY <1>2, <2>0, <2>2 DEF Challenge, Demands
        <3>4. Meant(r)
            BY <2>0, <3>3
        <3> QED BY <3>1, <3>2, <3>4
    <2>3. CASE Misbehave(m)
        <3> DEFINE r(type) == [type |-> type, tx |-> m.tx, relayed |-> NoAddr, nonce |-> 0]
        <3>1. r("error") \in Reply /\ r("garbled") \in Reply
            BY <2>0 DEF Reply
        <3>2. \/ toClient' = Append(toClient, r("error"))
              \/ toClient' = Append(toClient, r("garbled")) /\ garbled' = TRUE
              \/ toClient' = toClient
            BY <2>3 DEF Misbehave, Respond
        <3>3. Meant(r("error")) /\ (garbled' = TRUE => Meant(r("garbled")))
            BY <2>0
        <3> QED BY <3>1, <3>2, <3>3
    <2>4. CASE Bewildered
        BY <2>4 DEF Bewildered
    <2> QED BY <1>1, <2>1, <2>2, <2>3, <2>4
<1> HIDE DEF Meant
<1>5. /\ garbled => garbled' 
      /\ rejected \subseteq rejected'
    BY <1>1 DEF Grant, Challenge, Misbehave, Bewildered
<1>6. /\ toServer' \in Seq(Request) /\ Len(toServer') = 0
      /\ toClient' \in Seq(Reply) /\ Len(toClient') <= 1
      /\ \A k \in 1..Len(toClient') : Meant(toClient'[k])
    <2>1. toServer' \in Seq(Request) /\ Len(toServer') = 0
        BY <1>2, EmptySeq
    <2>2. CASE toClient' = toClient
        <3>1. toClient' \in Seq(Reply) /\ Len(toClient') = 0
            BY <1>2, <2>2, EmptySeq
        <3> QED BY <2>1, <3>1
    <2>3. ASSUME NEW r \in Reply, toClient' = Append(toClient, r), Meant(r)
          PROVE  /\ toClient' \in Seq(Reply) /\ Len(toClient') = 1
                 /\ \A k \in 1..Len(toClient') : Meant(toClient'[k])
        <3>1. toClient' \in Seq(Reply) /\ Len(toClient') = 1 /\ toClient'[1] = r
            BY <1>2, <2>3, AppendToEmpty DEF IInv, TypeOK
        <3>2. \A k \in 1..Len(toClient') : k = 1
            BY <3>1
        <3> QED BY <2>3, <3>1, <3>2
    <2> QED BY <1>4, <2>1, <2>2, <2>3
<1>7. TypeOK'
    BY <1>1, <1>6 DEF IInv, TypeOK
<1>8. StageInv'
    BY <1>1, <1>3 DEF IInv, StageInv
<1>9. RequestsInv'
    BY <1>6 DEF RequestsInv
<1>10. RepliesInv'
    BY <1>1, <1>6 DEF RepliesInv, Meant, Waiting, NoAllocation
<1>11. ResultInv'
    BY <1>1, <1>3, <1>5 DEF IInv, ResultInv, PassIsAllocated, MalformedHasCause, CredentialsBlamedFairly
<1> QED BY <1>7, <1>8, <1>9, <1>10, <1>11 DEF IInv

LEMMA HangUpKeepsIInv ==
    ASSUME IInv, HangUp
    PROVE  IInv'
<1>1. /\ up' = FALSE /\ toServer' = <<>> /\ toClient' \in {toClient, <<>>}
      /\ UNCHANGED <<pc, txid, challenge, ctx, result, faulty, peer, allocation, rejected,
                     garbled, anonymous, credsValid>>
    BY DEF HangUp, client, server
<1>2. TypeOK'
    <2>1. toServer' \in Seq(Request) /\ Len(toServer') = 0
        BY <1>1, EmptySeq
    <2>2. toClient' \in Seq(Reply) /\ Len(toClient') \in Nat /\ Len(toClient') <= 1
        <3>1. Len(toServer) \in Nat /\ Len(toClient) \in Nat /\ Len(<<>>) = 0 /\ <<>> \in Seq(Reply)
            BY EmptySeq DEF IInv, TypeOK
        <3> QED BY <1>1, <3>1 DEF IInv, TypeOK
    <2> QED BY <1>1, <2>1, <2>2 DEF IInv, TypeOK
<1>3. StageInv'
    BY <1>1 DEF IInv, StageInv
<1>4. RequestsInv' /\ RepliesInv'
    BY <1>1 DEF IInv, RequestsInv, RepliesInv, Waiting
<1>5. ResultInv'
    BY <1>1 DEF IInv, ResultInv, PassIsAllocated, MalformedHasCause, CredentialsBlamedFairly
<1> QED BY <1>2, <1>3, <1>4, <1>5 DEF IInv

LEMMA NextIInv == IInv /\ [Next]_vars => IInv'
<1> SUFFICES ASSUME IInv, [Next]_vars PROVE IInv'
    OBVIOUS
<1>1. CASE UNCHANGED vars
    BY <1>1 DEF vars, client, server, link, IInv, TypeOK, StageInv, RequestsInv, RepliesInv, Waiting,
                ResultInv, PassIsAllocated, MalformedHasCause, CredentialsBlamedFairly
<1>2. CASE Skip \/ NoConnection \/ SendError \/ Timeout \/ RecvError
    BY <1>2, ReturnKeepsIInv
<1>3. CASE Connect
    BY <1>3, ConnectKeepsIInv
<1>4. CASE SendUnauth \/ SendAuthed \/ SendAuthedError
    BY <1>4, SendsKeepIInv
<1>5. CASE Malformed \/ Refused \/ Anonymous \/ ChallengeOnly \/ CredentialsRejected \/ LongTerm
    BY <1>5, AnsweredKeepsIInv
<1>6. CASE Serve
    BY <1>6, ServeKeepsIInv
<1>7. CASE HangUp
    BY <1>7, HangUpKeepsIInv
<1> QED
    BY <1>1, <1>2, <1>3, <1>4, <1>5, <1>6, <1>7 DEF Next, Progress, Answered, Returned

-----------------------------------------------------------------------------
(* Theorems *)

\* Client, server and connection are well typed, with one message on the way
\* at most (turns_alloc.rs:45-216).
THEOREM TypeCorrect == Spec => []TypeOK
<1>1. IInv => TypeOK
    BY DEF IInv
<1> QED BY <1>1, InitIInv, NextIInv, PTL DEF Spec

\* A Pass is an allocation of the server for this connection, at the address
\* reported (turns_alloc.rs, the two success arms).
THEOREM PassIsAllocatedHolds == Spec => []PassIsAllocated
<1>1. IInv => PassIsAllocated
    BY DEF IInv, ResultInv
<1> QED BY <1>1, InitIInv, NextIInv, PTL DEF Spec

\* "malformed" is only said when the server sent something that is no
\* response: over a stream no response is read twice.
THEOREM MalformedHasCauseHolds == Spec => []MalformedHasCause
<1>1. IInv => MalformedHasCause
    BY DEF IInv, ResultInv
<1> QED BY <1>1, InitIInv, NextIInv, PTL DEF Spec

\* Credentials are blamed when the server refused this very request for them.
THEOREM CredentialsBlamedFairlyHolds == Spec => []CredentialsBlamedFairly
<1>1. IInv => CredentialsBlamedFairly
    BY DEF IInv, ResultInv
<1> QED BY <1>1, InitIInv, NextIInv, PTL DEF Spec

\* A run starts pending and takes one step of its contract, or none.
LEMMA InitPending == Init => Contract!Init
<1> SUFFICES ASSUME Init PROVE Contract!Init
    OBVIOUS
<1>1. TypeOK
    BY InitIInv DEF IInv
<1> QED
    BY <1>1 DEF Init, TypeOK, Contract!Init, Contract!ProbeContext, ProbeContext,
                Contract!Sessions, Sessions, Contract!NoSession, NoSession

LEMMA NextAnswers == IInv /\ [Next]_vars => [Contract!Run]_<<result.status, ctx>>
<1> SUFFICES ASSUME IInv, [Next]_vars PROVE [Contract!Run]_<<result.status, ctx>>
    OBVIOUS
<1>1. ASSUME NEW s, NEW w, Finish(s, w), pc # "done", Answer(s, ctx') \in TurnsOutcomes(ctx)
      PROVE  Contract!Run
    <2>1. /\ result.status = "none"
          /\ result'.status = Answer(s, ctx').status /\ ctx' = Answer(s, ctx').ctx
        BY <1>1 DEF Finish, Answer, IInv, TypeOK
    <2> QED BY <1>1, <2>1 DEF Contract!Run
<1>2. CanTry(ctx) => Answer("fail", ctx) \in TurnsOutcomes(ctx)
    BY DEF TurnsOutcomes, CanTry
<1>3. CASE Skip
    <2>1. Answer("skip", ctx) \in TurnsOutcomes(ctx)
        BY <1>3 DEF Skip, TurnsOutcomes, CanTry
    <2> QED BY <1>1, <1>3, <2>1 DEF Skip, Return
<1>4. CASE NoConnection \/ SendError \/ Timeout \/ RecvError
    <2>1. PICK w : Return("fail", w) /\ pc # "done" /\ CanTry(ctx)
        BY <1>4 DEF NoConnection, SendError, Timeout, RecvError, Waiting, IInv, StageInv
    <2> QED BY <1>1, <1>2, <2>1 DEF Return
<1>5. CASE Malformed \/ Refused \/ CredentialsRejected \/ SendAuthedError
    <2>1. PICK round, outcome, w :
              /\ round \in {"recv1", "recv2"}
              /\ outcome \in {"garbled", "error", "unauthorized"}
              /\ Recv(round, outcome) /\ Finish("fail", w) /\ UNCHANGED ctx
        BY <1>5 DEF Malformed, Refused, CredentialsRejected, SendAuthedError, Return
    <2>2. pc # "done" /\ CanTry(ctx)
        BY <2>1, RecvMeans
    <2> QED BY <1>1, <1>2, <2>1, <2>2
<1>6. CASE ChallengeOnly
    <2>1. /\ Recv("recv1", "unauthorized") /\ Finish("warn", "challenge only")
          /\ ~HasCredentials(ctx) /\ UNCHANGED ctx
        BY <1>6 DEF ChallengeOnly, Return
    <2>2. pc # "done" /\ CanTry(ctx)
        BY <2>1, RecvMeans
    <2>3. Answer("warn", ctx) \in TurnsOutcomes(ctx)
        BY <2>1, <2>2 DEF TurnsOutcomes, CanTry
    <2> QED BY <1>1, <2>1, <2>2, <2>3
<1>7. CASE Anonymous \/ LongTerm
    <2>1. PICK round, w :
              /\ round \in {"recv1", "recv2"}
              /\ Recv(round, "success") /\ Finish("pass", w)
              /\ ctx' = [ctx EXCEPT !.relayed = Head(toClient).relayed]
        BY <1>7 DEF Anonymous, LongTerm
    <2>2. pc # "done" /\ CanTry(ctx) /\ Head(toClient).relayed \in Addrs
        BY <2>1, RecvMeans
    <2>3. Answer("pass", ctx') \in TurnsOutcomes(ctx)
        BY <2>1, <2>2 DEF TurnsOutcomes, CanTry
    <2> QED BY <1>1, <2>1, <2>2, <2>3
<1>8. CASE Connect \/ SendUnauth \/ SendAuthed \/ Serve \/ HangUp \/ UNCHANGED vars
    BY <1>8 DEF Connect, SendUnauth, SendAuthed, Send, Serve, HangUp, vars, client
<1> QED
    BY <1>3, <1>4, <1>5, <1>6, <1>7, <1>8 DEF Next, Progress, Answered, Returned

\* The exchange implements the one-step contract of the check, which leaves
\* no session (turns_alloc.rs:45-216).
THEOREM ImplementsContractHolds == Spec => ImplementsContract
BY InitPending, NextAnswers, InitIInv, NextIInv, PTL DEF Spec, ImplementsContract, Contract!Spec
=============================================================================
