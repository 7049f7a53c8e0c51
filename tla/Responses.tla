------------------------------ MODULE Responses ------------------------------
(***************************************************************************)
(* The three response parsers: parse_allocate_response (turn_codec.rs),    *)
(* parse_create_permission_response (turn_echo.rs), parse_binding_response *)
(* (stun.rs).  Each goes over the attributes walk_attrs found, with its    *)
(* own rule on repetitions and on what is missing.  An address attribute   *)
(* decodes to an address or not at all; texts are left out.                *)
(***************************************************************************)
EXTENDS Naturals, Sequences, SequencesExt

CONSTANTS Addrs,     \* addresses an attribute may decode to
          Bad,       \* a value no parser decodes
          Codes,     \* (class octet, number octet) of an ERROR-CODE
          Texts,     \* realms and nonces
          MaxAttrs   \* bound: attributes of a response

Success == "success"
Failure == "error"
Classes == {Success, Failure, "other"}

AddrTypes == {"XOR_RELAYED_ADDRESS", "XOR_MAPPED_ADDRESS", "MAPPED_ADDRESS"}

Attributes ==
    [type : AddrTypes, value : Addrs \cup {Bad}]
    \cup [type : {"ERROR_CODE"}, value : Codes \cup {Bad}]
    \cup [type : {"REALM", "NONCE"}, value : Texts]
    \cup [type : {"SOFTWARE"}, value : {Bad}]

VARIABLES class,   \* the message type, as the request at hand sees it
          attrs    \* the attributes, in the order they came

vars == <<class, attrs>>

Init == class \in Classes /\ attrs = <<>>

\* A server composes the response.
Add == /\ Len(attrs) < MaxAttrs
       /\ \E a \in Attributes : attrs' = Append(attrs, a)
       /\ UNCHANGED class

Complete == UNCHANGED vars

Next == Add \/ Complete

Spec == Init /\ [][Next]_vars

-----------------------------------------------------------------------------
(* Outcomes: what, an address, a code, realm and nonce. *)

Malformed == [is |-> "malformed"]

\* parse_error_code: class & 0x07, then the number.
ErrorCode(c) == (c[1] % 8) * 100 + c[2]

\* The index of the last attribute of the type, 0 if there is none: what a
\* loop found is replaced when the type comes again.
LastOf(list, type) == SelectLastInSeq(list, LAMBDA a : a.type = type)

\* None of the type makes the loop return an error, wherever it stands.
Decodable(list, type) == \A k \in 1..Len(list) : list[k].type = type => list[k].value # Bad

\* Mutant: an undecodable address is passed over.
AllocateSuccessLenient(list) ==
    LET k == SelectLastInSeq(list, LAMBDA a : a.type = "XOR_RELAYED_ADDRESS" /\ a.value # Bad)
    IN IF k = 0 THEN Malformed ELSE [is |-> "success", addr |-> list[k].value]

AllocateSuccess(list) ==
    LET k == LastOf(list, "XOR_RELAYED_ADDRESS")
    IN IF k = 0 \/ ~Decodable(list, "XOR_RELAYED_ADDRESS") THEN Malformed
       ELSE [is |-> "success", addr |-> list[k].value]

\* The code is 0 as long as no attribute says another.
CodeOf(list, k) == IF k = 0 THEN 0 ELSE ErrorCode(list[k].value)

\* Mutant: once the code says 401, what has been found so far has to do.
AllocateErrorAtOnce(list) ==
    LET k == LastOf(list, "ERROR_CODE")
        realm == SelectLastInSubSeq(list, 1, k, LAMBDA a : a.type = "REALM")
        nonce == SelectLastInSubSeq(list, 1, k, LAMBDA a : a.type = "NONCE")
    IN IF ~Decodable(list, "ERROR_CODE") THEN Malformed
       ELSE IF CodeOf(list, k) # 401 THEN [is |-> "error", code |-> CodeOf(list, k)]
       ELSE IF realm = 0 \/ nonce = 0 THEN Malformed
       ELSE [is |-> "unauthorized", realm |-> list[realm].value, nonce |-> list[nonce].value]

AllocateError(list) ==
    LET k == LastOf(list, "ERROR_CODE")
        realm == LastOf(list, "REALM")
        nonce == LastOf(list, "NONCE")
    IN IF ~Decodable(list, "ERROR_CODE") THEN Malformed
       ELSE IF CodeOf(list, k) # 401 THEN [is |-> "error", code |-> CodeOf(list, k)]
       ELSE IF realm = 0 \/ nonce = 0 THEN Malformed
       ELSE [is |-> "unauthorized", realm |-> list[realm].value, nonce |-> list[nonce].value]

ParseAllocateResponse(c, list) ==
    CASE c = Success -> AllocateSuccess(list)
      [] c = Failure -> AllocateError(list)
      [] OTHER -> Malformed

\* The first attribute of one of the types, if there is one.
FirstOf(list, types) == SelectInSeq(list, LAMBDA a : a.type \in types)

\* The first ERROR-CODE counts; a success is not looked into.
\* Mutant: the class's reserved bits are counted.
ParseCreatePermissionResponseRaw(c, list) ==
    LET k == FirstOf(list, {"ERROR_CODE"})
    IN CASE c = Success -> [is |-> "success"]
         [] c = Failure /\ k # 0 /\ list[k].value # Bad ->
                [is |-> "error", code |-> list[k].value[1] * 100 + list[k].value[2]]
         [] OTHER -> Malformed

ParseCreatePermissionResponse(c, list) ==
    LET k == FirstOf(list, {"ERROR_CODE"})
    IN CASE c = Success -> [is |-> "success"]
         [] c = Failure /\ k # 0 /\ list[k].value # Bad ->
                [is |-> "error", code |-> ErrorCode(list[k].value)]
         [] OTHER -> Malformed

\* The first mapped address, in either form, counts.
ParseBindingResponse(c, list) ==
    LET k == FirstOf(list, {"XOR_MAPPED_ADDRESS", "MAPPED_ADDRESS"})
    IN IF c = Success /\ k # 0 /\ list[k].value # Bad
       THEN [is |-> "success", addr |-> list[k].value] ELSE Malformed

Outcomes(list) == <<ParseAllocateResponse(class, list),
                    ParseCreatePermissionResponse(class, list),
                    ParseBindingResponse(class, list)>>

-----------------------------------------------------------------------------
(* Properties *)

TypesOf(list) == {list[k].type : k \in 1..Len(list)}

Distinct(list) == \A j, k \in 1..Len(list) : list[j].type = list[k].type => j = k

BothForms(list) == {"XOR_MAPPED_ADDRESS", "MAPPED_ADDRESS"} \subseteq TypesOf(list)

Reordered(list) ==
    {[k \in 1..Len(list) |-> list[p[k]]] :
        p \in {q \in [1..Len(list) -> 1..Len(list)] : \A j, k \in 1..Len(list) : q[j] = q[k] => j = k}}

(* A server may order its attributes as it likes: as long as no attribute, *)
(* and not both forms of the mapped address, come twice, no parser's       *)
(* answer depends on the order, the errors included.                       *)
OrderIrrelevant ==
    Distinct(attrs) /\ ~BothForms(attrs) =>
        \A list \in Reordered(attrs) : Outcomes(list) = Outcomes(attrs)

(* Allocate and CreatePermission read the same refusal alike, whatever is  *)
(* said besides, if it has just one error code.  With none, Allocate reads *)
(* the code 0 and CreatePermission calls it malformed; of several, one     *)
(* takes the last, the other the first.                                    *)
RefusalsAgree ==
    LET allocate == ParseAllocateResponse(class, attrs)
        permission == ParseCreatePermissionResponse(class, attrs)
        oneCode == \E k \in 1..Len(attrs) :
                      \A j \in 1..Len(attrs) : attrs[j].type = "ERROR_CODE" <=> j = k
    IN class = Failure /\ oneCode =>
           /\ allocate.is = "error" => permission = allocate
           /\ allocate.is = "unauthorized" => permission = [is |-> "error", code |-> 401]
           /\ permission = Malformed => allocate = Malformed

(* No address is made up: a parser that answers with one was given it, and *)
(* an attribute it had to read and could not makes the message malformed.  *)
AddressIsGiven ==
    LET allocate == ParseAllocateResponse(class, attrs)
        binding == ParseBindingResponse(class, attrs)
        gives(type, addr) == \E k \in 1..Len(attrs) : attrs[k] = [type |-> type, value |-> addr]
    IN /\ allocate.is = "success" =>
              gives("XOR_RELAYED_ADDRESS", allocate.addr) /\ ~gives("XOR_RELAYED_ADDRESS", Bad)
       /\ binding.is = "success" =>
              \/ gives("XOR_MAPPED_ADDRESS", binding.addr)
              \/ gives("MAPPED_ADDRESS", binding.addr)
=============================================================================
