-------------------------------- MODULE Targets --------------------------------
(***************************************************************************)
(* The two parsers of a target: parse_stun_like (webrtc-doctor/src/        *)
(* target.rs) for a URI, parse_host_port (main.rs) for a bare `host:port`. *)
(* A text is a sequence of characters; names are made of the characters in *)
(* Letters, numbers of digits.                                            *)
(***************************************************************************)
EXTENDS Naturals, Sequences, SequencesExt

CONSTANTS Letters,   \* characters with no meaning of their own
          Digit,     \* what the characters that are digits stand for
          MaxU16,    \* the largest port
          MaxText    \* bound: characters of a text

Chars == Letters \cup DOMAIN Digit \cup {":", "[", "]", "+"}

VARIABLE text

Init == text = <<>>

\* The user types.
Type == Len(text) < MaxText /\ \E c \in Chars : text' = Append(text, c)

Entered == UNCHANGED text

Next == Type \/ Entered

Spec == Init /\ [][Next]_text

-----------------------------------------------------------------------------
(* What both are made of *)

Refused == [ok |-> FALSE]
Target(host, port) == [ok |-> TRUE, host |-> host, port |-> port]

Before(s, i) == SubSeq(s, 1, i - 1)
From(s, i) == SubSeq(s, i, Len(s))

IsDigit(c) == c \in DOMAIN Digit

\* str::parse::<u16>: digits, with a plus sign before them or not.
Number(s) == FoldLeft(LAMBDA n, d : 10 * n + Digit[d], 0, s)
Unsigned(s) == IF s # <<>> /\ s[1] = "+" THEN Tail(s) ELSE s
IsPort(s) ==
    /\ Unsigned(s) # <<>>
    /\ \A i \in DOMAIN Unsigned(s) : IsDigit(Unsigned(s)[i])
    /\ Number(Unsigned(s)) <= MaxU16

HostAndPort(host, port) ==
    IF host # <<>> /\ IsPort(port) THEN Target(host, Number(Unsigned(port))) ELSE Refused

-----------------------------------------------------------------------------
(* parse_host_port *)

\* `[v6]:port`; the first bracket that closes counts.
Bracketed(s) ==
    LET close == SelectInSeq(s, LAMBDA c : c = "]")
    IN IF close = 0 \/ close = Len(s) \/ s[close + 1] # ":" THEN Refused
       ELSE HostAndPort(SubSeq(s, 2, close - 1), From(s, close + 2))

\* `host:port`, split at the last colon, which must be the only one.
\* Mutant: it may be one of several.
PlainAnyColon(s) ==
    LET colon == SelectLastInSeq(s, LAMBDA c : c = ":")
    IN IF colon = 0 THEN Refused
       ELSE HostAndPort(Before(s, colon), From(s, colon + 1))

Plain(s) ==
    LET colon == SelectLastInSeq(s, LAMBDA c : c = ":")
    IN IF colon = 0 \/ ":" \in ToSet(Before(s, colon)) THEN Refused
       ELSE HostAndPort(Before(s, colon), From(s, colon + 1))

ParseHostPort(s) == IF s # <<>> /\ s[1] = "[" THEN Bracketed(s) ELSE Plain(s)

-----------------------------------------------------------------------------
(* parse_stun_like *)

IsBracket(c) == c \in {"[", "]"}

\* trim_matches: every bracket at either end.
Trimmed(s) ==
    LET keep == {i \in DOMAIN s : ~IsBracket(s[i])}
    IN IF keep = {} THEN <<>> ELSE SubSeq(s, Min(keep), Max(keep))

\* The part after the scheme, which the caller has looked at.
\* Mutant: it is split at its first colon.
ParseRestFirst(rest, default) ==
    LET colon == SelectInSeq(rest, LAMBDA c : c = ":")
    IN IF colon = 0 THEN (IF rest = <<>> THEN Refused ELSE Target(rest, default))
       ELSE HostAndPort(Trimmed(Before(rest, colon)), From(rest, colon + 1))

\* Mutant: a port that is none is passed over for the default.
ParseRestDefaults(rest, default) ==
    LET colon == SelectLastInSeq(rest, LAMBDA c : c = ":")
        host == Trimmed(Before(rest, colon))
    IN IF colon = 0 THEN (IF rest = <<>> THEN Refused ELSE Target(rest, default))
       ELSE IF IsPort(From(rest, colon + 1)) THEN HostAndPort(host, From(rest, colon + 1))
       ELSE IF host = <<>> THEN Refused ELSE Target(host, default)

ParseRest(rest, default) ==
    LET colon == SelectLastInSeq(rest, LAMBDA c : c = ":")
    IN IF colon = 0 THEN (IF rest = <<>> THEN Refused ELSE Target(rest, default))
       ELSE HostAndPort(Trimmed(Before(rest, colon)), From(rest, colon + 1))

-----------------------------------------------------------------------------
(* Properties *)

Default == MaxU16

Unbracketed(s) == \A i \in DOMAIN s : ~IsBracket(s[i])

\* The last colon is at i, and a port behind it.
PortAfter(i, port) ==
    /\ text[i] = ":"
    /\ IsPort(From(text, i + 1)) /\ Number(Unsigned(From(text, i + 1))) = port

(* The `dtls` subcommand (main.rs, parse_host_port) and the URI            *)
(* subcommands (target.rs, parse_stun_like) agree on a target.  What the   *)
(* strict parser takes the other takes for the same host and port, IPv6    *)
(* literals in brackets included, unless brackets are part of the host.    *)
(* And what the lenient parser takes the strict one takes too, but for a   *)
(* text without a port, a colon in a host that is not in brackets, as in a *)
(* bare IPv6 literal, and a text with brackets that are no pair around     *)
(* the host.                                                               *)
ParsersAgree ==
    LET strict == ParseHostPort(text)
        lenient == ParseRest(text, Default)
    IN /\ strict.ok /\ Unbracketed(strict.host) => lenient = strict
       /\ lenient.ok /\ ~strict.ok =>
              \/ ":" \notin ToSet(text)
              \/ text[1] # "[" /\ ":" \in ToSet(lenient.host)
              \/ text[1] = "[" /\ ~\E i \in 2..Len(text) :
                                     /\ text[i - 1] = "]" /\ PortAfter(i, lenient.port)
                                     /\ Unbracketed(SubSeq(text, 2, i - 2))

(* "IPv6 without brackets gets a clear error rather than silent misparse"  *)
(* (main.rs:589): a target that parse_host_port accepts is the text that   *)
(* was given, nothing dropped, and only brackets allow a colon in a host.  *)
StrictIsWhole ==
    LET t == ParseHostPort(text)
    IN t.ok => \E i \in 1..Len(text) :
          /\ PortAfter(i, t.port)
          /\ Before(text, i) \in {t.host, <<"[">> \o t.host \o <<"]">>}
          /\ ":" \in ToSet(t.host) => text[1] = "["

(* What parse_stun_like accepts (target.rs:44) is a text without a colon,  *)
(* which is all host and gets the default port, or a host and a port; then *)
(* all it drops of the host is brackets at its ends, and none is left      *)
(* there.  Unlike its sibling it takes an IPv6 literal without brackets,   *)
(* whose last group is its port.                                           *)
LenientIsWhole ==
    LET t == ParseRest(text, Default)
    IN t.ok =>
          \/ t = Target(text, Default) /\ ":" \notin ToSet(text)
          \/ \E i \in 1..Len(text) : \E a, b \in 1..(i - 1) :
                /\ PortAfter(i, t.port)
                /\ a <= b /\ t.host = SubSeq(text, a, b)
                /\ ~IsBracket(text[a]) /\ ~IsBracket(text[b])
                /\ \A k \in (1..(a - 1)) \cup ((b + 1)..(i - 1)) : IsBracket(text[k])

(* "defaults_the_port_when_omitted" (target.rs:107): a host that a URI can *)
(* name with a port, it can name without.  A bracketed IPv6 literal is     *)
(* refused, its last group taken for a port that is none.                  *)
DefaultsThePort ==
    LET t == ParseHostPort(text)
    IN t.ok =>
          \A i \in 1..Len(text) :
             (text[i] = ":" /\ ":" \notin ToSet(From(text, i + 1))) =>
                 ParseRest(Before(text, i), Default).ok
=============================================================================
