--------------------------------- MODULE Wire ---------------------------------
(***************************************************************************)
(* What the checks put on the wire and read from it, one part of the codec *)
(* in each behaviour: walking a buffer of any content (AttrWalk, extended  *)
(* here), building, sending and parsing one message, the parsers of the    *)
(* responses, the encoding of addresses, and the length prefix on TCP.     *)
(* Parts that do not run keep their variables; the walk, whose properties  *)
(* are stated without a guard, then waits for an empty buffer.             *)
(***************************************************************************)
EXTENDS AttrWalk, Sequences

CONSTANTS Base, AttrTypes, DATA, Values, PeerValue, Digest, MaxMsgAttrs,  \* of StunMessage
          Addrs, Bad, Codes, Texts, MaxAttrs,    \* of Responses
          Octets, Cookie,                        \* of XorAddress
          FrameBase, Messages, MaxSent           \* of Framing

VARIABLES part,     \* "walk", "message", "response", "address", "frames"
          attrs, phase,
          kind, msg, signed, got,
          class,
          addr, txid, value,
          sent, body, writer, stream, reader, buf, need, received

Message == INSTANCE StunMessage WITH MaxAttrs <- MaxMsgAttrs
Response == INSTANCE Responses
Address == INSTANCE XorAddress
Frames == INSTANCE Framing WITH Base <- FrameBase

ASSUME FramesAssumption == Frames!Fits
ASSUME AddressAssumption == Address!Masks
ASSUME MessageAssumption == Message!Digital

messageOwn == <<kind, msg, signed, got>>
addressOwn == <<addr, txid, value>>
framesOwn == <<sent, body, writer, stream, reader, buf, need, received>>
wireVars == <<part, vars, attrs, phase, messageOwn, class, addressOwn, framesOwn>>

Unused == "unused"

NoWalk == bufLen = 0 /\ attrsLen = 0 /\ i = 0 /\ touched = -1 /\ slices = {} /\ state = "header"
NoMessage == kind = Unused /\ msg = Unused /\ signed = Unused /\ got = Unused
NoAddress == addr = Unused /\ txid = Unused /\ value = Unused
NoFrames == /\ sent = Unused /\ body = Unused /\ writer = Unused /\ stream = Unused
            /\ reader = Unused /\ buf = Unused /\ need = Unused /\ received = Unused

WireInit ==
    \/ /\ part = "walk" /\ Init
       /\ attrs = Unused /\ phase = Unused /\ class = Unused
       /\ NoMessage /\ NoAddress /\ NoFrames
    \/ /\ part = "message" /\ Message!Init
       /\ class = Unused
       /\ NoWalk /\ NoAddress /\ NoFrames
    \/ /\ part = "response" /\ Response!Init
       /\ phase = Unused
       /\ NoWalk /\ NoMessage /\ NoAddress /\ NoFrames
    \/ /\ part = "address" /\ Address!Init
       /\ attrs = Unused /\ class = Unused
       /\ NoWalk /\ NoMessage /\ NoFrames
    \/ /\ part = "frames" /\ Frames!Init
       /\ attrs = Unused /\ phase = Unused /\ class = Unused
       /\ NoWalk /\ NoMessage /\ NoAddress

WireNext ==
    /\ UNCHANGED part
    /\ \/ /\ part = "walk" /\ Next
          /\ UNCHANGED <<attrs, phase, class, messageOwn, addressOwn, framesOwn>>
       \/ /\ part = "message" /\ Message!Next
          /\ UNCHANGED <<class, vars, addressOwn, framesOwn>>
       \/ /\ part = "response" /\ Response!Next
          /\ UNCHANGED <<phase, vars, messageOwn, addressOwn, framesOwn>>
       \/ /\ part = "address" /\ Address!Next
          /\ UNCHANGED <<attrs, class, vars, messageOwn, framesOwn>>
       \/ /\ part = "frames" /\ Frames!Next
          /\ UNCHANGED <<attrs, phase, class, vars, messageOwn, addressOwn>>

\* Octets written arrive, and the reader of frames is polled.
WireSpec ==
    /\ WireInit /\ [][WireNext]_wireVars
    /\ WF_framesOwn(part = "frames" /\ Frames!Progress)

-----------------------------------------------------------------------------
(* Properties, with those of AttrWalk *)

(* Builders and parsers agree (turn_codec.rs, turn_echo.rs, stun_codec.rs, *)
(* stun.rs): what a builder appends the walker finds, a message the buffer *)
(* cut is never taken for a whole one, the digest covers what a server     *)
(* verifies, the two walkers find the same, and an address survives its    *)
(* mask, with the id of its own transaction, or is an error.               *)
ReadAsWritten ==
    /\ part = "message" =>
          /\ Message!TypeOK
          /\ Message!RoundTrip /\ Message!TruncationNoticed
          /\ Message!IntegrityVerifies /\ Message!DataAgreesWithWalk
    /\ part = "address" =>
          Address!RoundTrip /\ Address!IdMatters /\ Address!WholeOrError

(* A response means the same in whatever order its attributes come and to  *)
(* whichever parser reads it, and no parser makes an address up.           *)
ResponsesAreUnderstood ==
    part = "response" =>
        Response!OrderIrrelevant /\ Response!RefusalsAgree /\ Response!AddressIsGiven

Abstract == INSTANCE Channel WITH
    sent <- IF part = "frames" THEN sent ELSE <<>>,
    received <- IF part = "frames" THEN received ELSE <<>>

(* Over the length prefix whole messages come out as they went in, in      *)
(* order, wherever writer or reader stop (turns_alloc.rs).                 *)
ImplementsChannel == Abstract!Spec

(* A reader that is not cut off gets every message written completely.     *)
AllArrive ==
    \A n \in 1..MaxSent :
        (part = "frames" /\ Frames!Written(n)) ~> (part = "frames" /\ Frames!Read(n))
=============================================================================
