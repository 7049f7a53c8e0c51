------------------------------- MODULE MCChecks -------------------------------
(* Two addresses and two nonces.  For the candidates: IPv6 segments in and *)
(* about every block with the rest zero or one, IPv4 made of the octets at *)
(* the edges of a block, and lists of up to three of one address of each   *)
(* sort.                                                                   *)
EXTENDS Checks

MCNonces == 1..2

V6 == {<<a, b>> \o [i \in 1..13 |-> 0] \o <<c>> : a \in {0, 1, 32, 253, 254, 255}, b \in 0..255, c \in {0, 1}}
Edges == {0, 1, 126, 127, 128, 169, 223, 224, 239, 240, 254, 255}
V4 == {<<a, b, c, c>> : a, b \in Edges, c \in {0, 255}}
Samples == {<<127, 0, 0, 1>>, <<10, 0, 0, 1>>, <<192, 168, 0, 1>>,
            <<254, 128>> \o [i \in 1..14 |-> 0], <<253, 0>> \o [i \in 1..14 |-> 0]}

MCEnumerations ==
    {<<a>> : a \in V6 \cup V4} \cup UNION {[1..n -> Samples] : n \in 0..3}
=============================================================================
