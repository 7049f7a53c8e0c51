-------------------------------- MODULE MCWire --------------------------------
(* Small octets, and values that are awkward for each part.                *)
EXTENDS Wire

\* Values of every length modulo 4, one that is an attribute itself; three of
\* the longest overflow the length, 16-bit fields being modulo 36.
TwoTypes == {4, 9}
SomeValues == {<<>>, <<5>>, <<1, 3, 0>>, <<1, 3, 0, 1, 5>>, <<0, 0, 0, 0, 0, 0, 0, 0, 2, 0>>}
Peer == <<0, 1, 2, 3, 4, 5, 4, 3>>
ShortDigest == <<0, 1, 3, 5>>

\* 401, 438, and a 401 written with a class octet above 7 and a number above
\* 99.
SomeCodes == {<<4, 1>>, <<4, 38>>, <<11, 101>>}

\* The real cookie, 0x2112A442; octets that leave it, flip it and cancel it.
MagicCookie == <<{0, 5}, {1, 4}, {2, 5, 7}, {1, 6}>>
SomeOctets == {{}, {0, 5}, 0..7}

\* Messages of every length that fits a prefix of two binary octets, some
\* that look like prefixes.
Fitting == {<<>>, <<1>>, <<0, 1>>, <<1, 0, 1>>}
=============================================================================
