------------------------------ MODULE MCIpText -------------------------------
(* Values for the constants of IpText.                                     *)
EXTENDS IpText

CONSTANT Numbers

Some(n) == [1..n -> Numbers]

Quads == {Text(<<>>, q) : q \in {<<0, 0, 0, 0>>, <<192, 0, 2, 128>>, <<255, 255, 255, 255>>}}

\* Texts without dots, with up to nine colons and numbers left out anywhere:
\* those the constructor refuses, those it reads, and those too short for it.
Colons == UNION {[1..n -> Numbers \cup {Empty}] : n \in 1..9} \cup {Empties(10)}

\* Addresses next to the mapped ones.
NearQuads ==
    {Text(<<Empty, Empty, n, m, m>>, <<>>) :
        n \in {65535, 65535 - 8, 65535 - 256}, m \in Numbers}

AllTexts == {Text(s, <<>>) : s \in Colons \cup Some(8)} \cup Quads \cup NearQuads

\* Of four bytes, of sixteen, and of a length that is refused.
AllStrings ==
    {<<192, 0, 2, 128>>, <<0, 0, 0, 0, 0>>,
     [i \in 1..16 |-> IF i < 11 THEN 0 ELSE 255], [i \in 1..16 |-> 17 * i - 17]}
==============================================================================
