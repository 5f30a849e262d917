--------------------------- MODULE MCMonitorGroup ----------------------------
(* Values for the constants of MonitorGroup.                               *)
EXTENDS MonitorGroup

CONSTANTS ttyA, ttyB

MCLocation == {ttyA, ttyB}
TwoPorts == {ttyA, ttyB, NoLocation}

\* "0.2.4", and what firmwares say: that, a patch older, the same and older
\* beyond sixteen bits, shorter, longer, newer, and no version.
MCMinimum == <<0, 2, 4>>
MCReported ==
    {<<0, 2, 4>>, <<0, 2, 3>>, <<0, 2, 65540>>, <<0, 2, 65539>>, <<0, 2>>, <<0, 1>>,
     <<0, 2, 4, 1>>, <<0, 2, 4, Word>>, <<1, 0, 0>>, <<0, 0, 0, 0>>, <<Word>>}
==============================================================================
