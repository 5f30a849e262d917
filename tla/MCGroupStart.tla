---------------------------- MODULE MCGroupStart -----------------------------
(* Values for the constants of GroupStart.                                 *)
EXTENDS GroupStart

CONSTANTS ttyA, ttyB

MCLocation == {ttyA, ttyB}
TwoPorts == {ttyA, ttyB, NoLocation}

\* "0.2.4", and what firmwares say: that, older by more than sixteen bits hold,
\* shorter, shorter and older, what stands for none, and no version.
MCMinimum == <<0, 2, 4>>
MCReported ==
    {<<0, 2, 4>>, <<0, 2, 65539>>, <<0, 2>>, <<0, 1>>, <<0, 0, 0, 0>>, <<Word>>}
==============================================================================
