----------------------------- MODULE MCAsyncImpl -----------------------------
(* Values for the constants of AsyncImpl.                                  *)
EXTENDS AsyncImpl

CONSTANTS a, b, c, nl

MCByte == {a, b, c, nl}

\* Writes of which the later ones are queued behind the first, or not.
ThreeWrites == <<<<a, b>>, <<c>>, <<a>>>>
\* Small ones, and one of no bytes, for a port that is opened twice.
ShortWrites == <<<<a>>, <<>>, <<b>>>>

\* What the device sends.
TwoLines == <<a, nl, b, nl>>
ShortLine == <<a>>
NewLine == <<nl>>
==============================================================================
