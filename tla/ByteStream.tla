----------------------------- MODULE ByteStream ------------------------------
(***************************************************************************)
(* What BufferedIO promises its client (src/include/util/BufferedIO.hpp),  *)
(* whatever threads, buffers and handlers stand behind it: what write()    *)
(* accepts leaves the port once and in order, and readStringUntil() hands  *)
(* out what the device sent, one delimited line after the other.  The      *)
(* promise ends when the stream goes down.                                 *)
(***************************************************************************)
EXTENDS DelimSearch

CONSTANTS
    Messages,   \* what a write() may be given
    DeviceOut,  \* what the device sends, in order
    Delim       \* the delimiter of readStringUntil()

VARIABLES
    accepted,   \* bytes write() has accepted
    wire,       \* bytes that have left the port
    pos,        \* how many bytes of DeviceOut the port has received
    taken,      \* how many of them the client was given or had cut off
    down

vars == <<accepted, wire, pos, taken, down>>

Init == accepted = <<>> /\ wire = <<>> /\ pos = 0 /\ taken = 0 /\ down = FALSE

Accept ==
    /\ ~down
    /\ \E data \in Messages : accepted' = accepted \o data
    /\ UNCHANGED <<wire, pos, taken, down>>

Send ==
    /\ ~down
    /\ \E n \in Len(wire) + 1..Len(accepted) : wire' = SubSeq(accepted, 1, n)
    /\ UNCHANGED <<accepted, pos, taken, down>>

Receive ==
    /\ ~down
    /\ \E n \in pos + 1..Len(DeviceOut) : pos' = n
    /\ UNCHANGED <<accepted, wire, taken, down>>

\* The next line: up to the first delimiter among the bytes not yet taken.
TakeLine ==
    /\ ~down
    /\ \E p \in taken + 1..pos :
         /\ p + Len(Delim) - 1 <= pos
         /\ StandsAt(DeviceOut, Delim, p)
         /\ \A q \in taken + 1..p - 1 : ~StandsAt(DeviceOut, Delim, q)
         /\ taken' = p + Len(Delim) - 1
    /\ UNCHANGED <<accepted, wire, pos, down>>

GoDown == ~down /\ down' = TRUE /\ UNCHANGED <<accepted, wire, pos, taken>>

\* A stream that is down promises nothing, coming up again included.
Down == down /\ down'

Next == Accept \/ Send \/ Receive \/ TakeLine \/ GoDown \/ Down

Spec == Init /\ [][Next]_vars
==============================================================================
