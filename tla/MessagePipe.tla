----------------------------- MODULE MessagePipe ------------------------------
(***************************************************************************)
(* What a SecureConnection promises its owners                             *)
(* (src/include/SecureConnection.hpp), whatever handshakes, records and    *)
(* reads stand behind it: two ends that send messages, and receive() that  *)
(* hands out the bytes of the other in their order, by whole messages for  *)
(* as long as the other is there.                                          *)
(*                                                                         *)
(* The bytes an end sends are numbered from 1: a byte is its number.       *)
(***************************************************************************)
EXTENDS Integers, Sequences

CONSTANTS
    End,       \* the two ends
    MaxBytes   \* bound: bytes an end sends

VARIABLES
    sent,      \* bytes each end has sent
    marks,     \* the last byte of each of its messages
    handed,    \* what each end has been handed
    gone       \* the ends that have left

vars == <<sent, marks, handed, gone>>

Peer(e) == CHOOSE p \in End : p # e

\* The first n bytes of an end.
Upto(n) == [k \in 1..n |-> k]

Init ==
    /\ sent = [e \in End |-> 0] /\ marks = [e \in End |-> {}]
    /\ handed = [e \in End |-> <<>>] /\ gone = {}

\* A message, from the bytes sent so far on.
Begin(e) ==
    /\ e \notin gone
    /\ \E n \in sent[e] + 1..MaxBytes : marks' = [marks EXCEPT ![e] = @ \cup {n}]
    /\ UNCHANGED <<sent, handed, gone>>

\* Bytes of a message, not beyond its end.
Send(e) ==
    /\ e \notin gone
    /\ \E m \in marks[e] : \E n \in sent[e] + 1..m : sent' = [sent EXCEPT ![e] = n]
    /\ UNCHANGED <<marks, handed, gone>>

\* What has been sent up to the end of a message.
HandOut(e) ==
    /\ e \notin gone
    /\ \E m \in marks[Peer(e)] :
         /\ Len(handed[e]) < m /\ m <= sent[Peer(e)]
         /\ handed' = [handed EXCEPT ![e] = Upto(m)]
    /\ UNCHANGED <<sent, marks, gone>>

\* From an end that has left, any part of what it sent.
HandOutRest(e) ==
    /\ e \notin gone /\ Peer(e) \in gone
    /\ \E n \in Len(handed[e]) + 1..sent[Peer(e)] : handed' = [handed EXCEPT ![e] = Upto(n)]
    /\ UNCHANGED <<sent, marks, gone>>

Leave(e) ==
    /\ e \notin gone /\ gone' = gone \cup {e}
    /\ UNCHANGED <<sent, marks, handed>>

Next == \E e \in End : Begin(e) \/ Send(e) \/ HandOut(e) \/ HandOutRest(e) \/ Leave(e)

Spec == Init /\ [][Next]_vars
==============================================================================
