---------------------------- MODULE SecureSession ----------------------------
(***************************************************************************)
(* Two programs that talk through a SecureSession each                     *)
(* (src/SecureConnection.cpp): a SecureClient and the session that a       *)
(* SecureServer accepts.  The connection carries records: a read takes     *)
(* bytes of one record only.                                               *)
(*                                                                         *)
(* The bytes an end sends are numbered from 1: a byte is its number.       *)
(***************************************************************************)
EXTENDS Integers, Sequences

CONSTANTS
    End,        \* the two programs
    Server,     \* the one that accepts
    MaxLength,  \* max_length: what receive() reads at once
    MaxRecord,  \* bytes of a record, for OpenSSL 16384
    MaxBytes,   \* bound: bytes an end sends
    Room        \* records the connection holds in one direction

ASSUME EndAssumption == \E a, b \in End : a # b /\ End = {a, b}

ASSUME ServerAssumption == Server \in End

ASSUME LengthAssumption ==
    /\ MaxLength \in Nat \ {0} /\ MaxRecord \in Nat \ {0}
    /\ MaxRecord % MaxLength = 0
    /\ MaxBytes \in Nat /\ Room \in Nat

Peer(e) == CHOOSE p \in End : p # e

VARIABLES
    pc,       \* where a program is
    linked,   \* the connection of the two has been made
    shaken,   \* the ends whose handshake has returned
    left,     \* bytes of the message that send() has still to write
    sent,     \* bytes written so far
    marks,    \* the last byte of each message
    wire,     \* wire[e]: the records under way to e
    reader,   \* inReader, while e receives
    handed,   \* all that receive() has handed to e, one result behind the other
    returned  \* where in it a receive() has returned by a short read

vars == <<pc, linked, shaken, left, sent, marks, wire, reader, handed, returned>>
meeting == <<linked, shaken>>
sending == <<left, sent, marks>>
receiving == <<reader, handed, returned>>

\* Not yet connected, in the handshake, accepted in vain; in no call or in one;
\* and without the connection.
Places == {"apart", "shaking", "refused", "idle", "sending", "receiving", "gone"}

Init ==
    /\ pc = [e \in End |-> "apart"] /\ linked = FALSE /\ shaken = {}
    /\ left = [e \in End |-> 0] /\ sent = [e \in End |-> 0] /\ marks = [e \in End |-> {}]
    /\ wire = [e \in End |-> <<>>]
    /\ reader = [e \in End |-> <<>>] /\ handed = [e \in End |-> <<>>]
    /\ returned = [e \in End |-> {}]

Goes(e, from, to) == pc[e] = from /\ pc' = [pc EXCEPT ![e] = to]

Smaller(m, n) == IF m < n THEN m ELSE n
------------------------------------------------------------------------------
(* The connection.                                                         *)

Record == [first : Nat \ {0}, last : Nat]
Size(record) == record.last - record.first + 1

\* The first n bytes of a record, and the records that stay.
Bytes(record, n) == [k \in 1..n |-> record.first + k - 1]
Without(records, n) ==
    IF n = Size(Head(records)) THEN Tail(records)
    ELSE [records EXCEPT ![1].first = @ + n]
------------------------------------------------------------------------------
(* Mistakes one could make in the operations below: what the properties    *)
(* must notice.  No behaviour of Spec uses them.                           *)

\* A reader made anew for every read.
ReadSomeAnew(e) ==
    LET n == Smaller(MaxLength, Size(Head(wire[e])))
        data == Bytes(Head(wire[e]), n)
    IN  /\ pc[e] = "receiving" /\ wire[e] # <<>>
        /\ wire' = [wire EXCEPT ![e] = Without(@, n)]
        /\ reader' = [reader EXCEPT ![e] = IF n = MaxLength THEN data ELSE <<>>]
        /\ IF n = MaxLength THEN UNCHANGED <<pc, handed, returned>>
           ELSE /\ pc' = [pc EXCEPT ![e] = "idle"]
                /\ handed' = [handed EXCEPT ![e] = @ \o data]
                /\ returned' = [returned EXCEPT ![e] = @ \cup {Len(handed'[e])}]
        /\ UNCHANGED <<meeting, sending>>

\* Any read taken for the last.
ReadSomeOnce(e) ==
    LET n == Smaller(MaxLength, Size(Head(wire[e]))) IN
    /\ pc[e] = "receiving" /\ wire[e] # <<>>
    /\ wire' = [wire EXCEPT ![e] = Without(@, n)]
    /\ pc' = [pc EXCEPT ![e] = "idle"]
    /\ handed' = [handed EXCEPT ![e] = @ \o reader[e] \o Bytes(Head(wire[e]), n)]
    /\ reader' = [reader EXCEPT ![e] = <<>>]
    /\ returned' = [returned EXCEPT ![e] = @ \cup {Len(handed'[e])}]
    /\ UNCHANGED <<meeting, sending>>

\* The end of the connection tried again, as a read of no bytes.
ReadEndAgain(e) ==
    /\ pc[e] = "receiving" /\ wire[e] = <<>> /\ pc[Peer(e)] = "gone"
    /\ UNCHANGED vars
------------------------------------------------------------------------------
(* accept() and the constructor of SecureClient.                           *)

traffic == <<sending, wire, receiving>>

\* A server that has not ended listens, whether it has called accept() or not.
Connect(e) ==
    /\ e # Server /\ pc[Server] # "gone"
    /\ Goes(e, "apart", "shaking")
    /\ linked' = TRUE
    /\ UNCHANGED <<shaken, traffic>>

\* The object is not made: what there is of it is destroyed.
ConnectThrows(e) ==
    /\ e # Server
    /\ Goes(e, "apart", "gone")
    /\ UNCHANGED <<meeting, traffic>>

\* A client may have gone since it connected.
Accept(e) ==
    /\ e = Server /\ linked
    /\ Goes(e, "apart", "shaking")
    /\ UNCHANGED <<meeting, traffic>>

\* The last message of a handshake is the server's.
HandshakeReturns(e) ==
    /\ e = Server \/ Server \in shaken
    /\ Goes(e, "shaking", "idle")
    /\ shaken' = shaken \cup {e}
    /\ UNCHANGED <<linked, traffic>>

\* The certificate is not accepted, or the other has ended or given up.  A
\* client closes the connection with what there is of its object; the session
\* of a server stays as it is until its owner destroys it.
HandshakeThrows(e) ==
    /\ pc[Peer(e)] # "apart"
    /\ Goes(e, "shaking", IF e = Server THEN "refused" ELSE "gone")
    /\ UNCHANGED <<meeting, traffic>>
------------------------------------------------------------------------------
(* send().                                                                 *)

\* Of an empty message nothing is written.
Send(e) ==
    /\ Goes(e, "idle", "sending")
    /\ \E n \in 1..MaxBytes - sent[e] :
         /\ left' = [left EXCEPT ![e] = n]
         /\ marks' = [marks EXCEPT ![e] = @ \cup {sent[e] + n}]
    /\ UNCHANGED <<meeting, sent, wire, receiving>>

\* To a peer that is gone, too: what the connection takes is lost with it.
WriteRecord(e) ==
    LET n == Smaller(MaxRecord, left[e])
        record == [first |-> sent[e] + 1, last |-> sent[e] + n]
    IN  /\ pc[e] = "sending" /\ left[e] > 0
        /\ Len(wire[Peer(e)]) < Room
        /\ wire' = [wire EXCEPT ![Peer(e)] = Append(@, record)]
        /\ sent' = [sent EXCEPT ![e] = @ + n]
        /\ left' = [left EXCEPT ![e] = @ - n]
        /\ UNCHANGED <<pc, meeting, marks, receiving>>

SendReturns(e) ==
    /\ Goes(e, "sending", "idle") /\ left[e] = 0
    /\ UNCHANGED <<meeting, sending, wire, receiving>>

\* out is empty already: the rest of the message is lost.
SendThrows(e) ==
    /\ Goes(e, "sending", "idle") /\ left[e] > 0 /\ pc[Peer(e)] = "gone"
    /\ left' = [left EXCEPT ![e] = 0]
    /\ UNCHANGED <<meeting, sent, marks, wire, receiving>>
------------------------------------------------------------------------------
(* receive().                                                              *)

Receive(e) ==
    /\ Goes(e, "idle", "receiving")
    /\ UNCHANGED <<meeting, sending, wire, receiving>>

\* A read that fills the buffer asks for another one.
ReadSome(e) ==
    LET n == Smaller(MaxLength, Size(Head(wire[e])))
        data == reader[e] \o Bytes(Head(wire[e]), n)
    IN  /\ pc[e] = "receiving" /\ wire[e] # <<>>
        /\ wire' = [wire EXCEPT ![e] = Without(@, n)]
        /\ reader' = [reader EXCEPT ![e] = IF n = MaxLength THEN data ELSE <<>>]
        /\ IF n = MaxLength THEN UNCHANGED <<pc, handed, returned>>
           ELSE /\ pc' = [pc EXCEPT ![e] = "idle"]
                /\ handed' = [handed EXCEPT ![e] = @ \o data]
                /\ returned' = [returned EXCEPT ![e] = @ \cup {Len(handed'[e])}]
        /\ UNCHANGED <<meeting, sending>>

\* eof, or SSL_R_SHORT_READ of a peer that has not said good-bye.
ReadEnd(e) ==
    /\ wire[e] = <<>> /\ pc[Peer(e)] = "gone"
    /\ Goes(e, "receiving", "idle")
    /\ handed' = [handed EXCEPT ![e] = @ \o reader[e]]
    /\ reader' = [reader EXCEPT ![e] = <<>>]
    /\ UNCHANGED <<meeting, sending, wire, returned>>

\* Any other error: what has been read goes with the exception.
ReadThrows(e) ==
    /\ pc[Peer(e)] = "gone"
    /\ Goes(e, "receiving", "idle")
    /\ wire' = [wire EXCEPT ![e] = <<>>]
    /\ reader' = [reader EXCEPT ![e] = <<>>]
    /\ UNCHANGED <<meeting, sending, handed, returned>>

\* The destructor when the program is idle, else the end of the program.
Close(e) ==
    /\ pc[e] # "gone" /\ pc' = [pc EXCEPT ![e] = "gone"]
    /\ UNCHANGED <<meeting, sending, wire, receiving>>
------------------------------------------------------------------------------
\* What has to go on once it can.  Whether a server that gives up in the handshake
\* tells its client depends on the library; the end of a program is always seen.
Step(e) ==
    \/ HandshakeReturns(e) \/ (pc[Peer(e)] = "gone" /\ HandshakeThrows(e))
    \/ WriteRecord(e) \/ SendReturns(e) \/ SendThrows(e) \/ ReadSome(e) \/ ReadEnd(e)

Next ==
    \E e \in End :
        \/ Connect(e) \/ ConnectThrows(e) \/ Accept(e)
        \/ HandshakeThrows(e) \/ Send(e) \/ Receive(e) \/ Step(e) \/ ReadThrows(e) \/ Close(e)

Spec == Init /\ [][Next]_vars

\* A call that can go on does.  Nobody has to call, or to close.
LiveSpec == Spec /\ \A e \in End : WF_vars(Step(e))
------------------------------------------------------------------------------
TypeOK ==
    /\ pc \in [End -> Places] /\ linked \in BOOLEAN /\ shaken \in SUBSET End
    /\ left \in [End -> Nat] /\ sent \in [End -> Nat] /\ marks \in [End -> SUBSET Nat]
    /\ wire \in [End -> Seq(Record)]
    /\ reader \in [End -> Seq(Nat)] /\ handed \in [End -> Seq(Nat)]
    /\ returned \in [End -> SUBSET Nat]

\* However the records are cut and the calls follow one another, an end is
\* handed the bytes of the other from the first on: none is missing before
\* another, none comes twice.
InOrder ==
    \A e \in End :
        /\ \A k \in 1..Len(handed[e]) : handed[e][k] = k
        /\ Len(handed[e]) <= sent[Peer(e)]

\* A receive() that takes a short read for the end of a message has read that
\* message to its end.
ReturnsAtMessage == \A e \in End : returned[e] \subseteq marks[Peer(e)]

\* SecureSession implements MessagePipe: while the peer is there, receive() hands
\* out whole messages; once it is gone, a first part of the bytes that are left;
\* and never anything after a gap.
Pipe == INSTANCE MessagePipe WITH gone <- {e \in End : pc[e] = "gone"}
ImplementsPipe == Pipe!Spec

\* A peer that is gone leaves nobody waiting, in the handshake, in send() or in
\* receive(), though no call has a timeout.
CallsEnd ==
    \A e \in End :
        pc[Peer(e)] = "gone" /\ pc[e] \in {"shaking", "sending", "receiving"}
            ~> pc[e] \in {"refused", "idle", "gone"}

\* A receive() that has read a message to its end returns: "If it is the end of
\* this stream of data" it breaks out of its loop.
HasMessage(e) ==
    /\ pc[e] = "receiving" /\ wire[e] = <<>>
    /\ Len(handed[e]) + Len(reader[e]) \in marks[Peer(e)] \ {Len(handed[e])}
ReceiveReturns == \A e \in End : HasMessage(e) ~> pc[e] # "receiving"
==============================================================================
