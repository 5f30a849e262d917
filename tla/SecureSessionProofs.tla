------------------------- MODULE SecureSessionProofs -------------------------
(***************************************************************************)
(* What receive() hands over is what the peer sent, in order and, while    *)
(* the peer is there, by whole messages: for any lengths of messages,      *)
(* records and reads.                                                      *)
(***************************************************************************)
EXTENDS SecureSession, TLAPS

LEMMA Peers ==
  ASSUME NEW e \in End
  PROVE  /\ Peer(e) \in End /\ Peer(e) # e /\ Peer(Peer(e)) = e
         /\ \A d \in End : d = e \/ d = Peer(e)
<1>1. PICK a, b \in End : a # b /\ End = {a, b}
  BY EndAssumption
<1>2. \A d \in End : \E p \in End : p # d
  BY <1>1
<1>3. \A d \in End : Peer(d) \in End /\ Peer(d) # d
  BY <1>2 DEF Peer
<1> QED
  BY <1>1, <1>3

LEMMA SmallerBounds ==
  ASSUME NEW m \in Nat \ {0}, NEW n \in Nat \ {0}
  PROVE  Smaller(m, n) \in 1..n /\ Smaller(m, n) \in Nat
BY DEF Smaller

LEMMA BytesType ==
  ASSUME NEW r \in Record, NEW n \in Nat
  PROVE  /\ Bytes(r, n) \in Seq(Nat) /\ Len(Bytes(r, n)) = n
         /\ \A k \in 1..n : Bytes(r, n)[k] = r.first + k - 1
<1>1. \A k \in 1..n : r.first + k - 1 \in Nat
  BY DEF Record
<1>2. Bytes(r, n) \in [1..n -> Nat]
  BY <1>1 DEF Bytes
<1> QED
  BY <1>2 DEF Bytes

LEMMA WithoutType ==
  ASSUME NEW w \in Seq(Record), w # <<>>, NEW n \in Nat
  PROVE  Without(w, n) \in Seq(Record)
<1>1. CASE n = Size(Head(w))
  BY <1>1 DEF Without
<1>2. CASE n # Size(Head(w))
  <2>1. w[1] \in Record /\ Len(w) >= 1
    OBVIOUS
  <2>2. [w[1] EXCEPT !.first = @ + n] \in Record
    BY <2>1 DEF Record
  <2>3. [w EXCEPT ![1].first = @ + n] = [w EXCEPT ![1] = [w[1] EXCEPT !.first = @ + n]]
    BY <2>1
  <2>4. [w EXCEPT ![1].first = @ + n] \in Seq(Record)
    BY <2>2, <2>3
  <2> QED
    BY <1>2, <2>4 DEF Without
<1> QED
  BY <1>1, <1>2

------------------------------------------------------------------------------
(* The types.                                                              *)

\* A record under way is not empty.
Filled == \A e \in End : \A j \in 1..Len(wire[e]) : wire[e][j].first <= wire[e][j].last

Typed == TypeOK /\ Filled

LEMMA WithoutFilled ==
  ASSUME NEW w \in Seq(Record), w # <<>>,
         \A j \in 1..Len(w) : w[j].first <= w[j].last,
         NEW n \in 1..Size(Head(w))
  PROVE  \A j \in 1..Len(Without(w, n)) : Without(w, n)[j].first <= Without(w, n)[j].last
<1>1. CASE n = Size(Head(w))
  <2>1. Without(w, n) = Tail(w)
    BY <1>1 DEF Without
  <2>2. Len(Tail(w)) = Len(w) - 1 /\ Len(w) \in Nat \ {0}
    OBVIOUS
  <2>3. \A j \in 1..Len(w) - 1 : Tail(w)[j] = w[j + 1]
    OBVIOUS
  <2>4. \A j \in 1..Len(w) - 1 : j + 1 \in 1..Len(w)
    BY <2>2
  <2> QED
    BY <2>1, <2>2, <2>3, <2>4
<1>2. CASE n # Size(Head(w))
  <2>1. w[1] \in Record /\ Head(w) = w[1] /\ Len(w) >= 1
    OBVIOUS
  <2>2. w[1].first \in Nat /\ w[1].last \in Nat
    BY <2>1 DEF Record
  <2>3. w[1].first + n <= w[1].last
    BY <1>2, <2>1, <2>2 DEF Size
  <2>4. Without(w, n) = [w EXCEPT ![1].first = @ + n]
    BY <1>2 DEF Without
  <2>5. Len(Without(w, n)) = Len(w)
    BY <2>4
  <2>6. Without(w, n)[1].first = w[1].first + n /\ Without(w, n)[1].last = w[1].last
    BY <2>1, <2>4 DEF Record
  <2>7. \A j \in 1..Len(w) : j # 1 => Without(w, n)[j] = w[j]
    BY <2>4
  <2> QED
    BY <2>3, <2>5, <2>6, <2>7
<1> QED
  BY <1>1, <1>2

LEMMA HeadSize ==
  ASSUME Typed, NEW e \in End, wire[e] # <<>>
  PROVE  /\ Head(wire[e]) = wire[e][1] /\ Head(wire[e]) \in Record
         /\ wire[e] \in Seq(Record) /\ Len(wire[e]) \in Nat \ {0}
         /\ Size(Head(wire[e])) \in Nat \ {0}
<1>1. wire[e] \in Seq(Record)
  BY DEF Typed, TypeOK
<1>2. Head(wire[e]) = wire[e][1] /\ Head(wire[e]) \in Record /\ Len(wire[e]) \in Nat \ {0}
  BY <1>1
<1>3. wire[e][1].first <= wire[e][1].last
  BY <1>2 DEF Typed, Filled
<1>4. Size(Head(wire[e])) \in Nat \ {0}
  BY <1>2, <1>3 DEF Size, Record
<1> QED
  BY <1>1, <1>2, <1>4

\* How much ReadSome takes, and of what.
LEMMA ReadBounds ==
  ASSUME Typed, NEW e \in End, wire[e] # <<>>, NEW n, n = Smaller(MaxLength, Size(Head(wire[e])))
  PROVE  n \in 1..Size(Head(wire[e])) /\ n \in Nat
BY HeadSize, SmallerBounds, LengthAssumption

\* How much WriteRecord writes.
LEMMA WriteBounds ==
  ASSUME Typed, NEW e \in End, left[e] > 0, NEW n, n = Smaller(MaxRecord, left[e])
  PROVE  /\ n \in 1..left[e] /\ n \in Nat \ {0} /\ left[e] \in Nat /\ sent[e] \in Nat
         /\ [first |-> sent[e] + 1, last |-> sent[e] + n] \in Record
<1>1. left[e] \in Nat \ {0} /\ sent[e] \in Nat
  BY DEF Typed, TypeOK
<1>2. n \in 1..left[e] /\ n \in Nat
  BY <1>1, SmallerBounds, LengthAssumption
<1> QED
  BY <1>1, <1>2 DEF Record

LEMMA TypedInit == Init => Typed
<1> SUFFICES ASSUME Init PROVE Typed
  OBVIOUS
<1>1. pc \in [End -> Places] /\ linked \in BOOLEAN /\ shaken \in SUBSET End
  BY DEF Init, Places
<1>2. Filled
  BY DEF Init, Filled
<1> QED
  BY <1>1, <1>2 DEF Init, Typed, TypeOK

\* A handshake moves no byte that a program sends.
Unmoved == UNCHANGED <<left, sent, marks, wire, reader, handed, returned>>

LEMMA MeetingUnmoved ==
  ASSUME NEW e \in End, Connect(e) \/ ConnectThrows(e) \/ Accept(e)
                        \/ HandshakeReturns(e) \/ HandshakeThrows(e)
  PROVE  Unmoved
BY DEF Connect, ConnectThrows, Accept, HandshakeReturns, HandshakeThrows,
       traffic, sending, receiving, Unmoved

LEMMA TypedStep == Typed /\ [Next]_vars => Typed'
<1> SUFFICES ASSUME Typed, [Next]_vars PROVE Typed'
  OBVIOUS
<1>1. ASSUME NEW e \in End, Send(e) PROVE Typed'
  <2>1. PICK n \in 1..MaxBytes - sent[e] :
          /\ left' = [left EXCEPT ![e] = n]
          /\ marks' = [marks EXCEPT ![e] = @ \cup {sent[e] + n}]
    BY <1>1 DEF Send
  <2>2. n \in Nat /\ sent[e] + n \in Nat
    BY <2>1, LengthAssumption DEF Typed, TypeOK
  <2> QED
    BY <1>1, <2>1, <2>2 DEF Send, Goes, meeting, receiving, Typed, Places, TypeOK, Filled
<1>2. ASSUME NEW e \in End, WriteRecord(e) PROVE Typed'
  <2> DEFINE n == Smaller(MaxRecord, left[e])
             record == [first |-> sent[e] + 1, last |-> sent[e] + n]
             p == Peer(e)
  <2>1. n \in 1..left[e] /\ n \in Nat \ {0} /\ left[e] \in Nat /\ sent[e] \in Nat /\ record \in Record
    BY <1>2, WriteBounds DEF WriteRecord
  <2>2. p \in End /\ wire[p] \in Seq(Record)
    BY Peers DEF Typed, TypeOK
  <2>3. wire' = [wire EXCEPT ![p] = Append(@, record)]
        /\ sent' = [sent EXCEPT ![e] = @ + n] /\ left' = [left EXCEPT ![e] = @ - n]
        /\ UNCHANGED <<pc, meeting, marks, receiving>>
    BY <1>2 DEF WriteRecord
  <2>4. record.first <= record.last
    BY <2>1
  <2> HIDE DEF n, record, p
  <2>5. Append(wire[p], record) \in Seq(Record)
    BY <2>1, <2>2
  <2>6. wire' \in [End -> Seq(Record)]
    BY <2>2, <2>3, <2>5 DEF Typed, TypeOK
  <2>7. TypeOK'
    <3>1. left' \in [End -> Nat] /\ sent' \in [End -> Nat]
      BY <2>1, <2>3 DEF Typed, TypeOK
    <3> QED
      BY <2>3, <2>6, <3>1 DEF meeting, receiving, Typed, TypeOK
  <2>8. Filled'
    <3>1. \A d \in End : d # p => wire'[d] = wire[d]
      BY <2>3 DEF Typed, TypeOK
    <3>2. wire'[p] = Append(wire[p], record)
      BY <2>2, <2>3 DEF Typed, TypeOK
    <3>3. \A j \in 1..Len(wire'[p]) : wire'[p][j].first <= wire'[p][j].last
      BY <2>2, <2>4, <3>2 DEF Typed, Filled
    <3> QED
      BY <3>1, <3>3 DEF Typed, Filled
  <2> QED
    BY <2>7, <2>8 DEF Typed
<1>3. ASSUME NEW e \in End, SendReturns(e) PROVE Typed'
  BY <1>3 DEF SendReturns, Goes, sending, meeting, receiving, Typed, Places, TypeOK, Filled
<1>4. ASSUME NEW e \in End, SendThrows(e) PROVE Typed'
  BY <1>4 DEF SendThrows, Goes, meeting, receiving, Typed, Places, TypeOK, Filled
<1>5. ASSUME NEW e \in End, Receive(e) PROVE Typed'
  BY <1>5 DEF Receive, Goes, sending, meeting, receiving, Typed, Places, TypeOK, Filled
<1>6. ASSUME NEW e \in End, ReadSome(e) PROVE Typed'
  <2> DEFINE n == Smaller(MaxLength, Size(Head(wire[e])))
             bytes == Bytes(Head(wire[e]), n)
             data == reader[e] \o bytes
  <2>1. wire[e] # <<>> /\ n \in 1..Size(Head(wire[e])) /\ n \in Nat
    BY <1>6, ReadBounds DEF ReadSome
  <2>2. bytes \in Seq(Nat)
    BY <2>1, HeadSize, BytesType
  <2>3. Without(wire[e], n) \in Seq(Record)
    BY <2>1, HeadSize, WithoutType
  <2>4. \A j \in 1..Len(Without(wire[e], n)) :
          Without(wire[e], n)[j].first <= Without(wire[e], n)[j].last
    BY <2>1, HeadSize, WithoutFilled DEF Typed, Filled
  <2>5. /\ wire' = [wire EXCEPT ![e] = Without(@, n)]
        /\ reader' = [reader EXCEPT ![e] = IF n = MaxLength THEN data ELSE <<>>]
        /\ IF n = MaxLength THEN UNCHANGED <<pc, handed, returned>>
           ELSE /\ pc' = [pc EXCEPT ![e] = "idle"]
                /\ handed' = [handed EXCEPT ![e] = @ \o data]
                /\ returned' = [returned EXCEPT ![e] = @ \cup {Len(handed'[e])}]
        /\ UNCHANGED <<meeting, sending>>
    BY <1>6 DEF ReadSome
  <2> HIDE DEF n, bytes
  <2>6. data \in Seq(Nat) /\ handed[e] \o data \in Seq(Nat)
    BY <2>2 DEF Typed, TypeOK
  <2> HIDE DEF data
  <2>7. wire' \in [End -> Seq(Record)] /\ reader' \in [End -> Seq(Nat)]
    BY <2>3, <2>5, <2>6 DEF Typed, TypeOK
  <2>8. handed' \in [End -> Seq(Nat)]
    BY <2>5, <2>6 DEF Typed, TypeOK
  <2>9. returned' \in [End -> SUBSET Nat]
    <3>1. Len(handed'[e]) \in Nat
      BY <2>8
    <3>2. CASE n = MaxLength
      BY <2>5, <3>2 DEF Typed, TypeOK
    <3>3. CASE n # MaxLength
      <4>1. returned[e] \cup {Len(handed'[e])} \in SUBSET Nat
        BY <3>1 DEF Typed, TypeOK
      <4>2. returned' = [returned EXCEPT ![e] = returned[e] \cup {Len(handed'[e])}]
        BY <2>5, <3>3
      <4> QED
        BY <4>1, <4>2 DEF Typed, TypeOK
    <3> QED
      BY <3>2, <3>3
  <2>10. TypeOK'
    BY <2>5, <2>7, <2>8, <2>9 DEF meeting, sending, Typed, Places, TypeOK
  <2>11. Filled'
    <3>1. \A d \in End : d # e => wire'[d] = wire[d]
      BY <2>5 DEF Typed, TypeOK
    <3>2. wire'[e] = Without(wire[e], n)
      BY <2>5 DEF Typed, TypeOK
    <3> QED
      BY <2>4, <3>1, <3>2 DEF Typed, Filled
  <2> QED
    BY <2>10, <2>11 DEF Typed
<1>7. ASSUME NEW e \in End, ReadEnd(e) PROVE Typed'
  <2>1. handed[e] \o reader[e] \in Seq(Nat)
    BY DEF Typed, TypeOK
  <2> QED
    BY <1>7, <2>1 DEF ReadEnd, Goes, meeting, sending, Typed, Places, TypeOK, Filled
<1>8. ASSUME NEW e \in End, ReadThrows(e) PROVE Typed'
  <2>1. pc' \in [End -> Places]
    BY <1>8 DEF ReadThrows, Goes, Typed, TypeOK, Places
  <2>2. reader' \in [End -> Seq(Nat)] /\ wire' \in [End -> Seq(Record)]
    BY <1>8 DEF ReadThrows, Typed, TypeOK
  <2>3. TypeOK'
    BY <1>8, <2>1, <2>2 DEF ReadThrows, meeting, sending, Typed, TypeOK
  <2>4. Filled'
    BY <1>8 DEF ReadThrows, Typed, TypeOK, Filled
  <2> QED
    BY <2>3, <2>4 DEF Typed
<1>9. ASSUME NEW e \in End, Close(e) PROVE Typed'
  BY <1>9 DEF Close, sending, meeting, receiving, Typed, Places, TypeOK, Filled
<1>10. ASSUME NEW e \in End, Connect(e) \/ ConnectThrows(e) \/ Accept(e)
                              \/ HandshakeReturns(e) \/ HandshakeThrows(e)
       PROVE  Typed'
  <2>1. Unmoved
    BY <1>10, MeetingUnmoved
  <2>2. linked' \in BOOLEAN /\ shaken' \in SUBSET End
    BY <1>10 DEF Connect, ConnectThrows, Accept, HandshakeReturns, HandshakeThrows,
                 meeting, Typed, TypeOK
  <2>3. \E place \in Places : pc' = [pc EXCEPT ![e] = place]
    BY <1>10 DEF Connect, ConnectThrows, Accept, HandshakeReturns, HandshakeThrows,
                 Goes, Places
  <2>4. pc' \in [End -> Places]
    BY <2>3 DEF Typed, TypeOK
  <2> QED
    BY <2>1, <2>2, <2>4 DEF Unmoved, Typed, TypeOK, Filled
<1>11. CASE UNCHANGED vars
  BY <1>11 DEF vars, Typed, TypeOK, Filled
<1> QED
  BY <1>1, <1>2, <1>3, <1>4, <1>5, <1>6, <1>7, <1>8, <1>9, <1>10, <1>11 DEF Next, Step

\* Types, for any lengths and any number of bytes.
THEOREM TypeCorrect == Spec => []TypeOK
<1>1. Typed => TypeOK
  BY DEF Typed
<1> QED
  BY <1>1, TypedInit, TypedStep, PTL DEF Spec
------------------------------------------------------------------------------
(* The order of the bytes.                                                 *)

\* What e has been handed (h), reads (r) and what is under way to it (w) are
\* the bytes its peer has sent (s), each the next of the one before; only
\* when the peer is gone may the last of them be missing.
Chained(h, r, w, s, gone) ==
    /\ \A k \in 1..Len(h) : h[k] = k
    /\ \A k \in 1..Len(r) : r[k] = Len(h) + k
    /\ \A j \in 1..Len(w) - 1 : w[j + 1].first = w[j].last + 1
    /\ w # <<>> => w[1].first = Len(h) + Len(r) + 1 /\ w[Len(w)].last = s
    /\ w = <<>> => Len(h) + Len(r) = s \/ gone
    /\ \A j \in 1..Len(w) : w[j].last <= s
    /\ Len(h) + Len(r) <= s

Chain(e) == Chained(handed[e], reader[e], wire[e], sent[Peer(e)], pc[Peer(e)] = "gone")
Chains == \A e \in End : Chain(e)

LEMMA ChainAppend ==
  ASSUME NEW h \in Seq(Nat), NEW r \in Seq(Nat), NEW w \in Seq(Record), NEW s \in Nat,
         NEW n \in Nat \ {0}, NEW record \in Record,
         record.first = s + 1, record.last = s + n,
         Chained(h, r, w, s, FALSE)
  PROVE  Chained(h, r, Append(w, record), s + n, FALSE)
<1> DEFINE v == Append(w, record)
<1>1. Len(v) = Len(w) + 1 /\ v # <<>> /\ v[Len(v)] = record /\ Len(w) \in Nat
  <2>1. Len(v) = Len(w) + 1 /\ Len(w) \in Nat
    OBVIOUS
  <2>2. v[Len(w) + 1] = record
    OBVIOUS
  <2>3. v # <<>>
    <3>1. Len(<<>>) = 0
      OBVIOUS
    <3>2. Len(v) # 0
      BY <2>1
    <3> HIDE DEF v
    <3> QED
      BY <3>1, <3>2
  <2> QED
    BY <2>1, <2>2, <2>3
<1>2. \A j \in 1..Len(w) : v[j] = w[j]
  OBVIOUS
<1>3. CASE w = <<>>
  <2>1. v[1] = record /\ Len(v) = 1
    BY <1>1, <1>3
  <2>2. Len(h) + Len(r) = s
    BY <1>3 DEF Chained
  <2> HIDE DEF v
  <2>4. Len(h) \in Nat /\ Len(r) \in Nat
    OBVIOUS
  <2>5. v[1].first = Len(h) + Len(r) + 1 /\ v[Len(v)].last = s + n
    BY <2>1, <2>2
  <2>6. \A j \in 1..Len(v) - 1 : v[j + 1].first = v[j].last + 1
    BY <2>1
  <2>7. \A j \in 1..Len(v) : v[j].last <= s + n
    BY <2>1
  <2>3. Chained(h, r, v, s + n, FALSE)
    BY <1>1, <2>2, <2>4, <2>5, <2>6, <2>7 DEF Chained
  <2> QED
    BY <2>3 DEF v
<1>4. CASE w # <<>>
  <2>1. Len(w) >= 1
    BY <1>4
  <2>2. w[Len(w)].last = s /\ w[1].first = Len(h) + Len(r) + 1
        /\ \A j \in 1..Len(w) - 1 : w[j + 1].first = w[j].last + 1
    BY <1>4 DEF Chained
  <2> HIDE DEF v
  <2>3. \A j \in 1..Len(v) - 1 : v[j + 1].first = v[j].last + 1
    <3> SUFFICES ASSUME NEW j \in 1..Len(v) - 1 PROVE v[j + 1].first = v[j].last + 1
      OBVIOUS
    <3>1. CASE j < Len(w)
      <4>1. v[j] = w[j] /\ v[j + 1] = w[j + 1]
        <5>1. j \in 1..Len(w) /\ j + 1 \in 1..Len(w)
          BY <1>1, <3>1
        <5> QED
          BY <1>2, <5>1
      <4> QED
        BY <1>1, <2>2, <3>1, <4>1
    <3>2. CASE j = Len(w)
      <4>1. v[j] = w[Len(w)] /\ v[j + 1] = record
        BY <1>1, <1>2, <3>2, <2>1
      <4> QED
        BY <2>2, <4>1
    <3> QED
      BY <1>1, <3>1, <3>2
  <2>4. v[1].first = Len(h) + Len(r) + 1
    BY <1>2, <2>1, <2>2
  <2>5. \A j \in 1..Len(v) : v[j].last <= s + n
    <3>1. \A j \in 1..Len(w) : w[j].last <= s /\ w[j].last \in Nat
      <4>1. \A j \in 1..Len(w) : w[j] \in Record
        OBVIOUS
      <4> QED
        BY <4>1 DEF Chained, Record
    <3>2. \A j \in 1..Len(w) : w[j].last <= s + n
      BY <3>1
    <3>3. \A j \in 1..Len(v) : j \in 1..Len(w) \/ j = Len(v)
      BY <1>1
    <3> QED
      BY <1>1, <1>2, <3>2, <3>3
  <2>6. Chained(h, r, v, s + n, FALSE)
    BY <1>1, <2>3, <2>4, <2>5 DEF Chained
  <2> QED
    BY <2>6 DEF v
<1> QED
  BY <1>3, <1>4

LEMMA ChainTake ==
  ASSUME NEW h \in Seq(Nat), NEW r \in Seq(Nat), NEW w \in Seq(Record), NEW s \in Nat,
         NEW gone \in BOOLEAN, w # <<>>,
         \A j \in 1..Len(w) : w[j].first <= w[j].last,
         NEW n \in 1..Size(Head(w)),
         Chained(h, r, w, s, gone)
  PROVE  Chained(h, r \o Bytes(Head(w), n), Without(w, n), s, gone)
<1> DEFINE b == Bytes(Head(w), n)
           q == r \o b
           v == Without(w, n)
<1>1. Head(w) = w[1] /\ w[1] \in Record /\ Len(w) \in Nat \ {0}
  OBVIOUS
<1>2. w[1].first \in Nat /\ w[1].last \in Nat /\ Size(Head(w)) = w[1].last - w[1].first + 1
      /\ n \in Nat /\ n <= w[1].last - w[1].first + 1
  <2>1. w[1].first \in Nat /\ w[1].last \in Nat
    BY <1>1 DEF Record
  <2>2. Size(Head(w)) = w[1].last - w[1].first + 1
    BY <1>1 DEF Size
  <2> QED
    BY <2>1, <2>2
<1>3. b \in Seq(Nat) /\ Len(b) = n /\ \A k \in 1..n : b[k] = w[1].first + k - 1
  <2>1. Head(w) \in Record /\ n \in Nat
    BY <1>1, <1>2
  <2>2. /\ Bytes(Head(w), n) \in Seq(Nat) /\ Len(Bytes(Head(w), n)) = n
        /\ \A k \in 1..n : Bytes(Head(w), n)[k] = Head(w).first + k - 1
    BY <2>1, BytesType
  <2> QED
    BY <1>1, <2>2
<1>4. w[1].first = Len(h) + Len(r) + 1 /\ w[Len(w)].last = s
      /\ \A j \in 1..Len(w) - 1 : w[j + 1].first = w[j].last + 1
  BY DEF Chained
<1> HIDE DEF b
<1>5. Len(q) = Len(r) + n /\ \A k \in 1..Len(q) : q[k] = Len(h) + k
  <2>1. Len(q) = Len(r) + n
    <3>1. \A x, y \in Seq(Nat) : Len(x \o y) = Len(x) + Len(y)
      OBVIOUS
    <3> QED
      BY <1>3, <3>1
  <2>2. \A k \in 1..Len(r) : q[k] = r[k]
    BY <1>3
  <2>3. \A k \in 1..Len(q) : k > Len(r) => q[k] = b[k - Len(r)]
    BY <1>3
  <2>4. \A k \in 1..Len(r) : r[k] = Len(h) + k
    BY DEF Chained
  <2> SUFFICES ASSUME NEW k \in 1..Len(q) PROVE q[k] = Len(h) + k
    BY <2>1
  <2>5. CASE k <= Len(r)
    BY <2>2, <2>4, <2>5
  <2>6. CASE k > Len(r)
    <3>1. k - Len(r) \in 1..n
      BY <2>1, <2>6, <1>2
    <3> HIDE DEF q
    <3> QED
      BY <1>2, <1>3, <1>4, <2>3, <2>6, <3>1
  <2> QED
    BY <2>5, <2>6
<1> HIDE DEF q
<1>6. Len(q) \in Nat /\ Len(h) \in Nat /\ Len(r) \in Nat
  BY <1>2, <1>5
<1>7. CASE n = Size(Head(w))
  <2>1. v = Tail(w)
    BY <1>7 DEF Without
  <2>2. Len(v) = Len(w) - 1 /\ \A j \in 1..Len(v) : v[j] = w[j + 1]
    BY <1>1, <2>1
  <2>3. v = <<>> <=> Len(w) = 1
    <3>1. v \in Seq(Record)
      BY <1>1, <2>1
    <3>2. v = <<>> <=> Len(v) = 0
      BY <3>1
    <3> QED
      BY <1>1, <2>2, <3>2
  <2> HIDE DEF v
  <2>4. Len(h) + Len(q) = w[1].last
    BY <1>2, <1>4, <1>5, <1>6, <1>7, SMTT(20)
  <2>5. \A j \in 1..Len(v) - 1 : v[j + 1].first = v[j].last + 1
    <3> SUFFICES ASSUME NEW j \in 1..Len(v) - 1 PROVE v[j + 1].first = v[j].last + 1
      OBVIOUS
    <3>1. v[j + 1] = w[j + 2] /\ v[j] = w[j + 1]
      BY <1>1, <2>2
    <3> QED
      BY <1>1, <1>4, <2>2, <3>1
  <2>8. \A j \in 1..Len(v) : v[j].last <= s
    <3>1. \A j \in 1..Len(v) : v[j] = w[j + 1] /\ j + 1 \in 1..Len(w)
      BY <1>1, <2>2
    <3> QED
      BY <3>1 DEF Chained
  <2>6. CASE Len(w) = 1
    <3>1. v = <<>> /\ w[1].last = s
      BY <1>4, <2>3, <2>6
    <3>2. Chained(h, q, v, s, gone)
      BY <1>5, <2>2, <2>4, <2>6, <2>8, <3>1 DEF Chained
    <3> QED
      BY <3>2 DEF v, q, b
  <2>7. CASE Len(w) # 1
    <3>1. v # <<>> /\ v[1] = w[2] /\ v[Len(v)] = w[Len(w)]
      BY <1>1, <2>2, <2>3, <2>7
    <3>2. w[2].first = w[1].last + 1
      <4>1. 1 \in 1..Len(w) - 1
        <5>1. \A m \in Nat \ {0} : m # 1 => 1 \in 1..m - 1
          OBVIOUS
        <5> QED
          BY <1>1, <2>7, <5>1
      <4>2. w[1 + 1].first = w[1].last + 1
        BY <1>4, <4>1
      <4> QED
        BY <4>2
    <3>3. w[1].last <= s
      BY <1>1 DEF Chained
    <3>4. Chained(h, q, v, s, gone)
      BY <1>4, <1>5, <2>4, <2>5, <2>8, <3>1, <3>2, <3>3 DEF Chained
    <3> QED
      BY <3>4 DEF v, q, b
  <2> QED
    BY <2>6, <2>7
<1>8. CASE n # Size(Head(w))
  <2>1. v = [w EXCEPT ![1].first = @ + n]
    BY <1>8 DEF Without
  <2>2. Len(v) = Len(w) /\ v # <<>>
    BY <1>1, <2>1
  <2>3. v[1].first = w[1].first + n /\ v[1].last = w[1].last
    BY <1>1, <2>1 DEF Record
  <2>4. \A j \in 1..Len(w) : j # 1 => v[j] = w[j]
    BY <2>1
  <2> HIDE DEF v
  <2>5. \A j \in 1..Len(w) : v[j].last = w[j].last
    BY <2>3, <2>4
  <2>6. \A j \in 1..Len(v) - 1 : v[j + 1].first = v[j].last + 1
    <3> SUFFICES ASSUME NEW j \in 1..Len(v) - 1 PROVE v[j + 1].first = v[j].last + 1
      OBVIOUS
    <3>1. j \in 1..Len(w) - 1 /\ j \in 1..Len(w) /\ j + 1 \in 1..Len(w) /\ j + 1 # 1
      BY <1>1, <2>2
    <3>2. v[j + 1] = w[j + 1] /\ v[j].last = w[j].last
      BY <2>4, <2>5, <3>1
    <3> QED
      BY <1>4, <3>1, <3>2
  <2>7. v[1].first = Len(h) + Len(q) + 1 /\ v[Len(v)].last = s
    BY <1>1, <1>2, <1>4, <1>5, <1>6, <2>2, <2>3, <2>5
  <2>8. Len(h) + Len(q) <= s
    <3>1. w[1].last <= s
      BY <1>1 DEF Chained
    <3>2. w[1].first + n <= w[1].last
      <4>1. \A f, l, m \in Nat : m <= l - f + 1 /\ m # l - f + 1 => f + m <= l
        OBVIOUS
      <4> QED
        BY <1>2, <1>8, <4>1
    <3>3. s \in Nat
      OBVIOUS
    <3> HIDE DEF q
    <3>4. Len(h) + Len(q) = w[1].first + n - 1
      BY <1>2, <1>4, <1>5, <1>6
    <3> QED
      BY <1>2, <1>6, <3>1, <3>2, <3>4
  <2>9. \A k \in 1..Len(h) : h[k] = k
    BY DEF Chained
  <2>10. \A j \in 1..Len(v) : v[j].last <= s
    BY <2>2, <2>5 DEF Chained
  <2>11. Chained(h, q, v, s, gone)
    BY <1>5, <2>2, <2>6, <2>7, <2>8, <2>9, <2>10 DEF Chained
  <2> QED
    BY <2>11 DEF v, q, b
<1> QED
  BY <1>7, <1>8

LEMMA ChainHand ==
  ASSUME NEW h \in Seq(Nat), NEW r \in Seq(Nat), NEW w \in Seq(Record), NEW s \in Nat,
         NEW gone \in BOOLEAN, Chained(h, r, w, s, gone)
  PROVE  Chained(h \o r, <<>>, w, s, gone)
<1> DEFINE q == h \o r
<1>1. Len(q) = Len(h) + Len(r) /\ Len(h) \in Nat /\ Len(r) \in Nat
  OBVIOUS
<1>2. \A k \in 1..Len(q) : q[k] = k
  <2>1. \A k \in 1..Len(h) : q[k] = h[k]
    OBVIOUS
  <2>2. \A k \in 1..Len(q) : k > Len(h) => q[k] = r[k - Len(h)] /\ k - Len(h) \in 1..Len(r)
    OBVIOUS
  <2>3. /\ \A k \in 1..Len(h) : h[k] = k
        /\ \A k \in 1..Len(r) : r[k] = Len(h) + k
    BY DEF Chained
  <2> HIDE DEF q
  <2> SUFFICES ASSUME NEW k \in 1..Len(q) PROVE q[k] = k
    OBVIOUS
  <2>4. CASE k <= Len(h)
    <3>1. k \in 1..Len(h)
      BY <1>1, <2>4
    <3> QED
      BY <2>1, <2>3, <3>1
  <2>5. CASE k > Len(h)
    <3>1. q[k] = r[k - Len(h)] /\ r[k - Len(h)] = Len(h) + (k - Len(h))
      BY <2>2, <2>3, <2>5
    <3> QED
      BY <1>1, <3>1
  <2> QED
    BY <1>1, <2>4, <2>5
<1> HIDE DEF q
<1>3. Len(<<>>) = 0
  OBVIOUS
<1>4. Chained(q, <<>>, w, s, gone)
  BY <1>1, <1>2, <1>3 DEF Chained
<1> QED
  BY <1>4 DEF q

\* What is lost is lost at the end, once the peer is gone.
LEMMA ChainCut ==
  ASSUME NEW h \in Seq(Nat), NEW r \in Seq(Nat), NEW w \in Seq(Record), NEW s \in Nat,
         NEW gone \in BOOLEAN, Chained(h, r, w, s, gone)
  PROVE  Chained(h, r, w, s, TRUE) /\ Chained(h, <<>>, <<>>, s, TRUE)
<1>1. Len(h) \in Nat /\ Len(r) \in Nat /\ Len(<<>>) = 0
  OBVIOUS
<1>2. Chained(h, r, w, s, TRUE)
  BY DEF Chained
<1>3. Chained(h, <<>>, <<>>, s, TRUE)
  BY <1>1 DEF Chained
<1> QED
  BY <1>2, <1>3

LEMMA ChainsInit == Init => Chains
<1>1. Len(<<>>) = 0
  OBVIOUS
<1>2. Chained(<<>>, <<>>, <<>>, 0, FALSE)
  BY <1>1 DEF Chained
<1> SUFFICES ASSUME Init, NEW e \in End PROVE Chain(e)
  BY DEF Chains
<1>3. /\ handed[e] = <<>> /\ reader[e] = <<>> /\ wire[e] = <<>>
      /\ sent[Peer(e)] = 0 /\ (pc[Peer(e)] = "gone") = FALSE
  BY Peers DEF Init
<1> QED
  BY <1>2, <1>3 DEF Chain

LEMMA ChainsStep == Typed /\ Chains /\ [Next]_vars => Chains'
<1> SUFFICES ASSUME Typed, Chains, [Next]_vars PROVE Chains'
  OBVIOUS
\* The types that the lemmas on chains ask for.
<1>t. \A e \in End :
        /\ handed[e] \in Seq(Nat) /\ reader[e] \in Seq(Nat) /\ wire[e] \in Seq(Record)
        /\ sent[Peer(e)] \in Nat /\ (pc[Peer(e)] = "gone") \in BOOLEAN
        /\ Peer(e) \in End /\ Peer(e) # e
  BY Peers DEF Typed, TypeOK
<1>c. \A e \in End : Chain(e)
  BY DEF Chains
\* A call that begins or returns moves no byte.
<1>0. ASSUME UNCHANGED <<handed, reader, wire, sent>>,
             \A d \in End : pc[d] = "gone" <=> pc'[d] = "gone"
      PROVE  Chains'
  <2> SUFFICES ASSUME NEW e \in End PROVE Chain(e)'
    BY DEF Chains
  <2>1. (pc'[Peer(e)] = "gone") = (pc[Peer(e)] = "gone")
    BY <1>0, <1>t
  <2> QED
    BY <1>0, <1>c, <2>1 DEF Chain
<1>1. ASSUME NEW e \in End, Send(e) PROVE Chains'
  BY <1>0, <1>1 DEF Send, Goes, meeting, receiving, Typed, TypeOK
<1>2. ASSUME NEW e \in End, WriteRecord(e) PROVE Chains'
  <2> DEFINE n == Smaller(MaxRecord, left[e])
             record == [first |-> sent[e] + 1, last |-> sent[e] + n]
             p == Peer(e)
  <2>1. n \in Nat \ {0} /\ record \in Record /\ sent[e] \in Nat
    BY <1>2, WriteBounds DEF WriteRecord
  <2>2. /\ wire' = [wire EXCEPT ![p] = Append(@, record)]
        /\ sent' = [sent EXCEPT ![e] = @ + n]
        /\ pc[e] = "sending" /\ UNCHANGED <<pc, reader, handed>>
    BY <1>2 DEF WriteRecord, meeting, receiving
  <2>3. record.first = sent[e] + 1 /\ record.last = sent[e] + n
    OBVIOUS
  <2> HIDE DEF n, record
  <2>4. p \in End /\ p # e /\ Peer(p) = e /\ \A d \in End : d = e \/ d = p
    BY Peers
  <2>5. Chained(handed[p], reader[p], wire[p], sent[e], FALSE)
    BY <1>c, <2>2, <2>4 DEF Chain
  <2>6. Chained(handed[p], reader[p], Append(wire[p], record), sent[e] + n, FALSE)
    BY <1>t, <2>1, <2>3, <2>4, <2>5, ChainAppend
  <2>7. wire'[p] = Append(wire[p], record) /\ sent'[e] = sent[e] + n /\ (pc'[e] = "gone") = FALSE
    BY <2>2, <2>4 DEF Typed, TypeOK
  <2>8. Chain(p)'
    BY <2>2, <2>4, <2>6, <2>7 DEF Chain
  <2>9. wire'[e] = wire[e] /\ sent'[p] = sent[p]
    BY <2>2, <2>4 DEF Typed, TypeOK
  <2>10. Chain(e)'
    BY <1>c, <2>2, <2>9 DEF Chain
  <2> QED
    BY <2>4, <2>8, <2>10 DEF Chains
<1>3. ASSUME NEW e \in End, SendReturns(e) PROVE Chains'
  BY <1>0, <1>3 DEF SendReturns, Goes, sending, meeting, receiving, Typed, TypeOK
<1>4. ASSUME NEW e \in End, SendThrows(e) PROVE Chains'
  BY <1>0, <1>4 DEF SendThrows, Goes, meeting, receiving, Typed, TypeOK
<1>5. ASSUME NEW e \in End, Receive(e) PROVE Chains'
  BY <1>0, <1>5 DEF Receive, Goes, sending, meeting, receiving, Typed, TypeOK
\* What a step of receive() does to the chain of the other end: nothing.
<1>r. ASSUME NEW e \in End, Chain(e)', sent' = sent,
             \A d \in End : pc[d] = "gone" <=> pc'[d] = "gone",
             \A d \in End : d # e => /\ handed'[d] = handed[d] /\ reader'[d] = reader[d]
                                    /\ wire'[d] = wire[d]
      PROVE  Chains'
  <2> SUFFICES ASSUME NEW d \in End, d # e PROVE Chain(d)'
    BY <1>r DEF Chains
  <2>1. (pc'[Peer(d)] = "gone") = (pc[Peer(d)] = "gone")
    BY <1>r, <1>t
  <2> QED
    BY <1>r, <1>c, <2>1 DEF Chain
<1>6. ASSUME NEW e \in End, ReadSome(e) PROVE Chains'
  <2> DEFINE n == Smaller(MaxLength, Size(Head(wire[e])))
             data == reader[e] \o Bytes(Head(wire[e]), n)
             rest == Without(wire[e], n)
             gone == pc[Peer(e)] = "gone"
  <2>1. wire[e] # <<>> /\ n \in 1..Size(Head(wire[e])) /\ n \in Nat
    BY <1>6, ReadBounds DEF ReadSome
  <2>2. Chained(handed[e], reader[e], wire[e], sent[Peer(e)], gone)
    BY <1>c DEF Chain
  <2>3. \A j \in 1..Len(wire[e]) : wire[e][j].first <= wire[e][j].last
    BY DEF Typed, Filled
  <2>4. Chained(handed[e], data, rest, sent[Peer(e)], gone)
    BY <1>t, <2>1, <2>2, <2>3, ChainTake
  <2>5. data \in Seq(Nat) /\ rest \in Seq(Record)
    <3>1. Head(wire[e]) \in Record
      BY <2>1, HeadSize
    <3>2. Bytes(Head(wire[e]), n) \in Seq(Nat)
      BY <2>1, <3>1, BytesType
    <3>3. reader[e] \in Seq(Nat) /\ wire[e] \in Seq(Record)
      BY <1>t
    <3>4. rest \in Seq(Record)
      BY <2>1, <3>3, WithoutType
    <3> QED
      BY <3>2, <3>3, <3>4
  <2>6. /\ wire' = [wire EXCEPT ![e] = rest]
        /\ reader' = [reader EXCEPT ![e] = IF n = MaxLength THEN data ELSE <<>>]
        /\ n = MaxLength => UNCHANGED <<pc, handed>>
        /\ n # MaxLength => /\ pc' = [pc EXCEPT ![e] = "idle"]
                            /\ handed' = [handed EXCEPT ![e] = @ \o data]
        /\ sent' = sent /\ pc[e] = "receiving"
    BY <1>6 DEF ReadSome, meeting, sending
  <2> HIDE DEF n, data, rest
  <2>7. wire'[e] = rest
        /\ \A d \in End : d # e => /\ handed'[d] = handed[d] /\ reader'[d] = reader[d]
                                    /\ wire'[d] = wire[d]
    BY <2>6 DEF Typed, TypeOK
  <2>8. \A d \in End : pc[d] = "gone" <=> pc'[d] = "gone"
    BY <2>6 DEF Typed, TypeOK
  <2>9. Chain(e)'
    <3>1. (pc'[Peer(e)] = "gone") = gone
      BY <1>t, <2>8
    <3>2. CASE n = MaxLength
      <4>1. handed'[e] = handed[e] /\ reader'[e] = data
        BY <2>6, <3>2 DEF Typed, TypeOK
      <4> QED
        BY <2>4, <2>6, <2>7, <3>1, <4>1 DEF Chain
    <3>3. CASE n # MaxLength
      <4>1. handed'[e] = handed[e] \o data /\ reader'[e] = <<>>
        BY <2>6, <3>3 DEF Typed, TypeOK
      <4>2. Chained(handed[e] \o data, <<>>, rest, sent[Peer(e)], gone)
        BY <1>t, <2>4, <2>5, ChainHand
      <4> QED
        BY <2>6, <2>7, <3>1, <4>1, <4>2 DEF Chain
    <3> QED
      BY <3>2, <3>3
  <2> QED
    BY <1>r, <2>6, <2>7, <2>8, <2>9
<1>7. ASSUME NEW e \in End, ReadEnd(e) PROVE Chains'
  <2>1. /\ handed' = [handed EXCEPT ![e] = @ \o reader[e]]
        /\ reader' = [reader EXCEPT ![e] = <<>>]
        /\ UNCHANGED <<sent, wire>> /\ pc[e] = "receiving" /\ pc' = [pc EXCEPT ![e] = "idle"]
    BY <1>7 DEF ReadEnd, Goes, meeting, sending
  <2>2. Chained(handed[e] \o reader[e], <<>>, wire[e], sent[Peer(e)], pc[Peer(e)] = "gone")
    BY <1>t, <1>c, ChainHand DEF Chain
  <2>3. \A d \in End : pc[d] = "gone" <=> pc'[d] = "gone"
    BY <2>1 DEF Typed, TypeOK
  <2>4. /\ handed'[e] = handed[e] \o reader[e] /\ reader'[e] = <<>>
        /\ \A d \in End : d # e => /\ handed'[d] = handed[d] /\ reader'[d] = reader[d]
                                    /\ wire'[d] = wire[d]
    BY <2>1 DEF Typed, TypeOK
  <2>5. (pc'[Peer(e)] = "gone") = (pc[Peer(e)] = "gone")
    BY <1>t, <2>3
  <2>6. Chain(e)'
    BY <2>1, <2>2, <2>4, <2>5 DEF Chain
  <2> QED
    BY <1>r, <2>1, <2>3, <2>4, <2>6
<1>8. ASSUME NEW e \in End, ReadThrows(e) PROVE Chains'
  <2>1. /\ wire' = [wire EXCEPT ![e] = <<>>] /\ reader' = [reader EXCEPT ![e] = <<>>]
        /\ UNCHANGED <<sent, handed>> /\ pc[e] = "receiving" /\ pc' = [pc EXCEPT ![e] = "idle"]
        /\ pc[Peer(e)] = "gone"
    BY <1>8 DEF ReadThrows, Goes, meeting, sending
  <2>2. Chained(handed[e], <<>>, <<>>, sent[Peer(e)], TRUE)
    BY <1>t, <1>c, ChainCut DEF Chain
  <2>3. \A d \in End : pc[d] = "gone" <=> pc'[d] = "gone"
    BY <2>1 DEF Typed, TypeOK
  <2>4. /\ wire'[e] = <<>> /\ reader'[e] = <<>> /\ handed'[e] = handed[e]
        /\ \A d \in End : d # e => /\ handed'[d] = handed[d] /\ reader'[d] = reader[d]
                                    /\ wire'[d] = wire[d]
    BY <2>1 DEF Typed, TypeOK
  <2>5. (pc'[Peer(e)] = "gone") = TRUE
    BY <1>t, <2>1, <2>3
  <2>6. Chain(e)'
    BY <2>1, <2>2, <2>4, <2>5 DEF Chain
  <2> QED
    BY <1>r, <2>1, <2>3, <2>4, <2>6
\* Nor does an end that goes.
<1>g. ASSUME NEW e \in End, UNCHANGED <<handed, reader, wire, sent>>,
             pc' = [pc EXCEPT ![e] = "gone"]
      PROVE  Chains'
  <2> SUFFICES ASSUME NEW d \in End PROVE Chain(d)'
    BY DEF Chains
  <2>2. CASE Peer(d) = e
    <3>1. Chained(handed[d], reader[d], wire[d], sent[Peer(d)], TRUE)
      BY <1>t, <1>c, ChainCut DEF Chain
    <3>2. (pc'[Peer(d)] = "gone") = TRUE
      BY <1>g, <2>2 DEF Typed, TypeOK
    <3> QED
      BY <1>g, <3>1, <3>2 DEF Chain
  <2>3. CASE Peer(d) # e
    <3>1. (pc'[Peer(d)] = "gone") = (pc[Peer(d)] = "gone")
      BY <1>t, <1>g, <2>3 DEF Typed, TypeOK
    <3> QED
      BY <1>c, <1>g, <3>1 DEF Chain
  <2> QED
    BY <2>2, <2>3
<1>9. ASSUME NEW e \in End, Close(e) PROVE Chains'
  BY <1>g, <1>9 DEF Close, sending, receiving
<1>10. ASSUME NEW e \in End, Connect(e) \/ ConnectThrows(e) \/ Accept(e)
                              \/ HandshakeReturns(e) \/ HandshakeThrows(e)
       PROVE  Chains'
  <2>1. UNCHANGED <<handed, reader, wire, sent>>
    BY <1>10, MeetingUnmoved DEF Unmoved
  <2>2. CASE pc' = [pc EXCEPT ![e] = "gone"]
    BY <1>g, <2>1, <2>2
  <2>3. CASE pc' # [pc EXCEPT ![e] = "gone"]
    <3>1. /\ pc[e] # "gone"
          /\ \E place \in Places \ {"gone"} : pc' = [pc EXCEPT ![e] = place]
      BY <1>10, <2>3 DEF Connect, ConnectThrows, Accept, HandshakeReturns,
                         HandshakeThrows, Goes, Places
    <3>2. \A d \in End : pc[d] = "gone" <=> pc'[d] = "gone"
      BY <3>1 DEF Typed, TypeOK
    <3> QED
      BY <1>0, <2>1, <3>2
  <2> QED
    BY <2>2, <2>3
<1>11. CASE UNCHANGED vars
  BY <1>0, <1>11 DEF vars
<1> QED
  BY <1>1, <1>2, <1>3, <1>4, <1>5, <1>6, <1>7, <1>8, <1>9, <1>10, <1>11 DEF Next, Step

\* What receive() hands over is what the peer has sent, from its first byte on
\* and in order, for any lengths of messages, records and reads.
THEOREM InOrderCorrect == Spec => []InOrder
<1>1. Typed /\ Chains => InOrder
  <2> SUFFICES ASSUME Typed, Chains, NEW e \in End
               PROVE  /\ \A k \in 1..Len(handed[e]) : handed[e][k] = k
                      /\ Len(handed[e]) <= sent[Peer(e)]
    BY DEF InOrder
  <2>1. Chain(e)
    BY DEF Chains
  <2>2. Len(handed[e]) \in Nat /\ Len(reader[e]) \in Nat /\ sent[Peer(e)] \in Nat
    <3>1. handed[e] \in Seq(Nat) /\ reader[e] \in Seq(Nat) /\ sent[Peer(e)] \in Nat
      BY Peers DEF Typed, TypeOK
    <3> QED
      BY <3>1
  <2>3. \A k \in 1..Len(handed[e]) : handed[e][k] = k
    BY <2>1 DEF Chain, Chained
  <2>4. Len(handed[e]) + Len(reader[e]) <= sent[Peer(e)]
    BY <2>1 DEF Chain, Chained
  <2>5. \A h, r, s \in Nat : h + r <= s => h <= s
    OBVIOUS
  <2> QED
    BY <2>2, <2>3, <2>4, <2>5
<1> QED
  BY <1>1, TypedInit, TypedStep, ChainsInit, ChainsStep, PTL DEF Spec
------------------------------------------------------------------------------
(* Where receive() returns.                                                *)

\* Reads of MaxLength bytes use up the record to its last byte.
WholeReads(record) == \E k \in Nat : Size(record) = k * MaxLength

\* What is left of a message ends where it was going to end; a record ends with
\* its message or can be read in full reads only; and so a read that comes short
\* is the last one of its message.
Aimed == \A e \in End : left[e] > 0 => sent[e] + left[e] \in marks[e]
CutWhole ==
    \A e \in End : \A j \in 1..Len(wire[e]) :
        wire[e][j].last \in marks[Peer(e)] \/ WholeReads(wire[e][j])
Marked == Aimed /\ CutWhole /\ ReturnsAtMessage

LEMMA RecordIsWhole == \E k \in Nat : MaxRecord = k * MaxLength
<1>1. MaxRecord \in Nat /\ MaxLength \in Nat \ {0} /\ MaxRecord % MaxLength = 0
  BY LengthAssumption
<1>2. \A a \in Nat, b \in Nat \ {0} :
        a \div b \in Nat /\ a = (a \div b) * b + (a % b)
  BY Z3
<1> DEFINE k == MaxRecord \div MaxLength
<1>3. k \in Nat /\ MaxRecord = k * MaxLength + 0
  BY <1>1, <1>2
<1> HIDE DEF k
<1>4. k * MaxLength \in Int
  BY <1>1, <1>3
<1> QED
  BY <1>3, <1>4

\* A full read leaves a record that can be read in full reads, or nothing.
LEMMA WholeRest ==
  ASSUME NEW size \in Nat \ {0}, NEW k \in Nat, size = k * MaxLength
  PROVE  /\ size >= MaxLength
         /\ \E m \in Nat : size - MaxLength = m * MaxLength
<1>1. MaxLength \in Nat \ {0}
  BY LengthAssumption
<1>2. k # 0
  BY <1>1
<1>3. PICK m \in Nat : k = m + 1
  BY <1>2
<1>4. size = m * MaxLength + MaxLength
  BY <1>1, <1>3
<1>5. m * MaxLength \in Nat
  BY <1>1, <1>3
<1> QED
  BY <1>1, <1>4, <1>5

LEMMA TailElements ==
  ASSUME NEW S, NEW w \in Seq(S), Len(w) \in Nat \ {0}
  PROVE  Len(Tail(w)) = Len(w) - 1 /\ \A i \in 1..Len(w) - 1 : Tail(w)[i] = w[i + 1]
OBVIOUS

LEMMA WithoutWhole ==
  ASSUME Typed, CutWhole, NEW e \in End, wire[e] # <<>>,
         NEW n, n = Smaller(MaxLength, Size(Head(wire[e]))),
         NEW rest, rest = Without(wire[e], n), NEW j \in 1..Len(rest)
  PROVE  rest[j].last \in marks[Peer(e)] \/ WholeReads(rest[j])
<1> DEFINE w == wire[e]
           size == Size(Head(w))
<1>1. w \in Seq(Record) /\ Head(w) = w[1] /\ w[1] \in Record /\ Len(w) \in Nat \ {0}
      /\ size \in Nat \ {0}
  BY HeadSize
<1>2. \A i \in 1..Len(w) : w[i].last \in marks[Peer(e)] \/ WholeReads(w[i])
  BY DEF CutWhole
<1>3. CASE n = size
  <2>1. rest = Tail(w)
    BY <1>3 DEF Without
  <2>2. Len(rest) = Len(w) - 1 /\ rest[j] = w[j + 1] /\ j + 1 \in 1..Len(w)
    <3>0. w \in Seq(Record) /\ Len(w) \in Nat \ {0}
      BY <1>1
    <3> HIDE DEF w
    <3>1. Len(rest) = Len(w) - 1 /\ \A i \in 1..Len(w) - 1 : rest[i] = w[i + 1]
      BY <3>0, <2>1, TailElements
    <3>2. j \in 1..Len(w) - 1
      BY <3>1
    <3> QED
      BY <1>1, <3>1, <3>2
  <2> QED
    BY <1>2, <2>2
<1>4. CASE n # size
  <2>1. n = MaxLength /\ MaxLength \in Nat \ {0}
    BY <1>4, LengthAssumption DEF Smaller
  <2>2. rest = [w EXCEPT ![1].first = @ + n]
    BY <1>4 DEF Without
  <2>3. Len(rest) = Len(w) /\ \A i \in 2..Len(w) : rest[i] = w[i]
    BY <1>1, <2>2
  <2>4. rest[1].first = w[1].first + MaxLength /\ rest[1].last = w[1].last
    BY <1>1, <2>1, <2>2 DEF Record
  <2>5. ASSUME WholeReads(w[1]) PROVE WholeReads(rest[1])
    <3>1. PICK k \in Nat : size = k * MaxLength
      BY <1>1, <2>5 DEF WholeReads
    <3>2. PICK m \in Nat : size - MaxLength = m * MaxLength
      BY <1>1, <3>1, WholeRest
    <3>3. w[1].first \in Nat /\ w[1].last \in Nat /\ size = w[1].last - w[1].first + 1
      BY <1>1 DEF Size, Record
    <3>4. Size(rest[1]) = w[1].last - (w[1].first + MaxLength) + 1
      BY <2>4 DEF Size
    <3>5. \A f, l, b \in Nat : l - (f + b) + 1 = (l - f + 1) - b
      OBVIOUS
    <3>6. Size(rest[1]) = size - MaxLength
      <4> HIDE DEF w, size
      <4> QED
        BY <2>1, <3>3, <3>4, <3>5
    <3> QED
      BY <3>2, <3>6 DEF WholeReads
  <2>6. CASE j = 1
    BY <1>1, <1>2, <2>4, <2>5, <2>6
  <2>7. CASE j # 1
    <3>1. j \in 2..Len(w)
      BY <1>1, <2>3, <2>7
    <3> QED
      BY <1>2, <2>3, <3>1
  <2> QED
    BY <2>6, <2>7
<1> QED
  BY <1>3, <1>4

\* A read that comes short has reached the end of a message.
LEMMA ShortReadAtMark ==
  ASSUME Typed, CutWhole, NEW e \in End, Chain(e), wire[e] # <<>>,
         NEW n, n = Smaller(MaxLength, Size(Head(wire[e]))), n # MaxLength
  PROVE  Len(handed[e]) + Len(reader[e]) + n \in marks[Peer(e)]
<1> DEFINE record == wire[e][1]
<1>1. /\ Head(wire[e]) = record /\ record \in Record /\ Size(record) \in Nat \ {0}
      /\ 1 \in 1..Len(wire[e])
  BY HeadSize
<1>2. n = Size(record) /\ ~(Size(record) >= MaxLength)
  BY <1>1, LengthAssumption DEF Smaller
<1>3. ~WholeReads(record)
  BY <1>1, <1>2, WholeRest DEF WholeReads
<1>4. record.last \in marks[Peer(e)]
  BY <1>1, <1>3 DEF CutWhole
<1>5. record.first = Len(handed[e]) + Len(reader[e]) + 1
  BY DEF Chain, Chained
<1>6. Len(handed[e]) \in Nat /\ Len(reader[e]) \in Nat
  <2>1. handed[e] \in Seq(Nat) /\ reader[e] \in Seq(Nat)
    BY DEF Typed, TypeOK
  <2> QED
    BY <2>1
<1>7. Len(handed[e]) + Len(reader[e]) + n = record.last
  <2>1. record.first \in Nat /\ record.last \in Nat
    BY <1>1 DEF Record
  <2>2. n = record.last - record.first + 1
    BY <1>2 DEF Size
  <2>3. \A h, r, first, last \in Nat :
          first = h + r + 1 => h + r + (last - first + 1) = last
    OBVIOUS
  <2> DEFINE h == Len(handed[e])
             r == Len(reader[e])
             first == record.first
             last == record.last
  <2>4. h \in Nat /\ r \in Nat /\ first \in Nat /\ last \in Nat /\ first = h + r + 1
    BY <1>5, <1>6, <2>1
  <2>5. n = last - first + 1
    BY <2>2
  <2> HIDE DEF h, r, first, last
  <2>6. h + r + n = last
    BY <2>3, <2>4, <2>5
  <2> QED
    BY <2>6 DEF h, r, last
<1> QED
  BY <1>4, <1>7

LEMMA ConcatLength ==
  ASSUME NEW s \in Seq(Nat), NEW t \in Seq(Nat)
  PROVE  s \o t \in Seq(Nat) /\ Len(s \o t) = Len(s) + Len(t) /\ Len(s) \in Nat
OBVIOUS

LEMMA MarkedStep == Typed /\ Chains /\ Marked /\ [Next]_vars => Marked'
<1> SUFFICES ASSUME Typed, Chains, Marked, [Next]_vars PROVE Marked'
  OBVIOUS
<1>0. ASSUME UNCHANGED <<left, sent, marks, wire, returned>> PROVE Marked'
  BY <1>0 DEF Marked, Aimed, CutWhole, ReturnsAtMessage
<1>1. ASSUME NEW e \in End, Send(e) PROVE Marked'
  <2>1. PICK n \in 1..MaxBytes - sent[e] :
          /\ left' = [left EXCEPT ![e] = n]
          /\ marks' = [marks EXCEPT ![e] = @ \cup {sent[e] + n}]
    BY <1>1 DEF Send
  <2>2. UNCHANGED <<sent, wire, returned>>
    BY <1>1 DEF Send, receiving
  <2>3. \A d \in End : /\ marks[d] \subseteq marks'[d]
                       /\ d # e => left'[d] = left[d]
    BY <2>1 DEF Typed, TypeOK
  <2>4. left'[e] = n /\ sent[e] + n \in marks'[e]
    BY <2>1 DEF Typed, TypeOK
  <2>5. Aimed'
    BY <2>2, <2>3, <2>4 DEF Marked, Aimed
  <2>6. CutWhole' /\ ReturnsAtMessage'
    BY <2>2, <2>3, Peers DEF Marked, CutWhole, ReturnsAtMessage
  <2> QED
    BY <2>5, <2>6 DEF Marked
<1>2. ASSUME NEW e \in End, WriteRecord(e) PROVE Marked'
  <2> DEFINE n == Smaller(MaxRecord, left[e])
             record == [first |-> sent[e] + 1, last |-> sent[e] + n]
             p == Peer(e)
  <2>1. /\ n \in 1..left[e] /\ n \in Nat \ {0} /\ left[e] \in Nat /\ sent[e] \in Nat
        /\ record \in Record
    BY <1>2, WriteBounds DEF WriteRecord
  <2>2. /\ wire' = [wire EXCEPT ![p] = Append(@, record)]
        /\ sent' = [sent EXCEPT ![e] = @ + n] /\ left' = [left EXCEPT ![e] = @ - n]
        /\ left[e] > 0 /\ UNCHANGED <<marks, returned>>
    BY <1>2 DEF WriteRecord, receiving
  <2>3. p \in End /\ Peer(p) = e /\ wire[p] \in Seq(Record) /\ sent[e] + left[e] \in marks[e]
    BY <2>2, Peers DEF Typed, TypeOK, Marked, Aimed
  <2>4. record.last \in marks[e] \/ WholeReads(record)
    <3>1. CASE n = left[e]
      BY <2>3, <3>1
    <3>2. CASE n # left[e]
      <4>1. n = MaxRecord
        BY <3>2 DEF Smaller
      <4>2. Size(record) = n
        BY <2>1 DEF Size
      <4> HIDE DEF n, record
      <4> QED
        BY <4>1, <4>2, RecordIsWhole DEF WholeReads
    <3> QED
      BY <3>1, <3>2
  <2> HIDE DEF n, record, p
  <2>5. Aimed'
    <3>1. sent'[e] + left'[e] = sent[e] + left[e]
      BY <2>1, <2>2 DEF Typed, TypeOK
    <3>2. \A d \in End : d # e => sent'[d] = sent[d] /\ left'[d] = left[d]
      BY <2>2 DEF Typed, TypeOK
    <3> QED
      BY <2>2, <2>3, <3>1, <3>2 DEF Marked, Aimed
  <2>6. CutWhole'
    <3>1. \A d \in End : d # p => wire'[d] = wire[d]
      BY <2>2 DEF Typed, TypeOK
    <3>2. wire'[p] = Append(wire[p], record)
      BY <2>2, <2>3 DEF Typed, TypeOK
    <3>3. \A j \in 1..Len(wire'[p]) :
            wire'[p][j] = IF j <= Len(wire[p]) THEN wire[p][j] ELSE record
      BY <2>1, <2>3, <3>2
    <3>4. Len(wire'[p]) = Len(wire[p]) + 1 /\ Len(wire[p]) \in Nat
      BY <2>1, <2>3, <3>2
    <3>5. ASSUME NEW j \in 1..Len(wire'[p])
          PROVE  wire'[p][j].last \in marks[Peer(p)] \/ WholeReads(wire'[p][j])
      BY <2>3, <2>4, <3>3, <3>4 DEF Marked, CutWhole
    <3> QED
      BY <2>2, <3>1, <3>5 DEF Marked, CutWhole, WholeReads
  <2>7. ReturnsAtMessage'
    BY <2>2 DEF Marked, ReturnsAtMessage
  <2> QED
    BY <2>5, <2>6, <2>7 DEF Marked
<1>3. ASSUME NEW e \in End, SendThrows(e) PROVE Marked'
  <2>1. /\ left' = [left EXCEPT ![e] = 0]
        /\ UNCHANGED <<sent, marks, wire, returned>>
    BY <1>3 DEF SendThrows, receiving
  <2>2. Aimed'
    BY <2>1 DEF Typed, TypeOK, Marked, Aimed
  <2> QED
    BY <2>1, <2>2 DEF Marked, CutWhole, ReturnsAtMessage
<1>4. ASSUME NEW e \in End, ReadSome(e) PROVE Marked'
  <2> DEFINE n == Smaller(MaxLength, Size(Head(wire[e])))
             bytes == Bytes(Head(wire[e]), n)
             rest == Without(wire[e], n)
  <2>1. wire[e] # <<>> /\ n \in 1..Size(Head(wire[e])) /\ n \in Nat
    BY <1>4, ReadBounds DEF ReadSome
  <2>2. bytes \in Seq(Nat) /\ Len(bytes) = n
    BY <2>1, HeadSize, BytesType
  <2>3. /\ wire' = [wire EXCEPT ![e] = rest] /\ UNCHANGED <<left, sent, marks>>
        /\ n = MaxLength => returned' = returned
        /\ n # MaxLength =>
             /\ handed' = [handed EXCEPT ![e] = @ \o (reader[e] \o bytes)]
             /\ returned' = [returned EXCEPT ![e] = @ \cup {Len(handed'[e])}]
    BY <1>4 DEF ReadSome, sending
  <2>4. \A j \in 1..Len(rest) : rest[j].last \in marks[Peer(e)] \/ WholeReads(rest[j])
    BY <2>1, WithoutWhole DEF Marked
  <2>5. n # MaxLength => Len(handed[e]) + Len(reader[e]) + n \in marks[Peer(e)]
    BY <2>1, ShortReadAtMark DEF Chains, Marked
  <2> HIDE DEF n, bytes, rest
  <2>6. CutWhole'
    <3>1. \A d \in End : wire'[d] = IF d = e THEN rest ELSE wire[d]
      BY <2>3 DEF Typed, TypeOK
    <3> QED
      BY <2>3, <2>4, <3>1 DEF Marked, CutWhole, WholeReads
  <2>7. ReturnsAtMessage'
    <3>1. CASE n = MaxLength
      BY <2>3, <3>1 DEF Marked, ReturnsAtMessage
    <3>2. CASE n # MaxLength
      <4>1. handed'[e] = handed[e] \o (reader[e] \o bytes)
        BY <2>3, <3>2 DEF Typed, TypeOK
      <4>2. Len(handed'[e]) = Len(handed[e]) + Len(reader[e]) + n
        <5>1. handed[e] \in Seq(Nat) /\ reader[e] \in Seq(Nat)
          BY DEF Typed, TypeOK
        <5>2. /\ reader[e] \o bytes \in Seq(Nat)
              /\ Len(reader[e] \o bytes) = Len(reader[e]) + n
          BY <2>2, <5>1, ConcatLength
        <5>3. Len(handed[e] \o (reader[e] \o bytes)) =
                Len(handed[e]) + Len(reader[e] \o bytes)
          BY <5>1, <5>2, ConcatLength
        <5>4. Len(handed[e]) \in Nat /\ Len(reader[e]) \in Nat
          BY <5>1, ConcatLength
        <5>5. \A h, r, m \in Nat : h + (r + m) = h + r + m
          OBVIOUS
        <5>6. Len(handed'[e]) = Len(handed[e]) + (Len(reader[e]) + n)
          BY <4>1, <5>2, <5>3
        <5> QED
          BY <2>1, <5>4, <5>5, <5>6
      <4>3. returned'[e] = returned[e] \cup {Len(handed'[e])}
            /\ \A d \in End : d # e => returned'[d] = returned[d]
        BY <2>3, <3>2 DEF Typed, TypeOK
      <4> QED
        BY <2>3, <2>5, <3>2, <4>2, <4>3 DEF Marked, ReturnsAtMessage
    <3> QED
      BY <3>1, <3>2
  <2> QED
    BY <2>3, <2>6, <2>7 DEF Marked, Aimed
<1>5. ASSUME NEW e \in End, ReadThrows(e) PROVE Marked'
  <2>1. /\ wire' = [wire EXCEPT ![e] = <<>>]
        /\ UNCHANGED <<left, sent, marks, returned>>
    BY <1>5 DEF ReadThrows, sending
  <2>2. \A d \in End : wire'[d] = IF d = e THEN <<>> ELSE wire[d]
    BY <2>1 DEF Typed, TypeOK
  <2>3. CutWhole'
    BY <2>1, <2>2 DEF Marked, CutWhole, WholeReads
  <2> QED
    BY <2>1, <2>3 DEF Marked, Aimed, ReturnsAtMessage
<1>6. ASSUME NEW e \in End, SendReturns(e) \/ Receive(e) \/ ReadEnd(e) \/ Close(e)
      PROVE  Marked'
  BY <1>0, <1>6 DEF SendReturns, Receive, ReadEnd, Close, sending, receiving
<1>7. ASSUME NEW e \in End, Connect(e) \/ ConnectThrows(e) \/ Accept(e)
                              \/ HandshakeReturns(e) \/ HandshakeThrows(e)
      PROVE  Marked'
  BY <1>0, <1>7, MeetingUnmoved DEF Unmoved
<1>8. CASE UNCHANGED vars
  BY <1>0, <1>8 DEF vars, sending, receiving
<1> QED
  BY <1>1, <1>2, <1>3, <1>4, <1>5, <1>6, <1>7, <1>8 DEF Next, Step

\* A receive() that takes a short read for the end of a message has read that
\* message to its end: for any lengths, as long as a record holds a whole number
\* of reads.
THEOREM ReturnsAtMessageCorrect == Spec => []ReturnsAtMessage
<1>1. Init => Marked
  BY DEF Init, Marked, Aimed, CutWhole, ReturnsAtMessage
<1>2. Marked => ReturnsAtMessage
  BY DEF Marked
<1> QED
  BY <1>1, <1>2, TypedInit, TypedStep, ChainsInit, ChainsStep, MarkedStep, PTL DEF Spec
------------------------------------------------------------------------------
(* When receive() waits although it has the message.                       *)

Multiple(n) == \E k \in Nat : n = k * MaxLength

\* A receive() that goes on has had full reads only, and leaves no bytes behind
\* when it ends.
FullReads ==
    \A e \in End : /\ pc[e] = "receiving" => Multiple(Len(reader[e]))
                   /\ pc[e] \notin {"receiving", "gone"} => reader[e] = <<>>

\* A receive() waits behind the end of a message only if what it has read of that
\* fills the buffer a whole number of times.
WaitsAfterFullReads ==
    \A e \in End : HasMessage(e) => Len(reader[e]) > 0 /\ Multiple(Len(reader[e]))

LEMMA MultipleNext == ASSUME NEW m \in Nat, Multiple(m) PROVE Multiple(m + MaxLength)
<1>1. PICK k \in Nat : m = k * MaxLength
  BY DEF Multiple
<1>2. m + MaxLength = (k + 1) * MaxLength
  BY <1>1, LengthAssumption
<1>. QED
  BY <1>2 DEF Multiple

LEMMA FullReadsStep == Typed /\ FullReads /\ [Next]_vars => FullReads'
<1>. SUFFICES ASSUME Typed, FullReads, [Next]_vars PROVE FullReads'
  OBVIOUS
<1>0. /\ pc \in [End -> Places] /\ reader \in [End -> Seq(Nat)]
      /\ Multiple(0)
  BY LengthAssumption DEF Typed, TypeOK, Multiple
\* A step of e that moves no byte of a reader and keeps what is said of e.
<1>1. ASSUME NEW e \in End, NEW place, pc' = [pc EXCEPT ![e] = place], UNCHANGED reader,
             place = "receiving" => reader[e] = <<>>,
             place \notin {"receiving", "gone"} => reader[e] = <<>>
      PROVE  FullReads'
  BY <1>0, <1>1 DEF FullReads, Multiple
\* One that leaves the reader of e empty.
<1>2. ASSUME NEW e \in End, pc' = [pc EXCEPT ![e] = "idle"],
             reader' = [reader EXCEPT ![e] = <<>>]
      PROVE  FullReads'
  BY <1>0, <1>2 DEF FullReads, Multiple
<1>3. ASSUME NEW e \in End, ReadSome(e) PROVE FullReads'
  <2> DEFINE n == Smaller(MaxLength, Size(Head(wire[e])))
             bytes == Bytes(Head(wire[e]), n)
  <2>1. /\ pc[e] = "receiving" /\ wire[e] # <<>>
        /\ reader' = [reader EXCEPT ![e] = IF n = MaxLength THEN reader[e] \o bytes ELSE <<>>]
        /\ IF n = MaxLength THEN pc' = pc ELSE pc' = [pc EXCEPT ![e] = "idle"]
    BY <1>3 DEF ReadSome
  <2>2. n \in Nat
    BY <2>1, ReadBounds
  <2>3. Head(wire[e]) \in Record
    BY <2>1, HeadSize
  <2>4. bytes \in Seq(Nat) /\ Len(bytes) = n
    BY <2>2, <2>3, BytesType
  <2> HIDE DEF n, bytes
  <2>5. CASE n = MaxLength
    <3>1. reader[e] \in Seq(Nat) /\ Multiple(Len(reader[e]))
      BY <1>0, <2>1 DEF FullReads
    <3>2. Len(reader[e] \o bytes) = Len(reader[e]) + MaxLength /\ Len(reader[e]) \in Nat
      BY <2>4, <2>5, <3>1, ConcatLength
    <3>3. Multiple(Len(reader[e] \o bytes))
      BY <3>1, <3>2, MultipleNext
    <3>4. pc' = pc /\ \A d \in End : reader'[d] = IF d = e THEN reader[e] \o bytes ELSE reader[d]
      BY <1>0, <2>1, <2>5
    <3>5. \A d \in End : d # e => reader'[d] = reader[d]
      BY <3>4
    <3>6. reader'[e] = reader[e] \o bytes
      BY <3>4
    <3>. QED
      BY <2>1, <3>3, <3>4, <3>5, <3>6 DEF FullReads, Multiple
  <2>6. CASE n # MaxLength
    BY <1>2, <2>1, <2>6
  <2>. QED
    BY <2>5, <2>6
<1>4. ASSUME NEW e \in End, ReadEnd(e) \/ ReadThrows(e) PROVE FullReads'
  BY <1>2, <1>4 DEF ReadEnd, ReadThrows, Goes
<1>5. ASSUME NEW e \in End, Send(e) \/ SendReturns(e) \/ SendThrows(e) \/ Receive(e)
      PROVE  FullReads'
  <2>1. reader[e] = <<>> /\ UNCHANGED reader
    BY <1>5 DEF Send, SendReturns, SendThrows, Receive, Goes, FullReads, receiving
  <2>. QED
    BY <1>1, <1>5, <2>1 DEF Send, SendReturns, SendThrows, Receive, Goes
<1>6. ASSUME NEW e \in End, Connect(e) \/ ConnectThrows(e) \/ Accept(e)
                              \/ HandshakeReturns(e) \/ HandshakeThrows(e)
      PROVE  FullReads'
  <2>1. reader[e] = <<>> /\ UNCHANGED reader
    BY <1>6, MeetingUnmoved
       DEF Connect, ConnectThrows, Accept, HandshakeReturns, HandshakeThrows, Goes, FullReads,
           Unmoved
  <2>. QED
    BY <1>1, <1>6, <2>1
       DEF Connect, ConnectThrows, Accept, HandshakeReturns, HandshakeThrows, Goes
<1>7. ASSUME NEW e \in End, Close(e) PROVE FullReads'
  BY <1>1, <1>7 DEF Close, receiving
<1>8. ASSUME UNCHANGED <<pc, reader>> PROVE FullReads'
  BY <1>8 DEF FullReads, Multiple
<1>9. ASSUME NEW e \in End, WriteRecord(e) PROVE FullReads'
  BY <1>8, <1>9 DEF WriteRecord, receiving
<1>10. CASE UNCHANGED vars
  BY <1>8, <1>10 DEF vars, receiving
<1>. QED
  BY <1>3, <1>4, <1>5, <1>6, <1>7, <1>9, <1>10 DEF Next, Step

\* The wait that ReceiveReturns is about comes of full reads alone: a receive()
\* whose last read was short never waits at the end of a message.
THEOREM WaitsAfterFullReadsCorrect == Spec => []WaitsAfterFullReads
<1>1. Init => FullReads
  BY DEF Init, FullReads
<1>2. Typed /\ FullReads => WaitsAfterFullReads
  <2>. SUFFICES ASSUME Typed, FullReads, NEW e \in End, HasMessage(e)
                PROVE  Len(reader[e]) > 0 /\ Multiple(Len(reader[e]))
    BY DEF WaitsAfterFullReads
  <2>1. Len(handed[e]) + Len(reader[e]) # Len(handed[e])
    BY DEF HasMessage
  <2>2. Len(handed[e]) \in Nat /\ Len(reader[e]) \in Nat
    BY DEF Typed, TypeOK
  <2>3. pc[e] = "receiving"
    BY DEF HasMessage
  <2>4. \A h, r \in Nat : h + r # h => r > 0
    OBVIOUS
  <2>5. Len(reader[e]) > 0
    BY <2>1, <2>2, <2>4
  <2>6. Multiple(Len(reader[e]))
    BY <2>3 DEF FullReads
  <2>. QED
    BY <2>5, <2>6
<1>. QED
  BY <1>1, <1>2, TypedInit, TypedStep, FullReadsStep, PTL DEF Spec
------------------------------------------------------------------------------
(* The pipe.  Every step of the two programs is one of MessagePipe or      *)
(* changes nothing that it speaks of.                                      *)

Gone == {e \in End : pc[e] = "gone"}

\* A program that moves within its life leaves the same ends gone ...
LEMMA GoneStays ==
  ASSUME TypeOK, NEW e \in End, NEW place, place # "gone", pc[e] # "gone",
         pc' = [pc EXCEPT ![e] = place]
  PROVE  Gone' = Gone
<1>. \A d \in End : pc'[d] = "gone" <=> pc[d] = "gone"
  BY DEF TypeOK
<1>. QED
  BY DEF Gone

\* ... and one that ends joins them.
LEMMA GoneGrows ==
  ASSUME TypeOK, NEW e \in End, pc[e] # "gone", pc' = [pc EXCEPT ![e] = "gone"],
         UNCHANGED <<sent, marks, handed>>
  PROVE  Pipe!Leave(e)
<1>1. Gone' = Gone \cup {e} /\ e \notin Gone
  <2>. \A d \in End : pc'[d] = "gone" <=> pc[d] = "gone" \/ d = e
    BY DEF TypeOK
  <2>. QED
    BY DEF Gone
<1>. QED
  BY <1>1 DEF Pipe!Leave, Gone

LEMMA PipeStutters ==
  ASSUME UNCHANGED <<sent, marks, handed>>, Gone' = Gone
  PROVE  UNCHANGED Pipe!vars
  BY DEF Pipe!vars, Gone

\* What an end has been handed is the first so many bytes of its peer.
LEMMA HandedUpto ==
  ASSUME NEW h \in Seq(Nat), \A k \in 1..Len(h) : h[k] = k
  PROVE  h = Pipe!Upto(Len(h))
<1>1. h = [k \in 1..Len(h) |-> h[k]]
  OBVIOUS
<1>. QED
  BY <1>1 DEF Pipe!Upto

\* The bytes of a receive() that returns are the next ones, and have been sent.
LEMMA NextHanded ==
  ASSUME Typed, Typed', Chains', NEW e \in End, UNCHANGED sent,
         NEW data \in Seq(Nat), handed' = [handed EXCEPT ![e] = @ \o data],
         NEW n, n = Len(handed[e]) + Len(data)
  PROVE  /\ n \in Nat /\ n <= sent[Peer(e)]
         /\ handed' = [handed EXCEPT ![e] = Pipe!Upto(n)]
<1>1. /\ handed[e] \in Seq(Nat) /\ handed'[e] \in Seq(Nat) /\ reader'[e] \in Seq(Nat)
      /\ handed'[e] = handed[e] \o data
      /\ sent[Peer(e)] \in Nat
  BY Peers DEF Typed, TypeOK
<1>2. /\ \A k \in 1..Len(handed'[e]) : handed'[e][k] = k
      /\ Len(handed'[e]) + Len(reader'[e]) <= sent[Peer(e)]
  BY DEF Chains, Chain, Chained
<1>3. Len(handed'[e]) = Len(handed[e]) + Len(data) /\ Len(handed'[e]) \in Nat
  BY <1>1, ConcatLength
<1>4. Len(reader'[e]) \in Nat
  BY <1>1
<1>5. handed'[e] = Pipe!Upto(Len(handed'[e]))
  BY <1>1, <1>2, HandedUpto
<1>6. handed' = [handed EXCEPT ![e] = handed'[e]]
  BY <1>1
<1>7. n = Len(handed'[e])
  BY <1>3
<1>8. \A h, r, b \in Nat : h + r <= b => h <= b
  OBVIOUS
<1>9. Len(handed'[e]) <= sent[Peer(e)]
  BY <1>1, <1>2, <1>3, <1>4, <1>8
<1>. QED
  BY <1>3, <1>5, <1>6, <1>7, <1>9

LEMMA PipeInit == Init => Pipe!Init
  BY DEF Init, Pipe!Init

LEMMA PipeStep ==
  ASSUME Typed, Chains, Marked, Typed', Chains', [Next]_vars
  PROVE  [Pipe!Next]_Pipe!vars
<1>0. TypeOK
  BY DEF Typed
<1>1. ASSUME NEW e \in End, Send(e) PROVE Pipe!Next
  <2>1. PICK n \in 1..MaxBytes - sent[e] : marks' = [marks EXCEPT ![e] = @ \cup {sent[e] + n}]
    BY <1>1 DEF Send
  <2>2. sent[e] + n \in sent[e] + 1..MaxBytes
    BY <1>0, <2>1, LengthAssumption DEF TypeOK
  <2>3. UNCHANGED <<sent, handed>> /\ pc[e] = "idle" /\ pc' = [pc EXCEPT ![e] = "sending"]
    BY <1>1 DEF Send, Goes, receiving
  <2>4. Gone' = Gone /\ e \notin Gone
    BY <1>0, <2>3, GoneStays DEF Gone
  <2>5. Pipe!Begin(e)
    BY <2>1, <2>2, <2>3, <2>4 DEF Pipe!Begin, Gone
  <2>. QED
    BY <2>5 DEF Pipe!Next
<1>2. ASSUME NEW e \in End, WriteRecord(e) PROVE Pipe!Next
  <2>. DEFINE n == Smaller(MaxRecord, left[e])
  <2>1. n \in 1..left[e] /\ n \in Nat \ {0} /\ left[e] \in Nat /\ sent[e] \in Nat
    BY <1>2, WriteBounds DEF WriteRecord
  <2>2. /\ sent' = [sent EXCEPT ![e] = @ + n] /\ UNCHANGED <<pc, marks, handed>>
        /\ left[e] > 0 /\ pc[e] = "sending"
    BY <1>2 DEF WriteRecord, receiving
  <2>3. sent[e] + left[e] \in marks[e]
    BY <2>2 DEF Marked, Aimed
  <2>. HIDE DEF n
  <2>4. sent[e] + n \in sent[e] + 1..sent[e] + left[e]
    BY <2>1
  <2>5. Gone' = Gone /\ e \notin Gone
    BY <2>2 DEF Gone
  <2>6. sent' = [sent EXCEPT ![e] = sent[e] + n]
    BY <2>2
  <2>7. Pipe!Send(e)
    BY <2>2, <2>3, <2>4, <2>5, <2>6 DEF Pipe!Send, Gone
  <2>. QED
    BY <2>7 DEF Pipe!Next
<1>3. ASSUME NEW e \in End, ReadSome(e) PROVE Pipe!Next \/ UNCHANGED Pipe!vars
  <2>. DEFINE n == Smaller(MaxLength, Size(Head(wire[e])))
              bytes == Bytes(Head(wire[e]), n)
              data == reader[e] \o bytes
  <2>1. wire[e] # <<>> /\ n \in 1..Size(Head(wire[e])) /\ n \in Nat
    BY <1>3, ReadBounds DEF ReadSome
  <2>2. bytes \in Seq(Nat) /\ Len(bytes) = n
    BY <2>1, HeadSize, BytesType
  <2>3. reader[e] \in Seq(Nat) /\ handed[e] \in Seq(Nat)
    BY <1>0 DEF TypeOK
  <2>4. data \in Seq(Nat) /\ Len(data) = Len(reader[e]) + n /\ Len(reader[e]) \in Nat
    BY <2>2, <2>3, ConcatLength
  <2>5. n # MaxLength => Len(handed[e]) + Len(reader[e]) + n \in marks[Peer(e)]
    BY <2>1, ShortReadAtMark DEF Chains, Marked
  <2>6. /\ pc[e] = "receiving" /\ UNCHANGED <<sent, marks>>
        /\ IF n = MaxLength THEN UNCHANGED <<pc, handed>>
           ELSE /\ pc' = [pc EXCEPT ![e] = "idle"] /\ handed' = [handed EXCEPT ![e] = @ \o data]
    BY <1>3 DEF ReadSome, sending
  <2>7. n >= 1
    BY <2>1
  <2>. HIDE DEF n, bytes, data
  <2>8. CASE n = MaxLength
    BY <2>6, <2>8, PipeStutters DEF Gone
  <2>9. CASE n # MaxLength
    <3>. DEFINE m == Len(handed[e]) + Len(data)
    <3>1. m \in Nat /\ m <= sent[Peer(e)] /\ handed' = [handed EXCEPT ![e] = Pipe!Upto(m)]
      BY <2>4, <2>6, <2>9, NextHanded
    <3>2. m \in marks[Peer(e)] /\ Len(handed[e]) < m
      <4>1. Len(handed[e]) \in Nat
        BY <2>3
      <4>2. \A h, r, k \in Nat : h + (r + k) = h + r + k /\ (k >= 1 => h < h + (r + k))
        OBVIOUS
      <4>3. /\ Len(handed[e]) + (Len(reader[e]) + n) = Len(handed[e]) + Len(reader[e]) + n
            /\ Len(handed[e]) < Len(handed[e]) + (Len(reader[e]) + n)
        BY <2>1, <2>4, <2>7, <4>1, <4>2
      <4>4. m = Len(handed[e]) + (Len(reader[e]) + n)
        BY <2>4
      <4>. HIDE DEF m
      <4>. QED
        BY <2>5, <2>9, <4>3, <4>4
    <3>3. Gone' = Gone /\ e \notin Gone
      BY <1>0, <2>6, <2>9, GoneStays DEF Gone
    <3>. HIDE DEF m
    <3>4. Pipe!HandOut(e)
      BY <2>6, <3>1, <3>2, <3>3 DEF Pipe!HandOut, Gone, Pipe!Peer, Peer
    <3>. QED
      BY <3>4 DEF Pipe!Next
  <2>. QED
    BY <2>8, <2>9
<1>4. ASSUME NEW e \in End, ReadEnd(e) PROVE Pipe!Next \/ UNCHANGED Pipe!vars
  <2>1. /\ pc[Peer(e)] = "gone" /\ pc[e] = "receiving" /\ pc' = [pc EXCEPT ![e] = "idle"]
        /\ handed' = [handed EXCEPT ![e] = @ \o reader[e]]
        /\ UNCHANGED <<sent, marks>>
    BY <1>4 DEF ReadEnd, Goes, sending
  <2>2. Gone' = Gone /\ e \notin Gone /\ Peer(e) \in Gone
    BY <1>0, <2>1, Peers, GoneStays DEF Gone
  <2>3. reader[e] \in Seq(Nat) /\ handed[e] \in Seq(Nat)
    BY <1>0 DEF TypeOK
  <2>4. CASE reader[e] = <<>>
    <3>1. handed[e] \o reader[e] = handed[e]
      BY <2>3, <2>4
    <3>2. handed' = handed
      BY <1>0, <2>1, <3>1 DEF TypeOK
    <3>. QED
      BY <2>1, <2>2, <3>2, PipeStutters
  <2>5. CASE reader[e] # <<>>
    <3>. DEFINE m == Len(handed[e]) + Len(reader[e])
    <3>1. m \in Nat /\ m <= sent[Peer(e)] /\ handed' = [handed EXCEPT ![e] = Pipe!Upto(m)]
      BY <2>1, <2>3, NextHanded
    <3>2. m \in Len(handed[e]) + 1..sent[Peer(e)]
      <4>1. Len(handed[e]) \in Nat /\ Len(reader[e]) \in Nat \ {0} /\ sent[Peer(e)] \in Nat
        BY <1>0, <2>3, <2>5, Peers DEF TypeOK
      <4>2. \A h, b, k \in Nat, r \in Nat \ {0} : k = h + r /\ k <= b => k \in h + 1..b
        OBVIOUS
      <4>3. m = Len(handed[e]) + Len(reader[e])
        OBVIOUS
      <4>. HIDE DEF m
      <4>. QED
        BY <3>1, <4>1, <4>2, <4>3
    <3>. HIDE DEF m
    <3>3. Pipe!HandOutRest(e)
      BY <2>1, <2>2, <3>1, <3>2 DEF Pipe!HandOutRest, Gone, Pipe!Peer, Peer
    <3>. QED
      BY <3>3 DEF Pipe!Next
  <2>. QED
    BY <2>4, <2>5
<1>5. ASSUME NEW e \in End, Close(e) \/ ConnectThrows(e) PROVE Pipe!Next
  <2>1. /\ pc[e] # "gone" /\ pc' = [pc EXCEPT ![e] = "gone"]
        /\ UNCHANGED <<sent, marks, handed>>
    BY <1>5 DEF Close, ConnectThrows, Goes, traffic, sending, receiving
  <2>. QED
    BY <1>0, <2>1, GoneGrows DEF Pipe!Next
<1>6. ASSUME NEW e \in End, HandshakeThrows(e) PROVE Pipe!Next \/ UNCHANGED Pipe!vars
  <2>1. /\ pc[e] # "gone" /\ pc' = [pc EXCEPT ![e] = IF e = Server THEN "refused" ELSE "gone"]
        /\ UNCHANGED <<sent, marks, handed>>
    BY <1>6 DEF HandshakeThrows, Goes, traffic, sending, receiving
  <2>2. CASE e = Server
    <3>1. Gone' = Gone
      BY <1>0, <2>1, <2>2, GoneStays
    <3>. QED
      BY <2>1, <3>1, PipeStutters
  <2>3. CASE e # Server
    BY <1>0, <2>1, <2>3, GoneGrows DEF Pipe!Next
  <2>. QED
    BY <2>2, <2>3
<1>7. ASSUME NEW e \in End,
             \/ Connect(e) \/ Accept(e) \/ HandshakeReturns(e)
             \/ SendReturns(e) \/ SendThrows(e) \/ Receive(e) \/ ReadThrows(e)
      PROVE  UNCHANGED Pipe!vars
  <2>1. UNCHANGED <<sent, marks, handed>> /\ pc[e] # "gone"
    BY <1>7 DEF Connect, Accept, HandshakeReturns, SendReturns, SendThrows, Receive,
                ReadThrows, Goes, traffic, sending, receiving
  <2>2. \E place \in {"shaking", "idle", "receiving"} : pc' = [pc EXCEPT ![e] = place]
    BY <1>7 DEF Connect, Accept, HandshakeReturns, SendReturns, SendThrows, Receive,
                ReadThrows, Goes
  <2>3. Gone' = Gone
    BY <1>0, <2>1, <2>2, GoneStays
  <2>. QED
    BY <2>1, <2>3, PipeStutters
<1>8. CASE UNCHANGED vars
  BY <1>8, PipeStutters DEF vars, Gone
<1>. QED
  BY <1>1, <1>2, <1>3, <1>4, <1>5, <1>6, <1>7, <1>8 DEF Next, Step

\* The two programs are a MessagePipe, for any lengths of messages, records and
\* reads and wherever a handshake or a connection fails: the bytes come in order,
\* and by whole messages as long as the sender has not gone.
THEOREM ImplementsPipeCorrect == Spec => ImplementsPipe
<1>1. Init => Marked
  BY DEF Init, Marked, Aimed, CutWhole, ReturnsAtMessage
<1>2. Typed /\ Chains /\ Marked /\ Typed' /\ Chains' /\ [Next]_vars
        => [Pipe!Next]_Pipe!vars
  BY PipeStep
<1>3. Spec => []Typed /\ []Chains /\ []Marked
  BY <1>1, TypedInit, TypedStep, ChainsInit, ChainsStep, MarkedStep, PTL DEF Spec
<1>4. Spec => Pipe!Spec
  BY <1>2, <1>3, PipeInit, PTL DEF Spec, Pipe!Spec
<1>. QED
  BY <1>4 DEF ImplementsPipe
==============================================================================
