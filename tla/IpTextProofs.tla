---------------------------- MODULE IpTextProofs ----------------------------
(***************************************************************************)
(* The properties of IpText for any texts and bytes and, of what is        *)
(* written, for any address: how a text with numbers left out is filled    *)
(* up, that what is written is such a text, and which run it leaves out.   *)
(***************************************************************************)
EXTENDS IpText, SequenceTheorems, WellFoundedInduction, TLAPS

------------------------------------------------------------------------------
(* Sequences of segments.                                                  *)

\* A set of numbers that is not empty has a least one.
LEMMA LeastNumber ==
  ASSUME NEW T \in SUBSET Nat, T # {}
  PROVE  \E d \in T : \A y \in T : d <= y
<1>1. PICK d \in T : \A y \in T : ~(<<y, d>> \in OpToRel(<, Nat))
  BY WFMin, NatLessThanWellFounded
<1>. SUFFICES ASSUME NEW y \in T PROVE d <= y
  OBVIOUS
<1>2. d \in Nat /\ y \in Nat /\ <<y, d>> \in Nat \X Nat
  OBVIOUS
<1>3. y < d => <<y, d>> \in OpToRel(<, Nat)
  BY <1>2 DEF OpToRel
<1>4. ~(y < d)
  BY <1>1, <1>3, Zenon
<1>. QED
  BY <1>2, <1>4

\* Of bytes and of the numbers of sixteen bits only this is used.
LEMMA ByteIn ==
  ASSUME NEW n \in Int
  PROVE  n \in Byte <=> 0 <= n /\ n <= 255
BY SMT DEF Byte

LEMMA ByteInt == Byte \subseteq Int
BY SMT DEF Byte

LEMMA PairIn ==
  ASSUME NEW n \in Int
  PROVE  n \in Pair <=> 0 <= n /\ n <= 65535
BY SMT DEF Pair

LEMMA PairInt == Pair \subseteq Int
BY SMT DEF Pair

LEMMA ByteIs ==
  ASSUME NEW x \in Byte
  PROVE  x \in Int /\ 0 <= x /\ x < 256
<1>1. x \in Int
  BY ByteInt, SMT
<1>2. 0 <= x /\ x <= 255
  BY <1>1, ByteIn
<1>. QED
  BY <1>1, <1>2, SMT

LEMMA PairIs ==
  ASSUME NEW p \in Pair
  PROVE  p \in Int /\ 0 <= p /\ p < 65536
<1>1. p \in Int
  BY PairInt, SMT
<1>2. 0 <= p /\ p <= 65535
  BY <1>1, PairIn, SMT
<1>. QED
  BY <1>1, <1>2, SMT

LEMMA SomeBytes == 0 \in Byte /\ 247 \in Byte /\ 255 \in Byte
BY ByteIn, SMT

LEMMA Zero == 0 \in Pair /\ 0 \in Segment /\ 65535 \in Pair
BY PairIn, SMT DEF Segment

LEMMA EmptiesAre ==
  ASSUME NEW n \in Nat
  PROVE  /\ Empties(n) \in Seq(Segment) /\ Len(Empties(n)) = n
         /\ \A k \in 1..n : Empties(n)[k] = Empty
BY DEF Empties, Segment, Empty

LEMMA Part ==
  ASSUME NEW s \in Seq(Segment), NEW m \in 1..Len(s) + 1, NEW n \in m - 1..Len(s)
  PROVE  /\ SubSeq(s, m, n) \in Seq(Segment) /\ Len(SubSeq(s, m, n)) = n - m + 1
         /\ \A k \in 1..n - m + 1 : SubSeq(s, m, n)[k] = s[m + k - 1]
<1>1. Len(s) \in Nat
  BY LenProperties
<1>2. m \in Int /\ n \in Int /\ (m <= n \/ n = m - 1)
  BY <1>1
<1>3. \A i \in m..n : s[i] \in Segment
  BY <1>1, ElementOfSeq
<1>. QED
  BY <1>2, <1>3, SubSeqProperties

\* Three parts in a row.
LEMMA Row ==
  ASSUME NEW a \in Seq(Segment), NEW b \in Seq(Segment), NEW c \in Seq(Segment)
  PROVE  /\ a \o b \o c \in Seq(Segment) /\ Len(a \o b \o c) = Len(a) + Len(b) + Len(c)
         /\ \A k \in 1..Len(a) + Len(b) + Len(c) :
              (a \o b \o c)[k] = IF k <= Len(a) THEN a[k]
                                 ELSE IF k <= Len(a) + Len(b) THEN b[k - Len(a)]
                                 ELSE c[k - Len(a) - Len(b)]
<1>1. Len(a) \in Nat /\ Len(b) \in Nat /\ Len(c) \in Nat
  BY LenProperties
<1>2. PICK ab \in Seq(Segment) :
        /\ ab = a \o b /\ Len(ab) = Len(a) + Len(b)
        /\ \A k \in 1..Len(a) + Len(b) : ab[k] = IF k <= Len(a) THEN a[k] ELSE b[k - Len(a)]
  <2> DEFINE ab == a \o b
  <2>1. /\ ab \in Seq(Segment) /\ Len(ab) = Len(a) + Len(b)
        /\ \A k \in 1..Len(a) + Len(b) : ab[k] = IF k <= Len(a) THEN a[k] ELSE b[k - Len(a)]
    BY ConcatProperties
  <2>. QED
    BY <2>1, Zenon
<1>3. /\ ab \o c \in Seq(Segment) /\ Len(ab \o c) = Len(ab) + Len(c)
      /\ \A k \in 1..Len(ab) + Len(c) : (ab \o c)[k] = IF k <= Len(ab) THEN ab[k] ELSE c[k - Len(ab)]
  BY ConcatProperties
<1>4. ASSUME NEW k \in 1..Len(a) + Len(b) + Len(c)
      PROVE  (ab \o c)[k] = IF k <= Len(a) THEN a[k]
                            ELSE IF k <= Len(a) + Len(b) THEN b[k - Len(a)]
                            ELSE c[k - Len(a) - Len(b)]
  <2>1. CASE k <= Len(a) + Len(b)
    BY <1>1, <1>2, <1>3, <2>1
  <2>2. CASE ~(k <= Len(a) + Len(b))
    <3>1. (ab \o c)[k] = c[k - (Len(a) + Len(b))]
      BY <1>1, <1>2, <1>3, <2>2
    <3>. QED
      BY <1>1, <2>2, <3>1
  <2>. QED
    BY <2>1, <2>2
<1>. QED
  BY <1>2, <1>3, <1>4, Zenon
------------------------------------------------------------------------------
(* Reading.                                                                *)

\* What a text that leaves out its g-th number is filled up to.
LEMMA FilledUp ==
  ASSUME NEW s \in Seq(Segment), Len(s) <= 9, NEW g \in 2..Len(s), s[g] = Empty,
         \A j \in 2..g - 1 : s[j] # Empty
  PROVE  /\ Expanded(s) \in Seq(Segment) /\ Len(Expanded(s)) = 8
         /\ \A k \in 1..8 : Expanded(s)[k] = IF k < g THEN s[k]
                                             ELSE IF k < g + 9 - Len(s) THEN Empty
                                             ELSE s[k + Len(s) - 8]
<1>1. Len(s) \in Nat
  BY LenProperties
<1> DEFINE gaps == {k \in 2..Len(s) : s[k] = Empty}
           gap == CHOOSE k \in gaps : \A j \in gaps : k <= j
<1>2. g \in gaps /\ \A j \in gaps : g <= j
  BY <1>1
<1>3. gap = g
  <2>1. \A k \in gaps : (\A j \in gaps : k <= j) => k = g
    BY <1>1, <1>2
  <2>. QED
    BY <1>2, <2>1
<1>4. gaps # {}
  BY <1>2
<1> DEFINE a == SubSeq(s, 1, g - 1)
           b == Empties(9 - Len(s))
           c == SubSeq(s, g + 1, Len(s))
<1>5. Expanded(s) = a \o b \o c
  <2> HIDE DEF gap, gaps
  <2>1. Expanded(s) = IF gaps = {} THEN s
                      ELSE SubSeq(s, 1, gap - 1) \o Empties(9 - Len(s)) \o SubSeq(s, gap + 1, Len(s))
    BY Zenon DEF Expanded, gap, gaps
  <2>. QED
    BY <1>3, <1>4, <2>1, Zenon
<1>6. a \in Seq(Segment) /\ Len(a) = g - 1 /\ \A k \in 1..g - 1 : a[k] = s[k]
  <2>1. 1 \in 1..Len(s) + 1 /\ g - 1 \in 1 - 1..Len(s)
    BY <1>1
  <2>2. /\ a \in Seq(Segment) /\ Len(a) = g - 1 - 1 + 1
        /\ \A k \in 1..g - 1 - 1 + 1 : a[k] = s[1 + k - 1]
    BY <2>1, Part
  <2>. QED
    BY <2>2
<1>7. b \in Seq(Segment) /\ Len(b) = 9 - Len(s) /\ \A k \in 1..9 - Len(s) : b[k] = Empty
  <2>1. 9 - Len(s) \in Nat
    BY <1>1
  <2>. QED
    BY <2>1, EmptiesAre
<1>8. /\ c \in Seq(Segment) /\ Len(c) = Len(s) - g
      /\ \A k \in 1..Len(s) - g : c[k] = s[g + k]
  <2>1. PICK m \in 1..Len(s) + 1 : m = g + 1
    BY <1>1
  <2>2. Len(s) \in m - 1..Len(s)
    BY <1>1, <2>1
  <2>3. /\ SubSeq(s, m, Len(s)) \in Seq(Segment) /\ Len(SubSeq(s, m, Len(s))) = Len(s) - m + 1
        /\ \A k \in 1..Len(s) - m + 1 : SubSeq(s, m, Len(s))[k] = s[m + k - 1]
    BY <2>2, Part, Zenon
  <2>4. Len(s) - m + 1 = Len(s) - g /\ \A k \in 1..Len(s) - g : m + k - 1 = g + k
    BY <1>1, <2>1
  <2>5. c = SubSeq(s, m, Len(s))
    BY <2>1
  <2>. QED
    BY <2>3, <2>4, <2>5, Zenon
<1> HIDE DEF a, b, c
<1>12. a \in Seq(Segment) /\ b \in Seq(Segment) /\ c \in Seq(Segment)
  BY <1>6, <1>7, <1>8
<1>9. /\ a \o b \o c \in Seq(Segment) /\ Len(a \o b \o c) = Len(a) + Len(b) + Len(c)
      /\ \A k \in 1..Len(a) + Len(b) + Len(c) :
           (a \o b \o c)[k] = IF k <= Len(a) THEN a[k]
                              ELSE IF k <= Len(a) + Len(b) THEN b[k - Len(a)]
                              ELSE c[k - Len(a) - Len(b)]
  BY <1>12, Row, Zenon
<1>10. Len(a) + Len(b) + Len(c) = 8
  BY <1>1, <1>6, <1>7, <1>8
<1>11. ASSUME NEW k \in 1..8
       PROVE  (a \o b \o c)[k] = IF k < g THEN s[k] ELSE IF k < g + 9 - Len(s) THEN Empty
                                 ELSE s[k + Len(s) - 8]
  <2>1. CASE k < g
    <3>1. k <= g - 1 /\ k \in 1..g - 1
      BY <2>1
    <3>2. (a \o b \o c)[k] = a[k]
      BY <1>6, <1>9, <1>10, <3>1, Zenon
    <3>. QED
      BY <1>6, <2>1, <3>1, <3>2
  <2>2. CASE ~(k < g) /\ k < g + 9 - Len(s)
    BY <1>1, <1>6, <1>7, <1>9, <1>10, <2>2
  <2>3. CASE ~(k < g + 9 - Len(s))
    <3> DEFINE j == k - (g - 1) - (9 - Len(s))
    <3>5. j \in 1..Len(s) - g /\ g + j = k + Len(s) - 8
      BY <1>1, <2>3
    <3>1. PICK i \in 1..Len(s) - g : i = j /\ g + i = k + Len(s) - 8
      BY <3>5
    <3>6. ~(k <= g - 1) /\ ~(k <= g - 1 + (9 - Len(s)))
      BY <1>1, <2>3
    <3>7. (a \o b \o c)[k] = c[k - (g - 1) - (9 - Len(s))]
      BY <1>6, <1>7, <1>9, <1>10, <3>6, Zenon
    <3>2. (a \o b \o c)[k] = c[i]
      BY <3>1, <3>7
    <3>3. c[i] = s[k + Len(s) - 8]
      BY <1>8, <3>1
    <3>4. ~(k < g)
      BY <1>1, <2>3
    <3>. QED
      BY <2>3, <3>2, <3>3, <3>4
  <2>. QED
    BY <2>1, <2>2, <2>3
<1>. QED
  BY <1>5, <1>9, <1>10, <1>11

LEMMA NothingLeftOut ==
  ASSUME NEW s \in Seq(Segment), \A k \in 2..Len(s) : s[k] # Empty
  PROVE  Expanded(s) = s
<1>1. {k \in 2..Len(s) : s[k] = Empty} = {}
  OBVIOUS
<1>. QED
  BY <1>1, Zenon DEF Expanded

LEMMA Numbers ==
  ASSUME NEW segment \in Segment
  PROVE  Number(segment) \in Pair
<1>1. CASE segment = Empty
  BY <1>1, Zero DEF Number
<1>2. CASE segment # Empty
  BY <1>2 DEF Number, Segment
<1>. QED
  BY <1>1, <1>2

\* Of eight segments or more, no number is read from behind them.
LEMMA PairsOfEight ==
  ASSUME NEW p \in Seq(Segment), Len(p) >= 8
  PROVE  Pairs(p) = {[k \in 1..8 |-> Number(p[k])]}
<1>1. Len(p) \in Nat
  BY LenProperties
<1>2. Len(p) + 1..8 = {}
  BY <1>1
<1> DEFINE eight(rest) == [k \in 1..8 |-> IF k <= Len(p) THEN Number(p[k]) ELSE rest[k]]
<1>3. ASSUME NEW rest PROVE eight(rest) = [k \in 1..8 |-> Number(p[k])]
  BY <1>1
<1>4. [k \in {} |-> 0] \in [Len(p) + 1..8 -> Behind]
  BY <1>2
<1>5. Pairs(p) = {eight(rest) : rest \in [Len(p) + 1..8 -> Behind]}
  BY DEF Pairs
<1> HIDE DEF eight
<1>. QED
  BY <1>3, <1>4, <1>5

LEMMA PairsTypes ==
  ASSUME NEW p \in Seq(Segment)
  PROVE  Pairs(p) \subseteq Address
<1>1. Len(p) \in Nat
  BY LenProperties
<1>. SUFFICES ASSUME NEW rest \in [Len(p) + 1..8 -> Behind]
              PROVE  [k \in 1..8 |-> IF k <= Len(p) THEN Number(p[k]) ELSE rest[k]] \in Address
  BY DEF Pairs
<1>2. ASSUME NEW k \in 1..8 PROVE (IF k <= Len(p) THEN Number(p[k]) ELSE rest[k]) \in Pair
  <2>1. CASE k <= Len(p)
    <3>1. k \in 1..Len(p)
      BY <1>1, <2>1
    <3>2. p[k] \in Segment
      BY <3>1, ElementOfSeq
    <3>. QED
      BY <2>1, <3>2, Numbers
  <2>2. CASE ~(k <= Len(p))
    <3>1. k \in Len(p) + 1..8
      BY <1>1, <2>2
    <3>. QED
      BY <2>2, <3>1, WorldAssumption
  <2>. QED
    BY <2>1, <2>2
<1>. QED
  BY <1>2 DEF Address

\* "::" between numbers, place by place.
LEMMA CompressedIs ==
  ASSUME NEW left \in Seq(Segment), NEW right \in Seq(Segment),
         NEW l \in Nat, NEW r \in Nat,
         Len(left) = 0 => l = 1, Len(left) # 0 => l = Len(left),
         Len(right) = 0 => r = 1, Len(right) # 0 => r = Len(right)
  PROVE  /\ Compressed(left, right) \in Seq(Segment) /\ Len(Compressed(left, right)) = l + 1 + r
         /\ \A k \in 1..l : Compressed(left, right)[k] = IF Len(left) = 0 THEN Empty ELSE left[k]
         /\ Compressed(left, right)[l + 1] = Empty
         /\ \A k \in 1..r : Compressed(left, right)[l + 1 + k]
                              = IF Len(right) = 0 THEN Empty ELSE right[k]
<1>1. Len(left) \in Nat /\ Len(right) \in Nat /\ l >= 1 /\ r >= 1
  BY LenProperties
<1>2. (left = <<>> <=> Len(left) = 0) /\ (right = <<>> <=> Len(right) = 0)
  BY EmptySeq
<1>3. PICK e \in Seq(Segment) : e = Empties(1) /\ Len(e) = 1 /\ e[1] = Empty
  <2>1. 1 \in Nat /\ 1 \in 1..1
    OBVIOUS
  <2>. QED
    BY <2>1, EmptiesAre
<1>4. PICK a \in Seq(Segment) :
        /\ a = IF left = <<>> THEN Empties(1) ELSE left
        /\ Len(a) = l /\ \A k \in 1..l : a[k] = IF Len(left) = 0 THEN Empty ELSE left[k]
  <2>1. CASE left = <<>>
    <3>1. l = 1 /\ \A k \in 1..l : k = 1
      BY <1>1, <1>2, <2>1
    <3>. QED
      BY <1>2, <1>3, <2>1, <3>1
  <2>2. CASE left # <<>>
    BY <1>2, <2>2
  <2>. QED
    BY <2>1, <2>2
<1>5. PICK c \in Seq(Segment) :
        /\ c = IF right = <<>> THEN Empties(1) ELSE right
        /\ Len(c) = r /\ \A k \in 1..r : c[k] = IF Len(right) = 0 THEN Empty ELSE right[k]
  <2>1. CASE right = <<>>
    <3>1. r = 1 /\ \A k \in 1..r : k = 1
      BY <1>1, <1>2, <2>1
    <3>. QED
      BY <1>2, <1>3, <2>1, <3>1
  <2>2. CASE right # <<>>
    BY <1>2, <2>2
  <2>. QED
    BY <2>1, <2>2
<1>6. Compressed(left, right) = a \o e \o c
  BY <1>3, <1>4, <1>5, Zenon DEF Compressed
<1> DEFINE w == a \o e \o c
<1>7. /\ w \in Seq(Segment) /\ Len(w) = Len(a) + Len(e) + Len(c)
      /\ \A k \in 1..Len(a) + Len(e) + Len(c) :
            w[k] = IF k <= Len(a) THEN a[k]
                   ELSE IF k <= Len(a) + Len(e) THEN e[k - Len(a)]
                   ELSE c[k - Len(a) - Len(e)]
  BY Row
<1> HIDE DEF w
<1>8. Len(a) = l /\ Len(e) = 1 /\ Len(c) = r
  BY <1>3, <1>4, <1>5
<1>9. /\ Len(w) = l + 1 + r
      /\ \A k \in 1..l + 1 + r :
            w[k] = IF k <= l THEN a[k] ELSE IF k <= l + 1 THEN e[k - l] ELSE c[k - l - 1]
  BY <1>7, <1>8, Zenon
<1>10. ASSUME NEW k \in 1..l
       PROVE  w[k] = IF Len(left) = 0 THEN Empty ELSE left[k]
  <2>1. k \in 1..l + 1 + r /\ k <= l
    OBVIOUS
  <2>2. w[k] = a[k]
    BY <1>9, <2>1, Zenon
  <2>. QED
    BY <1>4, <2>2, Zenon
<1>11. w[l + 1] = Empty
  <2>1. PICK i \in 1..l + 1 + r : i = l + 1 /\ ~(i <= l) /\ i <= l + 1 /\ i - l = 1
    <3>1. l + 1 \in 1..l + 1 + r
      BY <1>1
    <3>. QED
      BY <3>1
  <2>2. w[i] = e[i - l]
    BY <1>9, <2>1, Zenon
  <2>. QED
    BY <1>3, <2>1, <2>2, Zenon
<1>12. ASSUME NEW k \in 1..r
       PROVE  w[l + 1 + k] = IF Len(right) = 0 THEN Empty ELSE right[k]
  <2>1. PICK i \in 1..l + 1 + r : /\ i = l + 1 + k /\ ~(i <= l) /\ ~(i <= l + 1)
                                  /\ i - l - 1 = k
    <3>1. l + 1 + k \in 1..l + 1 + r
      BY <1>1
    <3>. QED
      BY <1>1, <3>1
  <2>2. w[i] = c[i - l - 1]
    BY <1>9, <2>1, Zenon
  <2>. QED
    BY <1>5, <2>1, <2>2, Zenon
<1>13. w = Compressed(left, right)
  BY <1>6 DEF w
<1>. QED
  BY <1>7, <1>9, <1>10, <1>11, <1>12, <1>13, Zenon

LEMMA CompressedLength ==
  ASSUME NEW left \in Seq(Segment), NEW right \in Seq(Segment),
         NEW l \in Nat, NEW r \in Nat,
         Len(left) = 0 => l = 1, Len(left) # 0 => l = Len(left),
         Len(right) = 0 => r = 1, Len(right) # 0 => r = Len(right)
  PROVE  Len(Compressed(left, right)) = l + 1 + r
BY CompressedIs

\* It is read as the zeros that are missing there.
LEMMA CompressedReads ==
  ASSUME NEW left \in Seq(Segment), NEW right \in Seq(Segment), NEW t,
         Len(left) + Len(right) <= 7, Numbered(left), Numbered(right),
         t.segments = Compressed(left, right), t.quad = <<>>
  PROVE  Readings(t) = {left \o [k \in 1..8 - Len(left) - Len(right) |-> 0] \o right}
<1>1. Len(left) \in Nat /\ Len(right) \in Nat
  BY LenProperties
<1>13. PICK l \in Nat : l >= 1 /\ (Len(left) = 0 => l = 1) /\ (Len(left) # 0 => l = Len(left))
  <2>1. CASE Len(left) = 0
    BY <2>1
  <2>2. CASE Len(left) # 0
    BY <1>1, <2>2
  <2>. QED
    BY <2>1, <2>2
<1>14. PICK r \in Nat : r >= 1 /\ (Len(right) = 0 => r = 1) /\ (Len(right) # 0 => r = Len(right))
  <2>1. CASE Len(right) = 0
    BY <2>1
  <2>2. CASE Len(right) # 0
    BY <1>1, <2>2
  <2>. QED
    BY <2>1, <2>2
<1>2. /\ l >= 1 /\ (Len(left) = 0 => l = 1) /\ (Len(left) # 0 => l = Len(left))
      /\ r >= 1 /\ (Len(right) = 0 => r = 1) /\ (Len(right) # 0 => r = Len(right))
  BY <1>13, <1>14
<1> DEFINE s == Compressed(left, right)
<1>3. /\ s \in Seq(Segment) /\ Len(s) = l + 1 + r
      /\ \A k \in 1..l : s[k] = IF Len(left) = 0 THEN Empty ELSE left[k]
      /\ s[l + 1] = Empty
      /\ \A k \in 1..r : s[l + 1 + k] = IF Len(right) = 0 THEN Empty ELSE right[k]
  <2>1. s \in Seq(Segment) /\ Len(s) = l + 1 + r
    BY <1>2, CompressedIs
  <2>2. s[l + 1] = Empty
    BY <1>2, CompressedIs
  <2>3. ASSUME NEW k \in 1..l PROVE s[k] = IF Len(left) = 0 THEN Empty ELSE left[k]
    BY <1>2, CompressedIs, SMTT(30)
  <2>4. ASSUME NEW k \in 1..r PROVE s[l + 1 + k] = IF Len(right) = 0 THEN Empty ELSE right[k]
    BY <1>2, CompressedIs, SMTT(30)
  <2>. QED
    BY <2>1, <2>2, <2>3, <2>4, Zenon
<1>15. t.quad = <<>> /\ t.segments = s
  OBVIOUS
<1> HIDE DEF s
<1>4. Len(s) - 1 \in 2..8
  BY <1>1, <1>2, <1>3
<1>5. l + 1 \in 2..Len(s) /\ \A j \in 2..l + 1 - 1 : s[j] # Empty
  <2>1. l + 1 \in 2..Len(s)
    BY <1>2, <1>3
  <2>2. ASSUME NEW j \in 2..l + 1 - 1 PROVE s[j] # Empty
    <3>1. j \in 1..l /\ Len(left) # 0 /\ j \in 1..Len(left)
      BY <1>1, <1>2, <1>3
    <3>2. s[j] = left[j]
      BY <1>3, <3>1
    <3>. QED
      BY <3>1, <3>2 DEF Numbered
  <2>. QED
    BY <2>1, <2>2
<1>6. PICK p \in Seq(Segment) :
         /\ p = Expanded(s) /\ Len(p) = 8
         /\ \A k \in 1..8 : p[k] = IF k < l + 1 THEN s[k]
                                   ELSE IF k < l + 1 + 9 - Len(s) THEN Empty
                                   ELSE s[k + Len(s) - 8]
  <2>1. Len(s) <= 9
    BY <1>3, <1>4
  <2>2. PICK g \in 2..Len(s) : g = l + 1
    BY <1>5
  <2>3. s[g] = Empty /\ \A j \in 2..g - 1 : s[j] # Empty
    BY <1>3, <1>5, <2>2
  <2> DEFINE p == Expanded(s)
  <2>4. /\ p \in Seq(Segment) /\ Len(p) = 8
        /\ \A k \in 1..8 : p[k] = IF k < g THEN s[k]
                                  ELSE IF k < g + 9 - Len(s) THEN Empty
                                  ELSE s[k + Len(s) - 8]
    BY <1>3, <2>1, <2>3, FilledUp
  <2>. QED
    BY <2>2, <2>4, Zenon
<1>7. Readings(t) = {[k \in 1..8 |-> Number(p[k])]}
  <2>1. Readings(t) = Pairs(p)
    BY <1>4, <1>6, <1>15, Zenon DEF Readings
  <2>2. Len(p) >= 8
    BY <1>6
  <2>. QED
    BY <2>1, <2>2, PairsOfEight, Zenon
<1>8. PICK z \in Seq(Segment) :
        /\ z = [k \in 1..8 - Len(left) - Len(right) |-> 0]
        /\ Len(z) = 8 - Len(left) - Len(right)
        /\ \A k \in 1..8 - Len(left) - Len(right) : z[k] = 0
  <2> DEFINE n == 8 - Len(left) - Len(right)
  <2>1. n \in Nat
    BY <1>1
  <2> HIDE DEF n
  <2>2. 0 \in Segment
    BY Zero
  <2>3. [k \in 1..n |-> 0] \in Seq(Segment) /\ Len([k \in 1..n |-> 0]) = n
    BY <2>1, <2>2
  <2>. QED
    BY <2>3 DEF n
<1> DEFINE w == left \o z \o right
<1>9. /\ w \in Seq(Segment) /\ Len(w) = Len(left) + Len(z) + Len(right)
      /\ \A k \in 1..Len(left) + Len(z) + Len(right) :
            w[k] = IF k <= Len(left) THEN left[k]
                   ELSE IF k <= Len(left) + Len(z) THEN z[k - Len(left)]
                   ELSE right[k - Len(left) - Len(z)]
  BY Row
<1> HIDE DEF w
<1>10. Len(w) = 8
  BY <1>1, <1>8, <1>9
<1>11. ASSUME NEW k \in 1..8 PROVE Number(p[k]) = w[k]
  <2>1. CASE k <= Len(left)
    <3>1. k \in 1..l /\ Len(left) # 0 /\ k < l + 1 /\ k \in 1..Len(left)
      BY <1>1, <1>2, <1>3, <2>1
    <3>2. p[k] = left[k] /\ left[k] # Empty
      BY <1>3, <1>6, <3>1 DEF Numbered
    <3>3. w[k] = left[k]
      <4>1. k \in 1..Len(left) + Len(z) + Len(right)
        BY <1>1, <1>8
      <4>. QED
        BY <1>9, <2>1, <4>1, Zenon
    <3>. QED
      BY <3>2, <3>3 DEF Number
  <2>2. CASE ~(k <= Len(left)) /\ k <= 8 - Len(right)
    <3>1. w[k] = 0
      <4>1. k \in 1..Len(left) + Len(z) + Len(right) /\ k <= Len(left) + Len(z)
            /\ k - Len(left) \in 1..8 - Len(left) - Len(right)
        BY <1>1, <1>8, <2>2
      <4>. QED
        BY <1>8, <1>9, <2>2, <4>1
    <3>2. p[k] = Empty
      <4>1. CASE k < l + 1
        <5>1. k \in 1..l /\ Len(left) = 0
          BY <1>1, <1>2, <1>3, <2>2, <4>1
        <5>. QED
          BY <1>3, <1>6, <4>1, <5>1
      <4>2. CASE ~(k < l + 1) /\ k < l + 1 + 9 - Len(s)
        BY <1>6, <4>2
      <4>3. CASE ~(k < l + 1) /\ ~(k < l + 1 + 9 - Len(s))
        <5>1. Len(right) = 0 /\ k + Len(s) - 8 = l + 1 + 1 /\ 1 \in 1..r
          BY <1>1, <1>2, <1>3, <2>2, <4>3
        <5>2. s[l + 1 + 1] = Empty
          BY <1>3, <5>1
        <5>. QED
          BY <1>6, <4>3, <5>1, <5>2
      <4>. QED
        BY <4>1, <4>2, <4>3
    <3>. QED
      BY <3>1, <3>2 DEF Number
  <2>3. CASE ~(k <= 8 - Len(right))
    <3>6. k - (8 - Len(right)) \in 1..Len(right)
      BY <1>1, <2>3
    <3>1. PICK i \in 1..Len(right) : i = k - (8 - Len(right))
      BY <3>6
    <3>2. Len(right) # 0 /\ r = Len(right)
      BY <1>1, <1>2, <2>3
    <3>3. w[k] = right[i]
      <4>1. /\ k \in 1..Len(left) + Len(z) + Len(right)
            /\ ~(k <= Len(left)) /\ ~(k <= Len(left) + Len(z)) /\ k - Len(left) - Len(z) = i
        <5>1. Len(z) = 8 - Len(left) - Len(right)
          BY <1>8
        <5>2. /\ k \in 1..Len(left) + (8 - Len(left) - Len(right)) + Len(right)
              /\ ~(k <= Len(left)) /\ ~(k <= Len(left) + (8 - Len(left) - Len(right)))
              /\ k - Len(left) - (8 - Len(left) - Len(right)) = i
          BY <1>1, <2>3, <3>1
        <5>. QED
          BY <5>1, <5>2, Zenon
      <4>. QED
        BY <1>9, <4>1
    <3>4. p[k] = right[i]
      <4>1. /\ ~(k < l + 1) /\ ~(k < l + 1 + 9 - Len(s)) /\ k + Len(s) - 8 = l + 1 + i
            /\ i \in 1..r
        BY <1>1, <1>2, <1>3, <2>3, <3>1, <3>2
      <4>2. p[k] = s[l + 1 + i]
        BY <1>6, <4>1
      <4>. QED
        BY <1>3, <3>2, <4>1, <4>2
    <3>5. right[i] # Empty
      BY DEF Numbered
    <3>. QED
      BY <3>3, <3>4, <3>5 DEF Number
  <2>. QED
    BY <2>1, <2>2, <2>3
<1>12. [k \in 1..8 |-> Number(p[k])] = w
  <2>1. w = [k \in 1..8 |-> w[k]]
    <3>1. w \in [1..8 -> Segment]
      BY <1>9, <1>10, LenProperties
    <3>. QED
      BY <3>1
  <2>. QED
    BY <1>11, <2>1
<1>. QED
  BY <1>7, <1>8, <1>12 DEF w

LEMMA FirstGap ==
  ASSUME NEW s \in Seq(Segment), ~(\A k \in 2..Len(s) : s[k] # Empty)
  PROVE  \E g \in 2..Len(s) : s[g] = Empty /\ \A j \in 2..g - 1 : s[j] # Empty
<1> DEFINE gaps == {k \in 2..Len(s) : s[k] = Empty}
<1>1. Len(s) \in Nat
  BY LenProperties
<1>2. gaps \in SUBSET Nat /\ gaps # {}
  BY <1>1
<1>3. PICK g \in gaps : \A y \in gaps : g <= y
  <2> HIDE DEF gaps
  <2>. QED
    BY <1>2, LeastNumber
<1>4. ASSUME NEW j \in 2..g - 1 PROVE s[j] # Empty
  <2>1. j \in 2..Len(s) /\ ~(g <= j)
    BY <1>1
  <2>. QED
    BY <1>3, <2>1
<1>. QED
  BY <1>4

\* A text as the constructor is given it, in colons or in dots.
LEMMA Expansion ==
  ASSUME NEW s \in Seq(Segment), Len(s) <= 9
  PROVE  /\ Expanded(s) \in Seq(Segment)
         /\ ~(\A k \in 2..Len(s) : s[k] # Empty) => Len(Expanded(s)) = 8
<1>1. CASE \A k \in 2..Len(s) : s[k] # Empty
  BY <1>1, NothingLeftOut
<1>2. CASE ~(\A k \in 2..Len(s) : s[k] # Empty)
  <2>1. PICK g \in 2..Len(s) : s[g] = Empty /\ \A j \in 2..g - 1 : s[j] # Empty
    BY <1>2, FirstGap
  <2>2. Expanded(s) \in Seq(Segment) /\ Len(Expanded(s)) = 8
    BY <2>1, FilledUp
  <2>. QED
    BY <2>2
<1>. QED
  BY <1>1, <1>2

LEMMA Colons ==
  ASSUME NEW n \in Nat, n - 1 \in 2..8
  PROVE  n <= 9 /\ n # 0
OBVIOUS

LEMMA TwoDigits ==
  ASSUME NEW x \in Int, NEW y \in Int, 0 <= x, x < 256, 0 <= y, y < 256
  PROVE  x * 256 + y \in Int /\ 0 <= x * 256 + y /\ x * 256 + y <= 65535
BY SMT

LEMMA Joined ==
  ASSUME NEW x \in Byte, NEW y \in Byte
  PROVE  Join(x, y) \in Pair
<1>1. x \in Int /\ 0 <= x /\ x < 256 /\ y \in Int /\ 0 <= y /\ y < 256
  BY ByteIs
<1>2. x * 256 + y \in Int /\ 0 <= x * 256 + y /\ x * 256 + y <= 65535
  BY <1>1, TwoDigits, SMT
<1>. QED
  BY <1>2, PairIn, SMT DEF Join

LEMMA MappedType ==
  ASSUME NEW quad \in Quad
  PROVE  Mapped(quad) \in Address
<1>1. /\ Join(quad[1], quad[2]) \in Pair /\ Join(quad[3], quad[4]) \in Pair
      /\ 0 \in Pair /\ 65535 \in Pair
  <2>1. quad[1] \in Byte /\ quad[2] \in Byte /\ quad[3] \in Byte /\ quad[4] \in Byte
    BY DEF Quad
  <2>2. Join(quad[1], quad[2]) \in Pair /\ Join(quad[3], quad[4]) \in Pair
    BY <2>1, Joined
  <2>3. 0 \in Pair /\ 65535 \in Pair
    BY Zero
  <2>. QED
    BY <2>2, <2>3
<1> DEFINE m == Join(quad[1], quad[2])
           n == Join(quad[3], quad[4])
<1> HIDE DEF m, n
<1>2. m \in Pair /\ n \in Pair
  BY <1>1 DEF m, n
<1>3. <<0, 0, 0, 0, 0, 65535, m, n>> \in [1..8 -> Pair]
  BY <1>1, <1>2
<1>. QED
  BY <1>3 DEF Mapped, Address, m, n

LEMMA ReadingTypes ==
  ASSUME NEW t, t.segments \in Seq(Segment), t.quad = <<>> \/ t.quad \in Quad,
         NEW a \in Readings(t)
  PROVE  a = <<>> \/ a \in Address
<1>1. CASE t.quad # <<>>
  <2>1. a = Mapped(t.quad)
    BY <1>1 DEF Readings
  <2>. QED
    BY <1>1, <2>1, MappedType
<1>2. CASE t.quad = <<>> /\ Len(t.segments) - 1 \in 2..8
  <2>3. Len(t.segments) \in Nat
    BY LenProperties
  <2>1. Len(t.segments) <= 9
    BY <1>2, <2>3, Colons, Zenon
  <2>2. Readings(t) = Pairs(Expanded(t.segments))
    BY <1>2, Zenon DEF Readings
  <2>. QED
    BY <2>1, <2>2, Expansion, PairsTypes
<1>3. CASE t.quad = <<>> /\ ~(Len(t.segments) - 1 \in 2..8)
  BY <1>3 DEF Readings
<1>. QED
  BY <1>1, <1>2, <1>3

\* Nothing is read from behind the vector if a number is left out.
LEMMA ReadsOne ==
  ASSUME NEW t, t.segments \in Seq(Segment), t.quad = <<>>, NEW a \in Readings(t), a # <<>>,
         ~Numbered(Tail(t.segments))
  PROVE  Readings(t) = {a}
<1>7. PICK s \in Seq(Segment) : s = t.segments
  OBVIOUS
<1>1. Len(s) \in Nat
  BY LenProperties
<1>2. Len(s) - 1 \in 2..8
  BY <1>7 DEF Readings
<1>3. Readings(t) = Pairs(Expanded(s))
  BY <1>2, <1>7, Zenon DEF Readings
<1>4. ~(\A k \in 2..Len(s) : s[k] # Empty)
  <2>1. s # <<>>
    BY <1>1, <1>2, Colons, EmptySeq, Zenon
  <2>2. /\ Len(Tail(s)) = Len(s) - 1 /\ \A i \in 1..Len(Tail(s)) : Tail(s)[i] = s[i + 1]
    BY <2>1, HeadTailProperties
  <2>3. PICK i \in 1..Len(Tail(s)) : Tail(s)[i] = Empty
    BY <1>7 DEF Numbered
  <2>4. i + 1 \in 2..Len(s) /\ s[i + 1] = Empty
    BY <1>1, <2>2, <2>3
  <2>. QED
    BY <2>4
<1>5. Expanded(s) \in Seq(Segment) /\ Len(Expanded(s)) = 8
  <2>1. Len(s) <= 9
    BY <1>1, <1>2, Colons, Zenon
  <2>. QED
    BY <1>4, <2>1, Expansion
<1>6. PICK b : Pairs(Expanded(s)) = {b}
  <2>1. Len(Expanded(s)) >= 8
    BY <1>5
  <2>. QED
    BY <1>5, <2>1, PairsOfEight
<1>. QED
  BY <1>3, <1>6

LEMMA EightRead ==
  ASSUME NEW t, t.segments \in Seq(Segment), t.quad = <<>>, Len(t.segments) = 8,
         Numbered(t.segments)
  PROVE  Readings(t) = {t.segments}
<1> DEFINE s == t.segments
<1>1. Expanded(s) = s
  <2>1. \A k \in 2..Len(s) : s[k] # Empty
    <3>1. \A k \in 1..Len(s) : s[k] # Empty
      BY Zenon DEF Numbered
    <3> HIDE DEF s
    <3>. QED
      BY <3>1
  <2>. QED
    BY <2>1, NothingLeftOut
<1>2. Len(s) - 1 \in 2..8 /\ Len(s) >= 8
  OBVIOUS
<1>3. Readings(t) = Pairs(s)
  BY <1>1, <1>2, Zenon DEF Readings
<1>4. [k \in 1..8 |-> Number(s[k])] = s
  <2>1. \A k \in 1..8 : Number(s[k]) = s[k]
    BY DEF Numbered, Number
  <2>2. s = [k \in 1..8 |-> s[k]]
    <3>1. s \in [1..8 -> Segment]
      BY LenProperties
    <3>. QED
      BY <3>1
  <2>. QED
    BY <2>1, <2>2
<1>. QED
  BY <1>2, <1>3, <1>4, PairsOfEight
------------------------------------------------------------------------------
(* Writing.                                                                *)

LEMMA EightIsSeq ==
  ASSUME NEW S, NEW a \in [1..8 -> S]
  PROVE  a \in Seq(S) /\ Len(a) = 8
<1>1. 8 \in Nat
  OBVIOUS
<1>2. [1..8 -> S] \in {[1..n -> S] : n \in Nat}
  BY <1>1, Zenon
<1>3. a \in Seq(S)
  BY <1>2, SeqDef, Zenon
<1>4. DOMAIN a = 1..8 /\ DOMAIN a = 1..Len(a) /\ Len(a) \in Nat
  BY <1>3, LenProperties
<1>. QED
  BY <1>3, <1>4

LEMMA AddressIs ==
  ASSUME NEW a \in Address
  PROVE  /\ a \in Seq(Segment) /\ Len(a) = 8
         /\ \A k \in 1..8 : a[k] \in Pair /\ a[k] \in Int /\ a[k] # Empty
<1>1. Pair \subseteq Segment
  BY DEF Segment
<1>2. a \in [1..8 -> Pair]
  BY DEF Address
<1>3. a \in [1..8 -> Segment]
  BY <1>1, <1>2
<1>4. a \in Seq(Segment) /\ Len(a) = 8
  BY <1>3, EightIsSeq, Zenon
<1>5. \A k \in 1..8 : a[k] \in Pair
  BY <1>2
<1>6. \A n \in Pair : n \in Int /\ n # Empty
  BY PairIs, SMT DEF Empty
<1>. QED
  BY <1>4, <1>5, <1>6

\* Of runs there is a longest, and of those a first.
LEMMA LongestIs ==
  ASSUME NEW runs \in SUBSET [first : 1..8, last : 1..8], runs # {}
  PROVE  /\ Longest(runs) \in runs
         /\ \A q \in runs :
              \/ Longest(runs).last - Longest(runs).first > q.last - q.first
              \/ /\ Longest(runs).last - Longest(runs).first = q.last - q.first
                 /\ Longest(runs).first <= q.first
<1> DEFINE size(r) == 10 * (8 - (r.last - r.first)) + r.first
           sizes == {size(r) : r \in runs}
           best(r) == \A q \in runs : \/ r.last - r.first > q.last - q.first
                                      \/ r.last - r.first = q.last - q.first /\ r.first <= q.first
<1>1. ASSUME NEW r \in runs PROVE r.first \in 1..8 /\ r.last \in 1..8 /\ size(r) \in Nat
  OBVIOUS
<1>2. sizes \in SUBSET Nat /\ sizes # {}
  <2> HIDE DEF size
  <2>. QED
    BY <1>1
<1>3. PICK d \in sizes : \A y \in sizes : d <= y
  <2> HIDE DEF sizes
  <2>. QED
    BY <1>2, LeastNumber
<1>4. PICK r \in runs : d = size(r)
  <2> HIDE DEF size
  <2>. QED
    OBVIOUS
<1>5. ASSUME NEW q \in runs
      PROVE  \/ r.last - r.first > q.last - q.first
             \/ r.last - r.first = q.last - q.first /\ r.first <= q.first
  <2>1. size(r) <= size(q)
    <3> HIDE DEF size
    <3>. QED
      BY <1>3, <1>4
  <2>2. r.first \in 1..8 /\ r.last \in 1..8 /\ q.first \in 1..8 /\ q.last \in 1..8
    BY <1>1
  <2>. QED
    BY <2>1, <2>2
<1>6. Longest(runs) = CHOOSE x \in runs : best(x)
  BY Zenon DEF Longest
<1>7. best(r)
  BY <1>5
<1>8. Longest(runs) \in runs /\ best(Longest(runs))
  <2> HIDE DEF best
  <2>. QED
    BY <1>6, <1>7
<1>. QED
  BY <1>8

\* The run that is left out is one of zeros: the longest of those a number
\* follows, or one that none follows.
LEMMA ChosenIs ==
  ASSUME NEW a \in Address, NEW run \in Chosen(a)
  PROVE  /\ run \in ZeroRuns(a)
         /\ \/ run.last = 8 /\ a[8] = 0
            \/ OpenRuns(a) = {} /\ InnerRuns(a) # {} /\ run = Longest(InnerRuns(a))
<1>1. CASE OpenRuns(a) # {}
  <2>1. run \in OpenRuns(a)
    BY <1>1 DEF Chosen
  <2>2. run \in [first : 1..8, last : {8}] /\ \A k \in run.first..8 : a[k] = 0
    BY <2>1 DEF OpenRuns
  <2>3. run.first \in 1..8 /\ run.last = 8 /\ 8 \in run.first..8
    BY <2>2
  <2>4. run \in [first : 1..8, last : 1..8]
    BY <2>2
  <2>5. run \in ZeroRuns(a)
    BY <2>2, <2>3, <2>4 DEF ZeroRuns
  <2>. QED
    BY <2>2, <2>3, <2>5
<1>2. CASE OpenRuns(a) = {}
  <2>1. InnerRuns(a) # {} /\ run = Longest(InnerRuns(a))
    BY <1>2 DEF Chosen
  <2>2. InnerRuns(a) \in SUBSET [first : 1..8, last : 1..8]
    BY DEF InnerRuns
  <2>3. run \in InnerRuns(a)
    BY <2>1, <2>2, LongestIs
  <2>4. run \in ZeroRuns(a)
    BY <2>3 DEF InnerRuns, ZeroRuns
  <2>. QED
    BY <1>2, <2>1, <2>4
<1>. QED
  BY <1>1, <1>2

LEMMA RunIs ==
  ASSUME NEW a \in Address, NEW run \in ZeroRuns(a)
  PROVE  /\ run.first \in 1..8 /\ run.last \in 1..8 /\ run.first <= run.last
         /\ \A k \in run.first..run.last : a[k] = 0
BY DEF ZeroRuns

\* The numbers before a run, and those behind it.
LEMMA Sides ==
  ASSUME NEW a \in Address, NEW f \in 1..8, NEW g \in 1..8
  PROVE  /\ SubSeq(a, 1, f - 1) \in Seq(Segment) /\ Len(SubSeq(a, 1, f - 1)) = f - 1
         /\ \A k \in 1..f - 1 : SubSeq(a, 1, f - 1)[k] = a[k]
         /\ SubSeq(a, g + 1, 8) \in Seq(Segment) /\ Len(SubSeq(a, g + 1, 8)) = 8 - g
         /\ \A k \in 1..8 - g : SubSeq(a, g + 1, 8)[k] = a[g + k]
<1>1. a \in Seq(Segment) /\ Len(a) = 8
  BY AddressIs
<1>2. /\ SubSeq(a, 1, f - 1) \in Seq(Segment) /\ Len(SubSeq(a, 1, f - 1)) = f - 1
      /\ \A k \in 1..f - 1 : SubSeq(a, 1, f - 1)[k] = a[k]
  <2>1. 1 \in 1..Len(a) + 1 /\ f - 1 \in 1 - 1..Len(a)
    BY <1>1
  <2>2. /\ SubSeq(a, 1, f - 1) \in Seq(Segment) /\ Len(SubSeq(a, 1, f - 1)) = f - 1 - 1 + 1
        /\ \A k \in 1..f - 1 - 1 + 1 : SubSeq(a, 1, f - 1)[k] = a[1 + k - 1]
    BY <1>1, <2>1, Part
  <2>. QED
    BY <2>2
<1>3. /\ SubSeq(a, g + 1, 8) \in Seq(Segment) /\ Len(SubSeq(a, g + 1, 8)) = 8 - g
      /\ \A k \in 1..8 - g : SubSeq(a, g + 1, 8)[k] = a[g + k]
  <2>1. PICK m \in 1..Len(a) + 1 : m = g + 1 /\ 8 \in m - 1..Len(a)
    <3>1. g + 1 \in 1..Len(a) + 1 /\ 8 \in g + 1 - 1..Len(a)
      BY <1>1
    <3>. QED
      BY <3>1
  <2>2. /\ SubSeq(a, m, 8) \in Seq(Segment) /\ Len(SubSeq(a, m, 8)) = 8 - m + 1
        /\ \A k \in 1..8 - m + 1 : SubSeq(a, m, 8)[k] = a[m + k - 1]
    BY <1>1, <2>1, Part
  <2>3. 8 - m + 1 = 8 - g /\ \A k \in 1..8 - g : m + k - 1 = g + k
    BY <2>1
  <2>. QED
    BY <2>1, <2>2, <2>3
<1>. QED
  BY <1>2, <1>3

\* join() makes one "::" of the segments left empty for a run.
LEMMA ElisionIs ==
  ASSUME NEW a \in Address, NEW run \in ZeroRuns(a)
  PROVE  SubSeq(a, 1, run.first - 1) \o Elision(run) \o SubSeq(a, run.last + 1, 8)
           = Compressed(SubSeq(a, 1, run.first - 1), SubSeq(a, run.last + 1, 8))
<1>1. PICK f \in 1..8, g \in 1..8 : f = run.first /\ g = run.last
  BY RunIs
<1>2. PICK A \in 0..1, B \in 0..1 : /\ A = IF f = 1 THEN 1 ELSE 0
                                    /\ B = IF g = 8 THEN 1 ELSE 0
  <2>1. (IF f = 1 THEN 1 ELSE 0) \in 0..1 /\ (IF g = 8 THEN 1 ELSE 0) \in 0..1
    OBVIOUS
  <2>. QED
    BY <2>1
<1> DEFINE left == SubSeq(a, 1, f - 1)
           right == SubSeq(a, g + 1, 8)
           e == Elision(run)
           w == left \o e \o right
           c == Compressed(left, right)
<1>3. /\ left \in Seq(Segment) /\ Len(left) = f - 1
      /\ right \in Seq(Segment) /\ Len(right) = 8 - g
  BY Sides
<1>4. e \in Seq(Segment) /\ Len(e) = 1 + A + B /\ \A k \in 1..1 + A + B : e[k] = Empty
  <2>1. e = Empties(1 + A + B)
    BY <1>1, <1>2, Zenon DEF Elision
  <2>2. 1 + A + B \in Nat
    OBVIOUS
  <2> HIDE DEF e
  <2>. QED
    BY <2>1, <2>2, EmptiesAre
<1> HIDE DEF left, right, e
<1>5. PICK l \in Nat, r \in Nat :
        /\ l = f - 1 + A /\ r = 8 - g + B
        /\ (Len(left) = 0 => l = 1) /\ (Len(left) # 0 => l = Len(left))
        /\ (Len(right) = 0 => r = 1) /\ (Len(right) # 0 => r = Len(right))
  <2>1. f - 1 + A \in Nat /\ 8 - g + B \in Nat
    OBVIOUS
  <2>2. /\ (f - 1 = 0 => f - 1 + A = 1) /\ (f - 1 # 0 => f - 1 + A = f - 1)
        /\ (8 - g = 0 => 8 - g + B = 1) /\ (8 - g # 0 => 8 - g + B = 8 - g)
    BY <1>2
  <2>. QED
    BY <1>3, <2>1, <2>2, Zenon
<1>6. /\ c \in Seq(Segment) /\ Len(c) = l + 1 + r
      /\ \A k \in 1..l : c[k] = IF Len(left) = 0 THEN Empty ELSE left[k]
      /\ c[l + 1] = Empty
      /\ \A k \in 1..r : c[l + 1 + k] = IF Len(right) = 0 THEN Empty ELSE right[k]
  <2>5. c \in Seq(Segment)
    BY <1>3, <1>5, CompressedIs
  <2>6. Len(c) = l + 1 + r
    BY <1>3, <1>5, CompressedLength
  <2>1. c \in Seq(Segment) /\ Len(c) = l + 1 + r
    BY <2>5, <2>6
  <2>2. c[l + 1] = Empty
    BY <1>3, <1>5, CompressedIs
  <2>3. ASSUME NEW k \in 1..l
        PROVE  c[k] = IF Len(left) = 0 THEN Empty ELSE left[k]
    <3>1. left \in Seq(Segment) /\ right \in Seq(Segment)
      BY <1>3
    <3>. QED
      BY <1>5, <3>1, CompressedIs
  <2>4. \A k \in 1..r : c[l + 1 + k] = IF Len(right) = 0 THEN Empty ELSE right[k]
    BY <1>3, <1>5, CompressedIs
  <2>. QED
    BY <2>1, <2>2, <2>3, <2>4, Zenon
<1>7. /\ w \in Seq(Segment) /\ Len(w) = Len(left) + Len(e) + Len(right)
      /\ \A k \in 1..Len(left) + Len(e) + Len(right) :
            w[k] = IF k <= Len(left) THEN left[k]
                   ELSE IF k <= Len(left) + Len(e) THEN e[k - Len(left)]
                   ELSE right[k - Len(left) - Len(e)]
  BY <1>3, <1>4, Row
<1> HIDE DEF w, c
<1>8. Len(left) + Len(e) + Len(right) = l + 1 + r
  BY <1>3, <1>4, <1>5
<1>9. ASSUME NEW k \in 1..l + 1 + r PROVE w[k] = c[k]
  <2>1. CASE k <= f - 1
    <3>1. k \in 1..l /\ Len(left) # 0
      BY <1>3, <1>5, <2>1
    <3>2. c[k] = left[k]
      BY <1>6, <3>1
    <3>3. w[k] = left[k]
      BY <1>3, <1>7, <1>8, <2>1, Zenon
    <3>. QED
      BY <3>2, <3>3
  <2>2. CASE ~(k <= f - 1) /\ k <= f - 1 + (1 + A + B)
    <3>1. w[k] = Empty
      <4>1. k - (f - 1) \in 1..1 + A + B
        BY <2>2
      <4>2. w[k] = e[k - (f - 1)]
        BY <1>3, <1>4, <1>7, <1>8, <2>2, Zenon
      <4>. QED
        BY <1>4, <4>1, <4>2
    <3>2. c[k] = Empty
      <4>1. CASE k <= l
        <5>1. k \in 1..l /\ Len(left) = 0
          BY <1>2, <1>3, <1>5, <2>2, <4>1
        <5>. QED
          BY <1>6, <5>1
      <4>2. CASE k = l + 1
        BY <1>6, <4>2
      <4>3. CASE ~(k <= l) /\ k # l + 1
        <5>1. B = 1 /\ k = l + 1 + 1 /\ 1 \in 1..r
          BY <1>5, <2>2, <4>3
        <5>2. Len(right) = 0
          BY <1>2, <1>3, <5>1
        <5>. QED
          BY <1>6, <5>1, <5>2
      <4>. QED
        BY <4>1, <4>2, <4>3
    <3>. QED
      BY <3>1, <3>2
  <2>3. CASE ~(k <= f - 1 + (1 + A + B))
    <3>7. k <= f - 1 + A + 1 + (8 - g + B)
      BY <1>5
    <3>1. k - (f - 1) - (1 + A + B) \in 1..8 - g
      BY <2>3, <3>7
    <3>2. PICK i \in 1..8 - g : i = k - (f - 1) - (1 + A + B)
      BY <3>1
    <3>3. B = 0 /\ i \in 1..r /\ k = l + 1 + i /\ Len(right) # 0
      BY <1>2, <1>3, <1>5, <3>2
    <3>4. c[k] = right[i]
      BY <1>6, <3>3
    <3>5. ~(k <= f - 1)
      BY <2>3
    <3>6. w[k] = right[k - (f - 1) - (1 + A + B)]
      BY <1>3, <1>4, <1>7, <1>8, <2>3, <3>5, Zenon
    <3>. QED
      BY <3>2, <3>4, <3>6
  <2>. QED
    BY <2>1, <2>2, <2>3
<1>10. w = c
  <2>1. Len(w) = Len(c) /\ \A i \in 1..Len(w) : w[i] = c[i]
    BY <1>6, <1>7, <1>8, <1>9
  <2>. QED
    BY <1>6, <1>7, <2>1, SeqEqual
<1>. QED
  BY <1>1, <1>10 DEF w, c, left, right, e

\* What is written of an address is its eight numbers, or those on both sides of
\* a run of zeros.
LEMMA SegmentsAre ==
  ASSUME NEW a \in Address
  PROVE  \/ Chosen(a) = {} /\ Segments(a) = a
         \/ \E run \in Chosen(a) : Elided(a, run, Segments(a))
<1>1. CASE Chosen(a) = {}
  BY <1>1 DEF Segments
<1>2. CASE Chosen(a) # {}
  <2> DEFINE run == CHOOSE r \in Chosen(a) : TRUE
  <2>1. run \in Chosen(a)
    BY <1>2
  <2>2. Segments(a) = SubSeq(a, 1, run.first - 1) \o Elision(run) \o SubSeq(a, run.last + 1, 8)
    BY <1>2, Zenon DEF Segments
  <2> HIDE DEF run
  <2>3. run \in ZeroRuns(a)
    BY <2>1, ChosenIs
  <2>. QED
    BY <2>1, <2>2, <2>3, ElisionIs DEF Elided
<1>. QED
  BY <1>1, <1>2

\* It is read back, and nothing else.
LEMMA BackAgain ==
  ASSUME NEW a \in Address, NEW t, t.segments = Segments(a), t.quad = <<>>
  PROVE  t.segments \in Seq(Segment) /\ Readings(t) = {a}
<1>1. CASE Segments(a) = a
  <2>1. a \in Seq(Segment) /\ Len(a) = 8 /\ Numbered(a)
    BY AddressIs DEF Numbered
  <2>. QED
    BY <1>1, <2>1, EightRead
<1>2. ASSUME NEW run \in Chosen(a), Elided(a, run, Segments(a))
      PROVE  t.segments \in Seq(Segment) /\ Readings(t) = {a}
  <2>1. /\ run.first \in 1..8 /\ run.last \in 1..8 /\ run.first <= run.last
        /\ \A k \in run.first..run.last : a[k] = 0
    BY ChosenIs, RunIs
  <2>2. PICK f \in 1..8, g \in 1..8 :
          /\ f = run.first /\ g = run.last /\ f <= g /\ \A k \in f..g : a[k] = 0
    BY <2>1
  <2> DEFINE left == SubSeq(a, 1, f - 1)
             right == SubSeq(a, g + 1, 8)
  <2>3. /\ left \in Seq(Segment) /\ Len(left) = f - 1
        /\ \A k \in 1..f - 1 : left[k] = a[k]
        /\ right \in Seq(Segment) /\ Len(right) = 8 - g
        /\ \A k \in 1..8 - g : right[k] = a[g + k]
    BY Sides
  <2>4. t.segments = Compressed(left, right)
    BY <1>2, <2>2 DEF Elided
  <2> HIDE DEF left, right
  <2>5. Numbered(left) /\ Numbered(right)
    <3>1. \A k \in 1..f - 1 : k \in 1..8
      OBVIOUS
    <3>2. \A k \in 1..8 - g : g + k \in 1..8
      OBVIOUS
    <3>3. \A k \in 1..8 : a[k] # Empty
      BY AddressIs
    <3>. QED
      BY <2>3, <3>1, <3>2, <3>3, Zenon DEF Numbered
  <2>6. Len(left) + Len(right) <= 7
    BY <2>2, <2>3
  <2>7. t.segments \in Seq(Segment)
    <3>1. PICK l \in Nat : (Len(left) = 0 => l = 1) /\ (Len(left) # 0 => l = Len(left))
      <4>1. CASE Len(left) = 0
        BY <4>1
      <4>2. CASE Len(left) # 0
        BY <2>3, <4>2
      <4>. QED
        BY <4>1, <4>2
    <3>2. PICK r \in Nat : (Len(right) = 0 => r = 1) /\ (Len(right) # 0 => r = Len(right))
      <4>1. CASE Len(right) = 0
        BY <4>1
      <4>2. CASE Len(right) # 0
        BY <2>3, <4>2
      <4>. QED
        BY <4>1, <4>2
    <3>3. Compressed(left, right) \in Seq(Segment)
      BY <2>3, <3>1, <3>2, CompressedIs
    <3>. QED
      BY <2>4, <3>3
  <2>8. Readings(t) = {left \o [k \in 1..8 - Len(left) - Len(right) |-> 0] \o right}
    BY <2>3, <2>4, <2>5, <2>6, CompressedReads
  <2>9. left \o [k \in 1..8 - Len(left) - Len(right) |-> 0] \o right = a
    <3>1. PICK n \in Nat : n = g - f + 1 /\ n = 8 - Len(left) - Len(right)
      <4>1. g - f + 1 \in Nat /\ g - f + 1 = 8 - (f - 1) - (8 - g)
        BY <2>2
      <4>2. 8 - (f - 1) - (8 - g) = 8 - Len(left) - Len(right)
        BY <2>3, Zenon
      <4>. QED
        BY <4>1, <4>2
    <3>8. n = g - f + 1
      BY <3>1
    <3> DEFINE z == [k \in 1..n |-> 0]
               w == left \o z \o right
    <3>2. z \in Seq(Segment) /\ Len(z) = n /\ \A k \in 1..n : z[k] = 0
      <4>1. 0 \in Segment
        BY Zero
      <4>. QED
        BY <4>1
    <3> HIDE DEF z
    <3>3. /\ w \in Seq(Segment) /\ Len(w) = Len(left) + Len(z) + Len(right)
          /\ \A k \in 1..Len(left) + Len(z) + Len(right) :
                w[k] = IF k <= Len(left) THEN left[k]
                       ELSE IF k <= Len(left) + Len(z) THEN z[k - Len(left)]
                       ELSE right[k - Len(left) - Len(z)]
      BY <2>3, <3>2, Row
    <3> HIDE DEF w
    <3>4. Len(left) + Len(z) + Len(right) = 8
      BY <2>3, <3>1, <3>2
    <3>5. ASSUME NEW k \in 1..8 PROVE w[k] = a[k]
      <4>1. CASE k <= f - 1
        <5>2. k \in 1..f - 1
          BY <4>1
        <5>1. w[k] = left[k]
          BY <2>3, <3>3, <3>4, <4>1, Zenon
        <5>. QED
          BY <2>3, <5>1, <5>2
      <4>2. CASE ~(k <= f - 1) /\ k <= g
        <5>1. k <= f - 1 + n /\ k - (f - 1) \in 1..n /\ k \in f..g
          BY <3>1, <4>2
        <5>2. w[k] = z[k - (f - 1)]
          BY <2>3, <3>2, <3>3, <3>4, <4>2, <5>1, Zenon
        <5>. QED
          BY <2>2, <3>2, <5>1, <5>2
      <4>3. CASE ~(k <= g)
        <5>4. f <= g
          BY <2>2
        <5>1. ~(k <= f - 1) /\ ~(k <= f - 1 + n) /\ k - (f - 1) - n = k - g
          BY <3>8, <4>3, <5>4
        <5>5. w[k] = right[k - (f - 1) - n]
          BY <2>3, <3>2, <3>3, <3>4, <5>1, Zenon
        <5>2. w[k] = right[k - g]
          BY <5>1, <5>5, Zenon
        <5>3. k - g \in 1..8 - g /\ g + (k - g) = k
          BY <4>3
        <5>. QED
          BY <2>3, <5>2, <5>3
      <4>. QED
        BY <4>1, <4>2, <4>3
    <3>6. a \in Seq(Segment) /\ Len(a) = 8
      BY AddressIs
    <3>7. w = a
      <4>1. Len(w) = Len(a) /\ \A i \in 1..Len(w) : w[i] = a[i]
        BY <3>3, <3>4, <3>5, <3>6
      <4>. QED
        BY <3>3, <3>6, <4>1, SeqEqual
    <3>. QED
      BY <3>1, <3>7 DEF w, z
  <2>. QED
    BY <2>7, <2>8, <2>9
<1>. QED
  BY <1>1, <1>2, SegmentsAre
------------------------------------------------------------------------------
(* Bytes.                                                                  *)

LEMMA Quotient ==
  ASSUME NEW d \in Int, NEW m \in Int, NEW p \in Int,
         0 <= m, m < 256, 0 <= p, p < 65536, d * 256 + m = p
  PROVE  0 <= d /\ d <= 255
<1>1. 0 <= d
  OBVIOUS
<1>2. d <= 255
  OBVIOUS
<1>. QED
  BY <1>1, <1>2

LEMMA BytesAre ==
  ASSUME NEW p \in Pair
  PROVE  \E x, y \in Byte : Bytes(p) = <<x, y>> /\ Join(x, y) = p
<1>1. p \in Int /\ 0 <= p /\ p < 65536
  BY PairIs
<1>2. PICK d, m \in Int : /\ d = p \div 256 /\ m = p % 256 /\ d * 256 + m = p
                           /\ 0 <= m /\ m < 256
  <2>1. /\ p \div 256 \in Int /\ p % 256 \in Int /\ 0 <= p % 256 /\ p % 256 < 256
        /\ (p \div 256) * 256 + (p % 256) = p
    BY <1>1, SMT
  <2>. QED
    BY <2>1, SMT
<1>3. 0 <= d /\ d <= 255 /\ m <= 255
  BY <1>1, <1>2, Quotient, SMT
<1>4. d \in Byte /\ m \in Byte
  BY <1>2, <1>3, ByteIn
<1>5. Bytes(p) = <<d, m>> /\ Join(d, m) = p
  BY <1>2, SMT DEF Bytes, Join
<1>. QED
  BY <1>4, <1>5, Zenon

LEMMA TwoBytes ==
  ASSUME NEW p \in Pair
  PROVE  /\ Bytes(p)[1] \in Byte /\ Bytes(p)[2] \in Byte
         /\ Join(Bytes(p)[1], Bytes(p)[2]) = p
         /\ Bytes(p) \in Seq(Byte) /\ Len(Bytes(p)) = 2
<1>1. PICK x, y \in Byte : Bytes(p) = <<x, y>> /\ Join(x, y) = p
  BY BytesAre
<1>. QED
  BY <1>1

LEMMA NotEmpty ==
  ASSUME NEW S, NEW d \in Seq(S), Len(d) = 4
  PROVE  d # <<>>
BY EmptySeq

LEMMA FourBytes ==
  ASSUME NEW d \in Seq(Byte), Len(d) = 4
  PROVE  d \in Quad /\ d # <<>>
<1>1. d \in [1..4 -> Byte]
  BY LenProperties, Zenon
<1>2. d # <<>>
  BY NotEmpty, Zenon
<1>. QED
  BY <1>1, <1>2 DEF Quad

LEMMA TwoAndTwo ==
  ASSUME NEW S, NEW x \in Seq(S), NEW y \in Seq(S), Len(x) = 2, Len(y) = 2
  PROVE  x \o y \in Seq(S) /\ Len(x \o y) = 4
<1>1. x \o y \in Seq(S) /\ Len(x \o y) = Len(x) + Len(y)
  BY ConcatProperties, Zenon
<1>2. Len(x) + Len(y) = 4
  OBVIOUS
<1>. QED
  BY <1>1, <1>2, Zenon

LEMMA Sixteen ==
  ASSUME NEW d, Len(d) = 16
  PROVE  FromBytes(d) = [k \in 1..8 |-> Join(d[2 * k - 1], d[2 * k])]
BY DEF FromBytes

LEMMA Four ==
  ASSUME NEW d, Len(d) = 4
  PROVE  FromBytes(d) = Mapped(d)
BY DEF FromBytes

LEMMA Evens ==
  ASSUME NEW k \in 1..8
  PROVE  /\ 2 * k - 1 \in 1..16 /\ 2 * k \in 1..16
         /\ (2 * k - 1) % 2 = 1 /\ (2 * k) % 2 # 1
         /\ (2 * k - 1 + 1) \div 2 = k /\ (2 * k + 1) \div 2 = k
OBVIOUS

LEMMA Places ==
  ASSUME NEW i \in 1..16
  PROVE  (i + 1) \div 2 \in 1..8
OBVIOUS

\* The bytes that value() gives make the address they are of.
LEMMA ValueBack ==
  ASSUME NEW a \in Address
  PROVE  FromBytes(Value(a)) = a
<1>1. Len(Value(a)) = 16
  <2>1. \A i \in 1..16 : ByteOf(a, i) \in Byte
    <3>. SUFFICES ASSUME NEW i \in 1..16 PROVE ByteOf(a, i) \in Byte
      OBVIOUS
    <3>1. a[(i + 1) \div 2] \in Pair
      BY Places, AddressIs
    <3>. QED
      BY <3>1, TwoBytes DEF ByteOf
  <2>. QED
    BY DEF Value
<1>2. ASSUME NEW k \in 1..8
      PROVE  Join(Value(a)[2 * k - 1], Value(a)[2 * k]) = a[k]
  <2>1. Value(a)[2 * k - 1] = Bytes(a[k])[1] /\ Value(a)[2 * k] = Bytes(a[k])[2]
    <3>1. Value(a)[2 * k - 1] = ByteOf(a, 2 * k - 1) /\ Value(a)[2 * k] = ByteOf(a, 2 * k)
      BY Evens DEF Value
    <3>. QED
      BY <3>1, Evens, Zenon DEF ByteOf
  <2>2. a[k] \in Pair
    BY AddressIs
  <2>. QED
    BY <2>1, <2>2, TwoBytes, Zenon
<1>3. FromBytes(Value(a)) = [k \in 1..8 |-> Join(Value(a)[2 * k - 1], Value(a)[2 * k])]
  BY <1>1, Sixteen, Zenon
<1>4. FromBytes(Value(a)) = [k \in 1..8 |-> a[k]]
  BY <1>2, <1>3
<1>. QED
  BY <1>4 DEF Address

LEMMA BytesTypes ==
  ASSUME NEW d \in Seq(Byte)
  PROVE  FromBytes(d) = <<>> \/ FromBytes(d) \in Address
<1>1. CASE Len(d) = 16
  <2>1. FromBytes(d) = [k \in 1..8 |-> Join(d[2 * k - 1], d[2 * k])]
    BY <1>1, Sixteen, Zenon
  <2>2. ASSUME NEW k \in 1..8 PROVE Join(d[2 * k - 1], d[2 * k]) \in Pair
    <3>1. 2 * k - 1 \in 1..Len(d) /\ 2 * k \in 1..Len(d)
      BY <1>1, Evens
    <3>2. d[2 * k - 1] \in Byte /\ d[2 * k] \in Byte
      BY <3>1, ElementOfSeq
    <3>. QED
      BY <3>2, Joined
  <2>. QED
    BY <2>1, <2>2 DEF Address
<1>2. CASE Len(d) = 4
  <2>1. FromBytes(d) = Mapped(d)
    BY <1>2, Four, Zenon
  <2>2. d \in Quad
    BY <1>2, FourBytes
  <2>. QED
    BY <2>1, <2>2, MappedType
<1>3. CASE Len(d) # 16 /\ Len(d) # 4
  BY <1>3, Zenon DEF FromBytes
<1>. QED
  BY <1>1, <1>2, <1>3

\* What is written can be read; with colons, as the same address.
LEMMA Written ==
  ASSUME NEW a \in Address, NEW mapped \in BOOLEAN, NEW t, t = Printed(a, mapped)
  PROVE  /\ t.segments \in Seq(Segment)
         /\ t.quad = <<>> \/ t.quad \in Quad
         /\ t.quad = <<>> => t.segments = Segments(a) /\ Readings(t) = {a}
<1>1. CASE mapped = TRUE
  <2>1. a[7] \in Pair /\ a[8] \in Pair
    BY AddressIs
  <2>2. PICK x, y \in Seq(Byte) :
          x = Bytes(a[7]) /\ y = Bytes(a[8]) /\ Len(x) = 2 /\ Len(y) = 2
    BY <2>1, TwoBytes, Zenon
  <2>3. x \o y \in Seq(Byte) /\ Len(x \o y) = 4
    BY <2>2, TwoAndTwo
  <2>4. PICK quad \in Quad : quad = x \o y /\ quad # <<>>
    BY <2>3, FourBytes, Zenon
  <2>5. t = [segments |-> <<>>, quad |-> quad]
    BY <1>1, <2>2, <2>4, Zenon DEF Printed, Text
  <2>6. t.segments = <<>> /\ t.quad = quad
    BY <2>5
  <2>. QED
    BY <2>4, <2>6
<1>2. CASE mapped = FALSE
  <2>1. t = [segments |-> Segments(a), quad |-> <<>>]
    BY <1>2, Zenon DEF Printed, Text
  <2>2. t.segments = Segments(a) /\ t.quad = <<>>
    BY <2>1
  <2>. QED
    BY <2>2, BackAgain
<1>. QED
  BY <1>1, <1>2

LEMMA TextsAre ==
  ASSUME NEW t \in Texts
  PROVE  t.segments \in Seq(Segment) /\ (t.quad = <<>> \/ t.quad \in Quad)
BY WorldAssumption
------------------------------------------------------------------------------
(* The program.                                                            *)

IInv == TypeOK /\ Came

\* The text there is can be read.
LEMMA Readable ==
  ASSUME IInv, step \in {"given", "read", "written", "again"}
  PROVE  text.segments \in Seq(Segment) /\ (text.quad = <<>> \/ text.quad \in Quad)
<1>1. CASE step \in {"given", "read"}
  BY <1>1, TextsAre DEF IInv, Came
<1>2. CASE step \in {"written", "again"}
  <2>1. PICK mapped \in BOOLEAN : text = Printed(ip, mapped)
    BY <1>2, Zenon DEF IInv, Came
  <2>2. ip \in Address
    BY <1>2 DEF IInv, Came, TypeOK
  <2>. QED
    BY <2>1, <2>2, Written
<1>. QED
  BY <1>1, <1>2

LEMMA SegmentsOf ==
  ASSUME NEW s \in Seq(Segment)
  PROVE  \A k \in 1..Len(s) : s[k] \in Segment
BY ElementOfSeq

LEMMA InitIInv == Init => IInv
<1>. SUFFICES ASSUME Init PROVE IInv
  OBVIOUS
<1>1. step = "given" /\ text \in Texts /\ ip = <<>> /\ again = <<>>
  BY DEF Init
<1>2. text.segments \in Seq(Segment) /\ (text.quad = <<>> \/ text.quad \in Quad)
  BY <1>1, TextsAre
<1>3. \A k \in 1..Len(text.segments) : text.segments[k] \in Segment
  BY <1>2, SegmentsOf
<1>4. TypeOK
  BY <1>1, <1>2, <1>3 DEF TypeOK
<1>5. Came
  BY <1>1 DEF Came
<1>. QED
  BY <1>4, <1>5 DEF IInv

LEMMA NextIInv == IInv /\ [Next]_vars => IInv'
<1>. SUFFICES ASSUME IInv, [Next]_vars PROVE IInv'
  OBVIOUS
<1>1. TypeOK /\ Came
  BY DEF IInv
<1>2. CASE Read
  <2>1. /\ step = "given" /\ step' = "read" /\ ip' \in Readings(text)
        /\ text' = text /\ again' = again
    BY <1>2 DEF Read
  <2>2. ip' = <<>> \/ ip' \in Address
    BY <2>1, Readable, ReadingTypes
  <2>3. TypeOK'
    BY <1>1, <2>1, <2>2 DEF TypeOK
  <2>4. Came'
    BY <1>1, <2>1 DEF Came
  <2>. QED
    BY <2>3, <2>4 DEF IInv
<1>3. CASE ReadBytes
  <2>1. PICK d \in Strings : ip' = FromBytes(d)
    BY <1>3 DEF ReadBytes
  <2>2. step' = "taken" /\ text' = text /\ again' = again
    BY <1>3 DEF ReadBytes
  <2>3. ip' = <<>> \/ ip' \in Address
    BY <2>1, BytesTypes, WorldAssumption
  <2>4. TypeOK'
    BY <1>1, <2>2, <2>3 DEF TypeOK
  <2>5. Came'
    BY <2>2 DEF Came
  <2>. QED
    BY <2>4, <2>5 DEF IInv
<1>4. CASE Write
  <2>1. PICK mapped \in BOOLEAN : text' = Printed(ip, mapped)
    BY <1>4, Zenon DEF Write
  <2>2. step' = "written" /\ ip # <<>> /\ ip' = ip /\ again' = again
    BY <1>4 DEF Write
  <2>3. ip \in Address
    BY <1>1, <2>2 DEF TypeOK
  <2>4. text'.segments \in Seq(Segment) /\ (text'.quad = <<>> \/ text'.quad \in Quad)
    BY <2>1, <2>3, Written
  <2>5. \A k \in 1..Len(text'.segments) : text'.segments[k] \in Segment
    BY <2>4, SegmentsOf
  <2>6. TypeOK'
    BY <1>1, <2>2, <2>4, <2>5 DEF TypeOK
  <2>7. Came'
    BY <2>1, <2>2 DEF Came
  <2>. QED
    BY <2>6, <2>7 DEF IInv
<1>5. CASE ReadBack
  <2>1. /\ step = "written" /\ step' = "again" /\ again' \in Readings(text)
        /\ text' = text /\ ip' = ip
    BY <1>5 DEF ReadBack
  <2>2. again' = <<>> \/ again' \in Address
    BY <2>1, Readable, ReadingTypes
  <2>3. TypeOK'
    BY <1>1, <2>1, <2>2 DEF TypeOK
  <2>4. Came'
    BY <1>1, <2>1 DEF Came
  <2>. QED
    BY <2>3, <2>4 DEF IInv
<1>6. CASE Copy
  <2>1. /\ step' = "copied" /\ ip # <<>> /\ again' = FromBytes(Value(ip))
        /\ text' = text /\ ip' = ip
    BY <1>6 DEF Copy
  <2>2. ip \in Address
    BY <1>1, <2>1 DEF TypeOK
  <2>3. again' \in Address
    BY <2>1, <2>2, ValueBack
  <2>4. TypeOK'
    BY <1>1, <2>1, <2>3 DEF TypeOK
  <2>5. Came'
    BY <2>1 DEF Came
  <2>. QED
    BY <2>4, <2>5 DEF IInv
<1>7. CASE UNCHANGED vars
  BY <1>1, <1>7 DEF IInv, TypeOK, Came, vars
<1>. QED
  BY <1>2, <1>3, <1>4, <1>5, <1>6, <1>7 DEF Next

LEMMA IInvHolds == Spec => []IInv
BY InitIInv, NextIInv, PTL DEF Spec

\* An address is eight numbers of sixteen bits, whatever was read.
THEOREM TypeCorrect == Spec => []TypeOK
<1>1. IInv => TypeOK
  BY DEF IInv
<1>. QED
  BY <1>1, IInvHolds, PTL

\* What to_string writes with colons, and what value() gives, is read back as
\* the same address, of every address.
THEOREM ReadsBackCorrect == Spec => []ReadsBack
<1>1. IInv => ReadsBack
  <2>. SUFFICES ASSUME IInv, (step = "again" /\ text.quad = <<>>) \/ step = "copied"
                PROVE  again = ip
    BY DEF ReadsBack
  <2>1. CASE step = "again" /\ text.quad = <<>>
    <3>1. PICK mapped \in BOOLEAN : text = Printed(ip, mapped)
      BY <2>1, Zenon DEF IInv, Came
    <3>2. ip \in Address /\ again \in Readings(text)
      BY <2>1 DEF IInv, Came, TypeOK
    <3>3. Readings(text) = {ip}
      BY <2>1, <3>1, <3>2, Written
    <3>. QED
      BY <3>2, <3>3
  <2>2. CASE step = "copied"
    <3>1. ip \in Address /\ again = FromBytes(Value(ip))
      BY <2>2 DEF IInv, Came, TypeOK
    <3>. QED
      BY <3>1, ValueBack
  <2>. QED
    BY <2>1, <2>2
<1>. QED
  BY <1>1, IInvHolds, PTL

\* Of a text that leaves out a number behind its first colon, nothing is read
\* from behind hex_pairs.
THEOREM ReadsInsideCorrect == Spec => []ReadsInside
<1>1. IInv => ReadsInside
  <2>. SUFFICES ASSUME IInv, step = "read", text.quad = <<>>, ip # <<>>,
                       ~Numbered(Tail(text.segments))
                PROVE  Readings(text) = {ip}
    BY DEF ReadsInside
  <2>1. ip \in Readings(text)
    BY DEF IInv, Came
  <2>2. text.segments \in Seq(Segment)
    BY Readable
  <2>. QED
    BY <2>1, <2>2, ReadsOne
<1>. QED
  BY <1>1, IInvHolds, PTL

LEMMA FromTheEnd ==
  ASSUME NEW n \in Nat, NEW r \in 0..n - 1
  PROVE  /\ n - r + 1 \in 1..n + 1 /\ n \in n - r + 1 - 1..n
         /\ n - (n - r + 1) + 1 = r
OBVIOUS

\* Eight numbers are read as they are, and "::" as the zeros missing there.
THEOREM ReadsAsMeantCorrect == Spec => []ReadsAsMeant
<1>1. IInv => ReadsAsMeant
  <2>. SUFFICES ASSUME IInv, step = "read", text.quad = <<>>
                PROVE  ReadsAsMeant
    BY DEF ReadsAsMeant
  <2>1. ip \in Readings(text)
    BY DEF IInv, Came
  <2>2. PICK s \in Seq(Segment) : s = text.segments
    BY Readable
  <2>3. ASSUME Len(s) = 8, Numbered(s) PROVE ip = s
    BY <2>1, <2>2, <2>3, EightRead
  <2>4. ASSUME NEW l \in 0..Len(s) - 1, NEW r \in 0..Len(s) - 1, l + r <= 7,
               Numbered(SubSeq(s, 1, l)), Numbered(SubSeq(s, Len(s) - r + 1, Len(s))),
               s = Compressed(SubSeq(s, 1, l), SubSeq(s, Len(s) - r + 1, Len(s)))
        PROVE  ip = SubSeq(s, 1, l) \o [k \in 1..8 - l - r |-> 0]
                      \o SubSeq(s, Len(s) - r + 1, Len(s))
    <3> DEFINE left == SubSeq(s, 1, l)
               right == SubSeq(s, Len(s) - r + 1, Len(s))
    <3>1. Len(s) \in Nat
      BY LenProperties
    <3>2. left \in Seq(Segment) /\ Len(left) = l
      <4>1. 1 \in 1..Len(s) + 1 /\ l \in 1 - 1..Len(s) /\ l - 1 + 1 = l
        BY <3>1
      <4>. QED
        BY <4>1, Part
    <3>3. right \in Seq(Segment) /\ Len(right) = r
      <4>1. /\ Len(s) - r + 1 \in 1..Len(s) + 1 /\ Len(s) \in Len(s) - r + 1 - 1..Len(s)
            /\ Len(s) - (Len(s) - r + 1) + 1 = r
        BY <3>1, FromTheEnd, Zenon
      <4>3. PICK m \in 1..Len(s) + 1 : m = Len(s) - r + 1
        BY <4>1, Zenon
      <4>4. Len(s) \in m - 1..Len(s)
        BY <4>1, <4>3
      <4>5. /\ SubSeq(s, m, Len(s)) \in Seq(Segment)
            /\ Len(SubSeq(s, m, Len(s))) = Len(s) - m + 1
        BY <4>4, Part, Zenon
      <4>2. /\ right \in Seq(Segment)
            /\ Len(right) = Len(s) - (Len(s) - r + 1) + 1
        BY <4>3, <4>5, Zenon
      <4>. QED
        BY <4>1, <4>2
    <3>4. Numbered(left) /\ Numbered(right) /\ text.segments = Compressed(left, right)
      BY <2>2, <2>4
    <3> HIDE DEF left, right
    <3>5. Len(left) + Len(right) <= 7
      BY <2>4, <3>2, <3>3
    <3>6. Readings(text) = {left \o [k \in 1..8 - Len(left) - Len(right) |-> 0] \o right}
      BY <3>2, <3>3, <3>4, <3>5, CompressedReads
    <3>7. ip = left \o [k \in 1..8 - l - r |-> 0] \o right
      BY <2>1, <3>2, <3>3, <3>6
    <3>. QED
      BY <3>7 DEF left, right
  <2>. QED
    BY <2>2, <2>3, <2>4, Zenon DEF ReadsAsMeant
<1>. QED
  BY <1>1, IInvHolds, PTL
------------------------------------------------------------------------------
(* Which run is left out.                                                  *)

\* Every run of zeros is part of one that cannot be made longer: downwards ...
LEMMA Start ==
  ASSUME NEW a \in Address, NEW f \in 1..8, a[f] = 0
  PROVE  \E m \in 1..f : (\A k \in m..f : a[k] = 0) /\ (m = 1 \/ a[m - 1] # 0)
<1> DEFINE starts == {m \in 1..f : \A k \in m..f : a[k] = 0}
<1>1. starts \in SUBSET Nat /\ f \in starts
  <2>1. \A k \in f..f : k = f
    OBVIOUS
  <2>. QED
    BY <2>1
<1>2. PICK m \in starts : \A y \in starts : m <= y
  <2> HIDE DEF starts
  <2>. QED
    BY <1>1, LeastNumber
<1>3. m \in 1..f /\ \A k \in m..f : a[k] = 0
  BY <1>2
<1>4. ASSUME m # 1, a[m - 1] = 0 PROVE FALSE
  <2>1. m - 1 \in 1..f
    BY <1>3, <1>4
  <2>2. \A k \in m - 1..f : k = m - 1 \/ k \in m..f
    BY <1>3
  <2>3. \A k \in m - 1..f : a[k] = 0
    BY <1>3, <1>4, <2>2
  <2>4. m - 1 \in starts
    BY <2>1, <2>3
  <2>. QED
    BY <1>2, <1>3, <2>4
<1>. QED
  BY <1>3, <1>4

\* ... and upwards.
LEMMA Stop ==
  ASSUME NEW a \in Address, NEW g \in 1..8, a[g] = 0, a[8] # 0
  PROVE  \E n \in g..7 : (\A k \in g..n : a[k] = 0) /\ a[n + 1] # 0
<1> DEFINE stops == {n \in g..7 : a[n + 1] # 0}
<1>1. g # 8 /\ g \in 1..7
  OBVIOUS
<1>2. stops \in SUBSET Nat /\ 7 \in stops
  <2>1. 7 \in g..7 /\ 7 + 1 = 8
    BY <1>1
  <2>. QED
    BY <1>1, <2>1
<1>3. PICK n \in stops : \A y \in stops : n <= y
  <2> HIDE DEF stops
  <2>. QED
    BY <1>2, LeastNumber
<1>4. n \in g..7 /\ a[n + 1] # 0
  BY <1>3
<1>5. ASSUME NEW k \in g..n PROVE a[k] = 0
  <2>1. CASE k = g
    BY <2>1
  <2>2. CASE k # g
    <3>1. k - 1 \in g..7 /\ ~(n <= k - 1) /\ k - 1 + 1 = k
      BY <1>4, <2>2
    <3>2. ~(k - 1 \in stops)
      BY <1>3, <3>1
    <3>3. ~(a[k - 1 + 1] # 0)
      BY <3>1, <3>2
    <3>. QED
      BY <3>1, <3>3
  <2>. QED
    BY <2>1, <2>2
<1>. QED
  BY <1>4, <1>5

\* A run is open when the last number is zero.
LEMMA OpenWhenZero ==
  ASSUME NEW a \in Address, a[8] = 0
  PROVE  OpenRuns(a) # {}
<1>1. PICK m \in 1..8 : (\A k \in m..8 : a[k] = 0) /\ (m = 1 \/ a[m - 1] # 0)
  <2>1. 8 \in 1..8
    OBVIOUS
  <2>. QED
    BY <2>1, Start
<1> DEFINE run == [first |-> m, last |-> 8]
<1>2. run \in [first : 1..8, last : {8}] /\ run.first = m
  OBVIOUS
<1>3. run \in OpenRuns(a)
  BY <1>1, <1>2 DEF OpenRuns
<1>. QED
  BY <1>3

\* Otherwise a number follows every run of zeros.
LEMMA Around ==
  ASSUME NEW a \in Address, NEW q \in ZeroRuns(a), a[8] # 0
  PROVE  \E r \in InnerRuns(a) : r.first <= q.first /\ q.last <= r.last
<1>1. /\ q.first \in 1..8 /\ q.last \in 1..8 /\ q.first <= q.last
      /\ \A k \in q.first..q.last : a[k] = 0
  BY RunIs
<1>2. PICK f \in 1..8, g \in 1..8 : f = q.first /\ g = q.last /\ f <= g /\ \A k \in f..g : a[k] = 0
  BY <1>1
<1>3. a[f] = 0 /\ a[g] = 0
  BY <1>2
<1>4. PICK m \in 1..f : (\A k \in m..f : a[k] = 0) /\ (m = 1 \/ a[m - 1] # 0)
  BY <1>3, Start
<1>5. PICK n \in g..7 : (\A k \in g..n : a[k] = 0) /\ a[n + 1] # 0
  BY <1>3, Stop
<1> DEFINE r == [first |-> m, last |-> n]
<1>6. r \in [first : 1..8, last : 1..8] /\ r.first = m /\ r.last = n
  BY <1>2
<1>7. m <= n /\ n < 8
  BY <1>2, <1>4, <1>5
<1>8. \A k \in m..n : a[k] = 0
  <2>1. \A k \in m..n : k \in m..f \/ k \in f..g \/ k \in g..n
    BY <1>2, <1>4, <1>5
  <2>. QED
    BY <1>2, <1>4, <1>5, <2>1
<1>9. r \in InnerRuns(a)
  <2> HIDE DEF r
  <2>. QED
    BY <1>4, <1>5, <1>6, <1>7, <1>8 DEF InnerRuns
<1>10. r.first <= q.first /\ q.last <= r.last
  BY <1>2, <1>4, <1>5
<1>. QED
  BY <1>9, <1>10

\* Of an address with zeros a run of them is left out, and but for one at the
\* end there is no better one.
LEMMA Best ==
  ASSUME NEW a \in Address, ZeroRuns(a) # {}
  PROVE  /\ Chosen(a) # {}
         /\ \A run \in Chosen(a), q \in ZeroRuns(a) : Better(q, run) => a[8] = 0 /\ run.last = 8
<1>1. Chosen(a) # {}
  <2>1. CASE OpenRuns(a) # {}
    BY <2>1 DEF Chosen
  <2>2. CASE OpenRuns(a) = {}
    <3>1. a[8] # 0
      BY <2>2, OpenWhenZero
    <3>2. InnerRuns(a) # {}
      BY <3>1, Around
    <3>. QED
      BY <2>2, <3>2 DEF Chosen
  <2>. QED
    BY <2>1, <2>2
<1>2. ASSUME NEW run \in Chosen(a), NEW q \in ZeroRuns(a), Better(q, run), ~(a[8] = 0 /\ run.last = 8)
      PROVE  FALSE
  <2>1. OpenRuns(a) = {} /\ InnerRuns(a) # {} /\ run = Longest(InnerRuns(a))
    BY <1>2, ChosenIs, Zenon
  <2>2. a[8] # 0
    BY <2>1, OpenWhenZero, Zenon
  <2>3. PICK r \in InnerRuns(a) : r.first <= q.first /\ q.last <= r.last
    BY <2>2, Around
  <2>4. InnerRuns(a) \in SUBSET [first : 1..8, last : 1..8]
    BY DEF InnerRuns
  <2>5. \/ run.last - run.first > r.last - r.first
        \/ run.last - run.first = r.last - r.first /\ run.first <= r.first
    BY <2>1, <2>4, LongestIs
  <2>6. run \in ZeroRuns(a)
    BY ChosenIs
  <2>7. /\ run.first \in Int /\ run.last \in Int /\ q.first \in Int /\ q.last \in Int
        /\ r.first \in Int /\ r.last \in Int
    <3>1. run.first \in Int /\ run.last \in Int /\ q.first \in Int /\ q.last \in Int
      BY <2>6, RunIs
    <3>. QED
      BY <2>4, <3>1
  <2>8. \/ q.last - q.first > run.last - run.first
        \/ q.last - q.first = run.last - run.first /\ q.first < run.first
    BY <1>2 DEF Better
  <2>. QED
    BY <2>3, <2>5, <2>7, <2>8
<1>. QED
  BY <1>1, <1>2

\* to_string elides the first of the longest runs of zeros, or the last run of
\* an address that ends with one.
THEOREM ElidesBestCorrect == Spec => []ElidesBest
<1>1. IInv => ElidesBest
  <2>. SUFFICES ASSUME IInv, step = "written", text.quad = <<>>, ZeroRuns(ip) # {}
                PROVE  \E run \in ZeroRuns(ip) :
                          /\ Elided(ip, run, text.segments)
                          /\ \A q \in ZeroRuns(ip) : Better(q, run) => ip[8] = 0 /\ run.last = 8
    BY DEF ElidesBest
  <2>1. PICK mapped \in BOOLEAN : text = Printed(ip, mapped)
    BY Zenon DEF IInv, Came
  <2>2. ip \in Address
    BY DEF IInv, Came, TypeOK
  <2>3. text.segments = Segments(ip)
    BY <2>1, <2>2, Written
  <2>4. PICK run \in Chosen(ip) : Elided(ip, run, Segments(ip))
    BY <2>2, Best, SegmentsAre
  <2>5. run \in ZeroRuns(ip)
    BY <2>2, ChosenIs
  <2>6. \A q \in ZeroRuns(ip) : Better(q, run) => ip[8] = 0 /\ run.last = 8
    BY <2>2, Best
  <2>. QED
    BY <2>3, <2>4, <2>5, <2>6
<1>. QED
  BY <1>1, IInvHolds, PTL
------------------------------------------------------------------------------
(* The netmask of the mapped addresses.                                    *)

\* A bit of a byte.
LEMMA BitIs ==
  ASSUME NEW x \in Byte
  PROVE  /\ Bit(x, 0) = x % 2 /\ Bit(x, 1) = (x \div 2) % 2
         /\ Bit(x, 2) = (x \div 4) % 2 /\ Bit(x, 3) = (x \div 8) % 2
         /\ Bit(x, 4) = (x \div 16) % 2 /\ Bit(x, 5) = (x \div 32) % 2
         /\ Bit(x, 6) = (x \div 64) % 2 /\ Bit(x, 7) = (x \div 128) % 2
<1>1. x \in Int /\ 0 <= x /\ x < 256
  BY ByteIs
<1>. QED
  BY <1>1 DEF Bit, Weights

LEMMA BitsOf ==
  ASSUME NEW x \in Int, 0 <= x, x < 256
  PROVE  x = (x % 2) + 2 * ((x \div 2) % 2) + 4 * ((x \div 4) % 2) + 8 * ((x \div 8) % 2)
               + 16 * ((x \div 16) % 2) + 32 * ((x \div 32) % 2) + 64 * ((x \div 64) % 2)
               + 128 * ((x \div 128) % 2)
BY SMT

LEMMA EightBits ==
  ASSUME NEW x \in Byte
  PROVE  x = Bit(x, 0) + 2 * Bit(x, 1) + 4 * Bit(x, 2) + 8 * Bit(x, 3)
               + 16 * Bit(x, 4) + 32 * Bit(x, 5) + 64 * Bit(x, 6) + 128 * Bit(x, 7)
<1>1. x = (x % 2) + 2 * ((x \div 2) % 2) + 4 * ((x \div 4) % 2) + 8 * ((x \div 8) % 2)
            + 16 * ((x \div 16) % 2) + 32 * ((x \div 32) % 2) + 64 * ((x \div 64) % 2)
            + 128 * ((x \div 128) % 2)
  BY ByteIs, BitsOf, SMT
<1>. QED
  BY <1>1, BitIs

\* Bytes with the same bits are the same.
LEMMA SameBits ==
  ASSUME NEW x \in Byte, NEW y \in Byte, \A b \in 0..7 : Bit(x, b) = Bit(y, b)
  PROVE  x = y
<1>1. /\ 0 \in 0..7 /\ 1 \in 0..7 /\ 2 \in 0..7 /\ 3 \in 0..7
      /\ 4 \in 0..7 /\ 5 \in 0..7 /\ 6 \in 0..7 /\ 7 \in 0..7
  OBVIOUS
<1>2. /\ Bit(x, 0) = Bit(y, 0) /\ Bit(x, 1) = Bit(y, 1) /\ Bit(x, 2) = Bit(y, 2)
      /\ Bit(x, 3) = Bit(y, 3) /\ Bit(x, 4) = Bit(y, 4) /\ Bit(x, 5) = Bit(y, 5)
      /\ Bit(x, 6) = Bit(y, 6) /\ Bit(x, 7) = Bit(y, 7)
  BY <1>1, Zenon
<1>3. x = Bit(y, 0) + 2 * Bit(y, 1) + 4 * Bit(y, 2) + 8 * Bit(y, 3)
            + 16 * Bit(y, 4) + 32 * Bit(y, 5) + 64 * Bit(y, 6) + 128 * Bit(y, 7)
  BY <1>2, EightBits, Zenon
<1>. QED
  BY <1>3, EightBits, Zenon

LEMMA Masks ==
  /\ \A b \in 0..7 : Bit(255, b) = 1 /\ Bit(0, b) = 0
  /\ \A b \in 0..7 : Bit(247, b) = 1 <=> b # 3
<1>1. /\ Bit(255, 0) = 1 /\ Bit(255, 1) = 1 /\ Bit(255, 2) = 1 /\ Bit(255, 3) = 1
      /\ Bit(255, 4) = 1 /\ Bit(255, 5) = 1 /\ Bit(255, 6) = 1 /\ Bit(255, 7) = 1
  BY BitIs, SomeBytes, SMT
<1>2. /\ Bit(0, 0) = 0 /\ Bit(0, 1) = 0 /\ Bit(0, 2) = 0 /\ Bit(0, 3) = 0
      /\ Bit(0, 4) = 0 /\ Bit(0, 5) = 0 /\ Bit(0, 6) = 0 /\ Bit(0, 7) = 0
  BY BitIs, SomeBytes, SMT
<1>3. /\ Bit(247, 0) = 1 /\ Bit(247, 1) = 1 /\ Bit(247, 2) = 1 /\ Bit(247, 3) = 0
      /\ Bit(247, 4) = 1 /\ Bit(247, 5) = 1 /\ Bit(247, 6) = 1 /\ Bit(247, 7) = 1
  BY BitIs, SomeBytes, SMT
<1>. QED
  BY <1>1, <1>2, <1>3

\* A byte that has the bits of 247 is that or 255.
LEMMA AllButOne ==
  ASSUME NEW y \in Byte, \A b \in 0..7 : Bit(247, b) = 1 => Bit(255, b) = Bit(y, b)
  PROVE  y \in {247, 255}
<1>1. CASE Bit(y, 3) = 1
  <2>1. \A b \in 0..7 : Bit(y, b) = Bit(255, b)
    BY <1>1, Masks
  <2>2. PICK x \in Byte : x = 255
    BY SomeBytes
  <2>3. \A b \in 0..7 : Bit(y, b) = Bit(x, b)
    BY <2>1, <2>2, Zenon
  <2>4. y = x
    BY <2>3, SameBits, Zenon
  <2>. QED
    BY <2>2, <2>4
<1>2. CASE Bit(y, 3) # 1
  <2>1. Bit(y, 3) = 0
    <3>1. (y \div 8) % 2 \in 0..1
      BY ByteIs, SMT
    <3>. QED
      BY <1>2, <3>1, BitIs
  <2>2. Bit(247, 3) = 0
    BY BitIs, SomeBytes, SMT
  <2>3. \A b \in 0..7 : Bit(y, b) = Bit(247, b)
    BY <2>1, <2>2, Masks
  <2>4. PICK x \in Byte : x = 247
    BY SomeBytes
  <2>5. \A b \in 0..7 : Bit(y, b) = Bit(x, b)
    BY <2>3, <2>4, Zenon
  <2>6. y = x
    BY <2>5, SameBits
  <2>. QED
    BY <2>4, <2>6, Zenon
<1>. QED
  BY <1>1, <1>2

LEMMA MaskIs ==
  ASSUME NEW i \in 1..16
  PROVE  FromCidr(96)[i] = IF i <= 11 THEN 255 ELSE IF i = 12 THEN 247 ELSE 0
<1>1. OnesBytes(96) = 11
  BY DEF OnesBytes
<1>. QED
  BY <1>1 DEF FromCidr

LEMMA MappedIs ==
  ASSUME NEW i \in 1..12
  PROVE  ByteOf(Mapped(<<0, 0, 0, 0>>), i) = IF i <= 10 THEN 0 ELSE 255
<1> DEFINE m == Mapped(<<0, 0, 0, 0>>)
<1>1. m = <<0, 0, 0, 0, 0, 65535, 0, 0>>
  <2>1. m = <<0, 0, 0, 0, 0, 65535, Join(0, 0), Join(0, 0)>>
    BY SMT DEF Mapped
  <2>. QED
    BY <2>1, SMT DEF Join
<1>2. /\ m[1] = 0 /\ m[2] = 0 /\ m[3] = 0 /\ m[4] = 0 /\ m[5] = 0 /\ m[6] = 65535
  BY <1>1
<1> HIDE DEF m
<1>3. Bytes(0) = <<0, 0>> /\ Bytes(65535) = <<255, 255>>
  BY DEF Bytes
<1>4. CASE i <= 10
  <2>1. (i + 1) \div 2 \in 1..5
    BY <1>4
  <2>2. m[(i + 1) \div 2] = 0
    BY <1>2, <2>1
  <2>. QED
    BY <1>3, <1>4, <2>2 DEF ByteOf, m
<1>5. CASE ~(i <= 10)
  <2>1. (i + 1) \div 2 = 6
    BY <1>5
  <2>2. m[(i + 1) \div 2] = 65535
    BY <1>2, <2>1
  <2>. QED
    BY <1>3, <1>5, <2>2 DEF ByteOf, m
<1>. QED
  BY <1>4, <1>5

\* What the netmask asks of each byte.
LEMMA Taken ==
  ASSUME NEW a \in Address
  PROVE  IsMapped(a) <=> /\ \A i \in 1..10 : ByteOf(a, i) = 0
                         /\ ByteOf(a, 11) = 255 /\ ByteOf(a, 12) \in {247, 255}
<1> DEFINE m == Mapped(<<0, 0, 0, 0>>)
<1>1. ASSUME NEW i \in 1..16 PROVE ByteOf(a, i) \in Byte
  <2>1. a[(i + 1) \div 2] \in Pair
    BY Places, AddressIs
  <2>. QED
    BY <2>1, TwoBytes DEF ByteOf
<1>2. IsMapped(a) <=>
        \A i \in 1..16, b \in 0..7 :
          Bit(FromCidr(96)[i], b) = 1 => Bit(ByteOf(m, i), b) = Bit(ByteOf(a, i), b)
  BY Zenon DEF IsMapped, Matches
<1> HIDE DEF m
<1>3. ASSUME NEW i \in 1..12 PROVE ByteOf(m, i) = IF i <= 10 THEN 0 ELSE 255
  BY MappedIs DEF m
<1>4. ASSUME IsMapped(a), NEW i \in 1..11 PROVE ByteOf(a, i) = ByteOf(m, i)
  <2>1. i \in 1..16 /\ i \in 1..12 /\ FromCidr(96)[i] = 255
    BY MaskIs
  <2>2. ASSUME NEW b \in 0..7 PROVE Bit(ByteOf(m, i), b) = Bit(ByteOf(a, i), b)
    <3>1. Bit(FromCidr(96)[i], b) = 1
      BY <2>1, Masks
    <3>2. \A j \in 1..16, c \in 0..7 :
            Bit(FromCidr(96)[j], c) = 1 => Bit(ByteOf(m, j), c) = Bit(ByteOf(a, j), c)
      BY <1>2, <1>4, Zenon
    <3>3. i \in 1..16
      BY <2>1
    <3>. QED
      BY <3>1, <3>2, <3>3
  <2>3. ByteOf(m, i) \in Byte
    BY <1>3, <2>1, SomeBytes
  <2>. QED
    BY <1>1, <2>1, <2>2, <2>3, SameBits
<1>5. ASSUME IsMapped(a) PROVE ByteOf(a, 12) \in {247, 255}
  <2>1. 12 \in 1..16 /\ FromCidr(96)[12] = 247 /\ ByteOf(m, 12) = 255
    BY <1>3, MaskIs
  <2>2. PICK i \in 1..16 : i = 12
    BY <2>1
  <2>3. ASSUME NEW b \in 0..7, Bit(247, b) = 1 PROVE Bit(255, b) = Bit(ByteOf(a, i), b)
    <3>1. Bit(FromCidr(96)[i], b) = 1
      BY <2>1, <2>2, <2>3, Zenon
    <3>2. Bit(ByteOf(m, i), b) = Bit(ByteOf(a, i), b)
      BY <1>2, <1>5, <3>1, Zenon
    <3>. QED
      BY <2>1, <2>2, <3>2, Zenon
  <2>4. ByteOf(a, i) \in {247, 255}
    BY <1>1, <2>3, AllButOne, Zenon
  <2>. QED
    BY <2>2, <2>4
<1>6. ASSUME \A i \in 1..10 : ByteOf(a, i) = 0, ByteOf(a, 11) = 255,
             ByteOf(a, 12) \in {247, 255}, NEW i \in 1..16, NEW b \in 0..7,
             Bit(FromCidr(96)[i], b) = 1
      PROVE  Bit(ByteOf(m, i), b) = Bit(ByteOf(a, i), b)
  <2>1. CASE i <= 11
    <3>1. ByteOf(m, i) = ByteOf(a, i)
      BY <1>3, <1>6, <2>1
    <3>. QED
      BY <3>1
  <2>2. CASE i = 12
    <3>1. FromCidr(96)[i] = 247 /\ ByteOf(m, i) = 255
      BY <1>3, <2>2, MaskIs
    <3>2. ByteOf(a, i) = 247 \/ ByteOf(a, i) = 255
      BY <1>6, <2>2
    <3>. QED
      BY <1>6, <3>1, <3>2, Masks
  <2>3. CASE i > 12
    <3>1. FromCidr(96)[i] = 0
      BY <2>3, MaskIs
    <3>2. Bit(0, b) = 0
      BY Masks
    <3>. QED
      BY <1>6, <3>1, <3>2
  <2>. QED
    BY <2>1, <2>2, <2>3
<1>7. ASSUME IsMapped(a)
      PROVE  (\A i \in 1..10 : ByteOf(a, i) = 0) /\ ByteOf(a, 11) = 255
  <2>1. \A i \in 1..11 : ByteOf(a, i) = ByteOf(m, i) /\ i \in 1..12
    BY <1>4, <1>7
  <2>2. \A i \in 1..11 : ByteOf(a, i) = IF i <= 10 THEN 0 ELSE 255
    BY <1>3, <2>1
  <2>. QED
    BY <2>2
<1>. QED
  BY <1>2, <1>5, <1>6, <1>7, Zenon

\* It takes the mapped addresses, but for the bit its mask leaves out.
THEOREM TakenForMappedCorrect == Spec => []TakenForMapped
<1>1. ASSUME NEW a \in Address, NEW k \in 1..8
      PROVE  \E x, y \in Byte : /\ ByteOf(a, 2 * k - 1) = x /\ ByteOf(a, 2 * k) = y
                                  /\ Join(x, y) = a[k]
  <2>1. a[k] \in Pair
    BY AddressIs
  <2>2. ByteOf(a, 2 * k - 1) = Bytes(a[k])[1] /\ ByteOf(a, 2 * k) = Bytes(a[k])[2]
    BY Evens, Zenon DEF ByteOf
  <2>. QED
    BY <2>1, <2>2, TwoBytes, Zenon
<1>2. ASSUME NEW a \in Address
      PROVE  (\A i \in 1..10 : ByteOf(a, i) = 0) <=> \A k \in 1..5 : a[k] = 0
  <2>1. ASSUME \A i \in 1..10 : ByteOf(a, i) = 0, NEW k \in 1..5 PROVE a[k] = 0
    <3>1. k \in 1..8 /\ 2 * k - 1 \in 1..10 /\ 2 * k \in 1..10
      OBVIOUS
    <3>2. PICK x, y \in Byte : /\ ByteOf(a, 2 * k - 1) = x /\ ByteOf(a, 2 * k) = y
                                 /\ Join(x, y) = a[k]
      BY <1>1, <3>1, Zenon
    <3>3. x = 0 /\ y = 0
      BY <2>1, <3>1, <3>2, Zenon
    <3>. QED
      BY <3>2, <3>3, SMT DEF Join
  <2>2. ASSUME \A k \in 1..5 : a[k] = 0, NEW i \in 1..10 PROVE ByteOf(a, i) = 0
    <3>1. \E k \in 1..5 : i = 2 * k - 1 \/ i = 2 * k
      <4>1. (i + 1) \div 2 \in 1..5 /\ (i = 2 * ((i + 1) \div 2) - 1 \/ i = 2 * ((i + 1) \div 2))
        OBVIOUS
      <4>. QED
        BY <4>1
    <3>2. PICK k \in 1..5 : i = 2 * k - 1 \/ i = 2 * k
      BY <3>1
    <3>3. k \in 1..8 /\ a[k] = 0
      BY <2>2
    <3>4. PICK x, y \in Byte : /\ ByteOf(a, 2 * k - 1) = x /\ ByteOf(a, 2 * k) = y
                                 /\ Join(x, y) = a[k]
      BY <1>1, <3>3, Zenon
    <3>6. x \in Int /\ 0 <= x /\ x < 256 /\ y \in Int /\ 0 <= y /\ y < 256
      BY ByteIs
    <3>5. x = 0 /\ y = 0
      BY <3>3, <3>4, <3>6, SMT DEF Join
    <3>. QED
      BY <3>2, <3>4, <3>5
  <2>. QED
    BY <2>1, <2>2, Zenon
<1>3. ASSUME NEW a \in Address
      PROVE  ByteOf(a, 11) = 255 /\ ByteOf(a, 12) \in {247, 255} <=> a[6] \in {65535, 65535 - 8}
  <2>1. PICK x, y \in Byte : ByteOf(a, 11) = x /\ ByteOf(a, 12) = y /\ Join(x, y) = a[6]
    <3>1. 6 \in 1..8 /\ 2 * 6 - 1 = 11 /\ 2 * 6 = 12
      OBVIOUS
    <3>. QED
      BY <1>1, <3>1
  <2>3. x \in Int /\ 0 <= x /\ x < 256 /\ y \in Int /\ 0 <= y /\ y < 256
    BY ByteIs
  <2>2. x = 255 /\ y \in {247, 255} <=> Join(x, y) \in {65535, 65535 - 8}
    BY <2>3, SMT DEF Join
  <2>. QED
    BY <2>1, <2>2, SMT
<1>4. IInv => TakenForMapped
  <2>. SUFFICES ASSUME IInv, ip # <<>>
                PROVE  IsMapped(ip) <=> (\A k \in 1..5 : ip[k] = 0) /\ ip[6] \in {65535, 65535 - 8}
    BY DEF TakenForMapped
  <2>1. ip \in Address
    BY DEF IInv, TypeOK
  <2>2. IsMapped(ip) <=> /\ \A i \in 1..10 : ByteOf(ip, i) = 0
                         /\ ByteOf(ip, 11) = 255 /\ ByteOf(ip, 12) \in {247, 255}
    BY <2>1, Taken
  <2>3. (\A i \in 1..10 : ByteOf(ip, i) = 0) <=> \A k \in 1..5 : ip[k] = 0
    BY <1>2, <2>1
  <2>4. ByteOf(ip, 11) = 255 /\ ByteOf(ip, 12) \in {247, 255} <=> ip[6] \in {65535, 65535 - 8}
    BY <1>3, <2>1
  <2>. QED
    BY <2>2, <2>3, <2>4
<1>. QED
  BY <1>4, IInvHolds, PTL
==============================================================================
