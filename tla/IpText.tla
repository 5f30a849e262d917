------------------------------- MODULE IpText --------------------------------
(***************************************************************************)
(* The class ip (src/util/ip.cpp): sixteen bytes read from a text and      *)
(* written to one.  The bytes are taken in pairs, the eight numbers that a *)
(* text separates by colons.  The text of a number is the number; what the *)
(* places of colons and dots mean is kept.                                 *)
(***************************************************************************)
EXTENDS Integers, Sequences

CONSTANTS
    Texts,    \* texts the program is given
    Strings,  \* strings of bytes it is given
    Behind    \* what memory that holds no number may be read as

Byte == 0..2^8 - 1
Pair == 0..2^16 - 1
Join(high, low) == high * 256 + low
Address == [1..8 -> Pair]

\* Between two colons there is a number or nothing.
Empty == -1
Segment == Pair \cup {Empty}
Empties(n) == [k \in 1..n |-> Empty]

\* A text: what its colons separate, and the numbers its dots do, if any.
Text(segments, quad) == [segments |-> segments, quad |-> quad]
Quad == [1..4 -> Byte]

\* Between colons are numbers of four digits at most, between dots bytes.
ASSUME WorldAssumption ==
    /\ Texts \subseteq [segments : Seq(Segment), quad : Quad \cup {<<>>}]
    /\ Strings \subseteq Seq(Byte)
    /\ Behind \subseteq Pair

VARIABLES
    step,   \* how far the program is
    text,   \* the text read last, or written
    ip,     \* the address, <<>> when the constructor has thrown
    again   \* the address read back from what was written

vars == <<step, text, ip, again>>
------------------------------------------------------------------------------
(* Mistakes one could make in the definitions below: what the properties   *)
(* must notice.  No behaviour of Spec uses them.                           *)

\* The missing numbers put behind the others.
ExpandedAtEnd(segments) ==
    LET gaps == {k \in 2..Len(segments) : segments[k] = Empty}
        gap == CHOOSE k \in gaps : \A j \in gaps : k <= j
    IN  IF gaps = {} THEN segments
        ELSE SubSeq(segments, 1, gap - 1) \o SubSeq(segments, gap + 1, Len(segments))
               \o Empties(9 - Len(segments))

\* A run that reaches the end written without its second colon.
ElisionOneColon(run) == Empties(1 + (IF run.first = 1 THEN 1 ELSE 0))

\* Runs compared by >=: the last of the longest.
LongestLast(runs) ==
    CHOOSE r \in runs : \A q \in runs :
        \/ r.last - r.first > q.last - q.first
        \/ r.last - r.first = q.last - q.first /\ r.first >= q.first

\* Whole bytes of ones while eight bits are left.
OnesBytesFull(cidr) == cidr \div 8

\* One number too few inserted.
ExpandedShort(segments) ==
    LET gaps == {k \in 2..Len(segments) : segments[k] = Empty}
        gap == CHOOSE k \in gaps : \A j \in gaps : k <= j
    IN  IF gaps = {} THEN segments
        ELSE SubSeq(segments, 1, gap - 1) \o Empties(8 - Len(segments))
               \o SubSeq(segments, gap + 1, Len(segments))
------------------------------------------------------------------------------
(* ip(const char* ): a text with three dots is an IPv4 address, whatever   *)
(* its colons say; one with two to eight colons is an IPv6 address, and    *)
(* any other is refused.                                                   *)

Mapped(quad) ==
    <<0, 0, 0, 0, 0, 65535, Join(quad[1], quad[2]), Join(quad[3], quad[4])>>

\* hex_pairs: the first empty segment behind a colon stands for the numbers
\* that are missing, each later one for a zero.
Expanded(segments) ==
    LET gaps == {k \in 2..Len(segments) : segments[k] = Empty}
        gap == CHOOSE k \in gaps : \A j \in gaps : k <= j
    IN  IF gaps = {} THEN segments
        ELSE SubSeq(segments, 1, gap - 1) \o Empties(9 - Len(segments))
               \o SubSeq(segments, gap + 1, Len(segments))

\* input_hex_pair.
Number(segment) == IF segment = Empty THEN 0 ELSE segment

\* What the first eight of hex_pairs are read as, when there may be fewer.
Pairs(pairs) ==
    {[k \in 1..8 |-> IF k <= Len(pairs) THEN Number(pairs[k]) ELSE rest[k]] :
        rest \in [Len(pairs) + 1..8 -> Behind]}

Readings(t) ==
    CASE t.quad # <<>> -> {Mapped(t.quad)}
      [] t.quad = <<>> /\ Len(t.segments) - 1 \in 2..8 -> Pairs(Expanded(t.segments))
      [] OTHER -> {<<>>}

\* ip(const std::string& ): sixteen bytes, or the four of an IPv4 address.
FromBytes(d) ==
    CASE Len(d) = 16 -> [k \in 1..8 |-> Join(d[2 * k - 1], d[2 * k])]
      [] Len(d) = 4 -> Mapped(d)
      [] OTHER -> <<>>
------------------------------------------------------------------------------
(* to_string.                                                              *)

\* The runs of zeros that a number follows: the loop closes these.
InnerRuns(a) ==
    {r \in [first : 1..8, last : 1..8] :
        /\ r.first <= r.last /\ r.last < 8
        /\ \A k \in r.first..r.last : a[k] = 0
        /\ r.first = 1 \/ a[r.first - 1] # 0
        /\ a[r.last + 1] # 0}

\* ... keeping the first of the longest.
Longest(runs) ==
    CHOOSE r \in runs : \A q \in runs :
        \/ r.last - r.first > q.last - q.first
        \/ r.last - r.first = q.last - q.first /\ r.first <= q.first

\* A run still open when the loop ends is taken, however short.
OpenRuns(a) ==
    {r \in [first : 1..8, last : {8}] :
        /\ \A k \in r.first..8 : a[k] = 0
        /\ r.first = 1 \/ a[r.first - 1] # 0}

Chosen(a) == IF OpenRuns(a) # {} THEN OpenRuns(a) ELSE {Longest(r) : r \in {InnerRuns(a)} \ {{}}}

\* What stands for the run: the segments that join() makes "::" of.
Elision(run) ==
    Empties(1 + (IF run.first = 1 THEN 1 ELSE 0) + (IF run.last = 8 THEN 1 ELSE 0))

Segments(a) ==
    IF Chosen(a) = {} THEN a
    ELSE LET run == CHOOSE r \in Chosen(a) : TRUE
         IN  SubSeq(a, 1, run.first - 1) \o Elision(run) \o SubSeq(a, run.last + 1, 8)

Bytes(p) == <<p \div 256, p % 256>>

\* mapped is the answer of netmask::ipv4_map() == *this.
Printed(a, mapped) ==
    IF mapped THEN Text(<<>>, Bytes(a[7]) \o Bytes(a[8]))
    ELSE Text(Segments(a), <<>>)
------------------------------------------------------------------------------
(* netmask.                                                                *)

\* ip_from_cidr: whole bytes of ones while more than eight bits are left,
\* then ~ of the bits left.
OnesBytes(cidr) == IF cidr = 0 THEN 0 ELSE (cidr - 1) \div 8
FromCidr(cidr) ==
    [i \in 1..16 |-> IF i <= OnesBytes(cidr) THEN 255
                     ELSE IF i = OnesBytes(cidr) + 1
                     THEN 255 - (cidr - 8 * OnesBytes(cidr)) ELSE 0]

ByteOf(a, i) == Bytes(a[(i + 1) \div 2])[IF i % 2 = 1 THEN 1 ELSE 2]
Value(a) == [i \in 1..16 |-> ByteOf(a, i)]
Weights == <<1, 2, 4, 8, 16, 32, 64, 128>>
Bit(byte, b) == (byte \div Weights[b + 1]) % 2

\* netmask(a, cidr) == b, as long as what its two references name exists.
Matches(a, cidr, b) ==
    \A i \in 1..16, bit \in 0..7 :
        Bit(FromCidr(cidr)[i], bit) = 1 => Bit(ByteOf(a, i), bit) = Bit(ByteOf(b, i), bit)

\* netmask::ipv4_map() == a.
IsMapped(a) == Matches(Mapped(<<0, 0, 0, 0>>), 96, a)
------------------------------------------------------------------------------
Init ==
    /\ step = "given" /\ text \in Texts
    /\ ip = <<>> /\ again = <<>>

Read ==
    /\ step = "given" /\ step' = "read"
    /\ ip' \in Readings(text)
    /\ UNCHANGED <<text, again>>

\* A text is none of the bytes' business.
ReadBytes ==
    /\ step = "given" /\ step' = "taken"
    /\ \E d \in Strings : ip' = FromBytes(d)
    /\ UNCHANGED <<text, again>>

\* Both references of the netmask that ipv4_map() returns are to temporaries
\* that are gone: == reads what is in their place, which may be anything.
Write ==
    /\ step \in {"read", "taken"} /\ ip # <<>> /\ step' = "written"
    /\ \E mapped \in BOOLEAN : text' = Printed(ip, mapped)
    /\ UNCHANGED <<ip, again>>

ReadBack ==
    /\ step = "written" /\ step' = "again"
    /\ again' \in Readings(text)
    /\ UNCHANGED <<text, ip>>

\* The bytes of value() in place of the text.
Copy ==
    /\ step \in {"read", "taken"} /\ ip # <<>> /\ step' = "copied"
    /\ again' = FromBytes(Value(ip))
    /\ UNCHANGED <<text, ip>>

Next == Read \/ ReadBytes \/ Write \/ ReadBack \/ Copy

Spec == Init /\ [][Next]_vars
------------------------------------------------------------------------------
\* A text with "::" for the numbers between left and right.
Compressed(left, right) ==
    (IF left = <<>> THEN Empties(1) ELSE left) \o Empties(1)
        \o (IF right = <<>> THEN Empties(1) ELSE right)

\* An address is eight numbers of sixteen bits, and a text in dots four bytes.
TypeOK ==
    /\ step \in {"given", "read", "taken", "written", "again", "copied"}
    /\ text.quad = <<>> \/ text.quad \in Quad
    /\ \A k \in 1..Len(text.segments) : text.segments[k] \in Segment
    /\ ip = <<>> \/ ip \in Address
    /\ again = <<>> \/ again \in Address

\* However many numbers stand before and after it, "::" is read as the zeros
\* that are missing there.
Numbered(segments) == \A k \in 1..Len(segments) : segments[k] # Empty
ReadsAsMeant ==
    step = "read" /\ text.quad = <<>> =>
        /\ Len(text.segments) = 8 /\ Numbered(text.segments) => ip = text.segments
        /\ \A l, r \in 0..Len(text.segments) - 1 :
             LET left == SubSeq(text.segments, 1, l)
                 right == SubSeq(text.segments, Len(text.segments) - r + 1, Len(text.segments))
             IN  l + r <= 7 /\ Numbered(left) /\ Numbered(right)
                     /\ text.segments = Compressed(left, right) =>
                 ip = left \o [k \in 1..8 - l - r |-> 0] \o right

\* Of a text that leaves out a number anywhere behind its first colon, no
\* number is read from behind hex_pairs, however many colons it has and however
\* many numbers it leaves out.
ReadsInside ==
    step = "read" /\ text.quad = <<>> /\ ip # <<>> /\ ~Numbered(Tail(text.segments)) =>
        Readings(text) = {ip}

\* What to_string writes with colons, and what value() gives, is read back as
\* the same address, wherever the text elides.
ReadsBack ==
    (step = "again" /\ text.quad = <<>>) \/ step = "copied" => again = ip

\* to_string elides a run of zeros or, of several, the longest: of those the
\* first.  Of an address whose last number is zero it elides the last run.
ZeroRuns(a) ==
    {r \in [first : 1..8, last : 1..8] :
        r.first <= r.last /\ \A k \in r.first..r.last : a[k] = 0}
Elided(a, run, segments) ==
    segments = Compressed(SubSeq(a, 1, run.first - 1), SubSeq(a, run.last + 1, 8))
Better(q, run) ==
    \/ q.last - q.first > run.last - run.first
    \/ q.last - q.first = run.last - run.first /\ q.first < run.first
ElidesBest ==
    step = "written" /\ text.quad = <<>> /\ ZeroRuns(ip) # {} =>
        \E run \in ZeroRuns(ip) :
            /\ Elided(ip, run, text.segments)
            /\ \A q \in ZeroRuns(ip) : Better(q, run) => ip[8] = 0 /\ run.last = 8

\* The netmask of the mapped addresses, where its bytes are still there, takes
\* those and no others, but for a bit that its mask of 96 bits leaves out.
TakenForMapped ==
    ip # <<>> =>
        (IsMapped(ip) <=> (\A k \in 1..5 : ip[k] = 0) /\ ip[6] \in {65535, 65535 - 8})

\* The inductive invariant behind the first four: where the address and the
\* text come from.
Came ==
    /\ step \in {"given", "read"} => text \in Texts
    /\ step = "read" => ip \in Readings(text)
    /\ step \in {"written", "again"} =>
           ip # <<>> /\ \E mapped \in BOOLEAN : text = Printed(ip, mapped)
    /\ step = "again" => again \in Readings(text)
    /\ step = "copied" => ip # <<>> /\ again = FromBytes(Value(ip))
==============================================================================
