----------------------------- MODULE VersionCode -----------------------------
(***************************************************************************)
(* Versions of the firmware (src/util/version.cpp): how one is read and    *)
(* how two are compared.                                                   *)
(*                                                                         *)
(* A text is what its dots separate: numbers, or words that are none.      *)
(***************************************************************************)
EXTENDS Integers, Sequences

\* A component is a uint16_t.
Codes == 65536
Code == 0..Codes - 1
Version == Seq(Code) \ {<<>>}

\* atoi makes 0 of a word, the empty one included.
Word == -1
Text == Seq(Nat \cup {Word}) \ {<<>>}

------------------------------------------------------------------------------
(* Mistakes one could make in the definitions below: what the properties   *)
(* must notice.  No definition below uses them.                            *)

\* Components kept as int.
ParsedWide(t) == [k \in 1..Len(t) |-> IF t[k] = Word THEN 0 ELSE t[k]]

\* Only the first components compared.
LessFirst(a, b) == a[1] < b[1] \/ Len(b) <= Len(a)

\* At the end, whether a has been used up.
LessUsedUp(a, b) ==
    \/ \E k \in 1..Len(a) : k <= Len(b) /\ a[k] < b[k]
    \/ Len(a) <= Len(b)
------------------------------------------------------------------------------
\* The constructor: each component is cut to sixteen bits.
Parsed(t) == [k \in 1..Len(t) |-> IF t[k] = Word THEN 0 ELSE t[k] % Codes]

\* operator<: the loop looks for a smaller component and passes a greater
\* one; when it finds none, the answer is whether b has been used up.
Less(a, b) ==
    \/ \E k \in 1..Len(a) : k <= Len(b) /\ a[k] < b[k]
    \/ Len(b) <= Len(a)
------------------------------------------------------------------------------
\* a is older than b: at the first component in which they differ, or by
\* being an initial part of it.
Common(a, b) == {k \in 1..Len(a) : k <= Len(b)}
Agree(a, b, n) == \A k \in 1..n - 1 : a[k] = b[k]
OlderAt(a, b, n) == a[n] < b[n] /\ Agree(a, b, n)
ShortOf(a, b) == Len(a) < Len(b) /\ Agree(a, b, Len(a) + 1)
Older(a, b) == (\E n \in Common(a, b) : OlderAt(a, b, n)) \/ ShortOf(a, b)
==============================================================================
