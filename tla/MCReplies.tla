------------------------------ MODULE MCReplies ------------------------------
(* Values for the constants of Replies.                                    *)
EXTENDS Replies

\* What a key may hold: what the firmware sends there, and what it might.
Answers ==
    {Null, Number(-2), Number(0), Number(9), Number(10), Number(256), Number(MaxUInt + 1),
     Number(MaxInt64 + 1), Number(-MaxInt64 - 2), Word(Letter.none), Word(Letter.b),
     Word(Letter.digit), Bool(TRUE), Bool(FALSE), List}

Keys(c) == {Fields[c][m].key : m \in DOMAIN Fields[c]}
Compact(c) == {Fields[c][m].compact : m \in DOMAIN Fields[c]} \ Keys(c)

\* A document with a usual value under each key.
Usual(keys) == [key \in keys |-> IF key \in {"mode", "ba", "BeerAnn"} THEN Word(Letter.p) ELSE Number(3)]

\* One key in a document of usual values may hold anything, or be missing; so
\* may a compact key beside its long form.
Around(keys, k) ==
    {Document("object", [Usual(keys) EXCEPT ![k] = v]) : v \in Answers}
    \cup {Document("object", Usual(keys \ {k}))}

MCDocuments ==
    [c \in Class |->
        UNION {Around(Keys(c), k) : k \in Keys(c)}
        \cup UNION {Around(Compact(c), k) : k \in Compact(c)}
        \cup UNION {Around(Keys(c) \cup Compact(c), k) : k \in Compact(c)}
        \cup {Document(root, <<>>) : root \in {"object", "null", "other"}}]
==============================================================================
