----------------------------- MODULE DelimSearch -----------------------------
(***************************************************************************)
(* The search of AsyncImpl::readStringUntil (src/util/AsyncImpl.cpp): the  *)
(* first place in read_queue where the delimiter stands, and what the call *)
(* cuts off there.  Positions are 1-based; the code's iterator             *)
(* begin() + k is position k + 1.                                          *)
(***************************************************************************)
EXTENDS Integers, Sequences

\* delim stands in queue at position p: the inner loop leaves is_found set.
StandsAt(queue, delim, p) ==
    \A i \in 1..Len(delim) : queue[p + i - 1] = delim[i]

\* Not the code: a loop that goes on to where the delimiter stands at the end.
VisitedToEnd(queue, delim) == 1..(Len(queue) + 1 - Len(delim))

\* The positions the outer loop visits: from begin() up to, and without,
\* end = cend() - delim_size.
Visited(queue, delim) == 1..(Len(queue) - Len(delim))

Hits(queue, delim) == {p \in Visited(queue, delim) : StandsAt(queue, delim, p)}

\* Where the outer loop breaks; none when the call returns the null pointer.
FirstHit(queue, delim) ==
    {p \in Hits(queue, delim) : \A q \in Hits(queue, delim) : p <= q}

\* What erase(begin, found + delim_size) takes out when found is position p ...
CutLength(p, delim) == p - 1 + Len(delim)

\* Not the code: an erase() that takes one byte too many.
RemainderShort(queue, p, delim) == SubSeq(queue, p + Len(delim) + 1, Len(queue))

\* ... and what it leaves.
Remainder(queue, p, delim) == SubSeq(queue, p + Len(delim), Len(queue))
------------------------------------------------------------------------------
(* The reference: a delimiter read so far, wherever it stands.             *)

Occurrences(queue, delim) ==
    {p \in 1..(Len(queue) + 1 - Len(delim)) : StandsAt(queue, delim, p)}

Occurs(queue, delim) == Len(delim) <= Len(queue) /\ Occurrences(queue, delim) # {}
==============================================================================
