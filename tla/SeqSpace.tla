------------------------------ MODULE SeqSpace ------------------------------
(***************************************************************************)
(* RTP sequence numbers: a circle of SeqSize values (2^16 in the code) on    *)
(* which `wrapping_sub` measures the distance travelled clockwise.  The     *)
(* packets of one access unit lie within half of the circle, so that one of *)
(* them, the anchor, is at distance less than Half from all the others.     *)
(***************************************************************************)
EXTENDS Integers, FiniteSets

CONSTANT SeqSize

ASSUME SeqSizeAssumption == SeqSize \in Nat /\ SeqSize > 1

SeqNo == 0 .. SeqSize - 1

Half == SeqSize \div 2

\* `a.wrapping_sub(b)`: how far a lies above b.
WSub(a, b) == (a - b) % SeqSize

\* `a.wrapping_add(k)`.
WAdd(a, k) == (a + k) % SeqSize

\* The candidates from which every member of s is less than half a turn away.
Anchored(s) == {c \in s : \A q \in s : WSub(q, c) < Half}

\* The lowest member of s.  The code falls back to the packet that arrived
\* first when no candidate qualifies, which takes an access unit of half the
\* sequence space: such a unit is far above the size cap.
FirstSeq(s) == IF Anchored(s) # {} THEN CHOOSE c \in Anchored(s) : TRUE
                                   ELSE CHOOSE c \in s : TRUE

\* The highest member of s, seen from its lowest.
LastSeq(s) ==
    LET first == FirstSeq(s)
    IN  CHOOSE q \in s : \A r \in s : WSub(r, first) <= WSub(q, first)

\* The sequence numbers between the lowest and the highest that s lacks.
Missing(s) ==
    LET first == FirstSeq(s)
        span  == WSub(LastSeq(s), first)
    IN  {q \in SeqNo : WSub(q, first) < span} \ s

\* The members of s with nothing of s strictly between them, in order.
Neighbours(s) ==
    LET first       == FirstSeq(s)
        Below(x, y) == WSub(x, first) < WSub(y, first)
    IN  {n \in s \X s : Below(n[1], n[2]) /\ ~ \E z \in s : Below(n[1], z) /\ Below(z, n[2])}

\* A variant that starts each range at the last packet held.
MissingRangesFromHeld(s) ==
    {<<n[1], WSub(n[2], 1)>> : n \in {m \in Neighbours(s) : WSub(m[2], m[1]) > 1}}

\* The missing numbers as inclusive ranges, one per gap: what a NACK names.
MissingRanges(s) ==
    {<<WAdd(n[1], 1), WSub(n[2], 1)>> :
        n \in {m \in Neighbours(s) : WSub(m[2], m[1]) > 1}}

\* The sequence numbers of an inclusive range.
Covered(r) == {q \in SeqNo : WSub(q, r[1]) <= WSub(r[2], r[1])}
=============================================================================
