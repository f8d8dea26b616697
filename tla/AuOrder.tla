------------------------------- MODULE AuOrder -------------------------------
(***************************************************************************)
(* What the decoder needs of the assembler: the frames it is told about     *)
(* come in decode order, which is timestamp order, and each at most once.   *)
(***************************************************************************)
EXTENDS Integers

CONSTANTS TsSize, None

VARIABLES
    last,   \* timestamp of the frame resolved last
    odd     \* whether an odd number of them was resolved: a second one of the
            \* same frame is a step too

Later(t, r) == LET d == (t - r) % TsSize IN d # 0 /\ d < TsSize \div 2

Init == last = None /\ odd = FALSE

Resolve(t) ==
    /\ last # None => Later(t, last)
    /\ last' = t
    /\ odd' = ~odd

Next == \E t \in 0 .. TsSize - 1 : Resolve(t)

Spec == Init /\ [][Next]_<<last, odd>>
=============================================================================
