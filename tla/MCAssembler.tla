---------------------------- MODULE MCAssembler ----------------------------
(* Small streams for the assembler.                                         *)
EXTENDS Assembler

\* A packet of an ordinary frame: only the first one starts a NAL, the last
\* one carries the marker.
Fragment(q, t, first, last) ==
    [seq |-> q, ts |-> t, marker |-> q = last, start |-> q = first,
     idr |-> FALSE, good |-> TRUE, size |-> 1]

\* The frame with timestamp t whose packets are numbered from first on.
FrameOf(t, first, n) ==
    {Fragment((first + i) % SeqSize, t, first % SeqSize, (first + n - 1) % SeqSize) : i \in 0 .. n - 1}

\* A frame above the size limit: two packets of it are too much already.
HugeFrameOf(t, first, n) == {[p EXCEPT !.size = MaxAuSize] : p \in FrameOf(t, first, n)}

\* Two frames of three packets, around the wrap of sequence numbers and
\* timestamps, and a huge one.
WrapStream ==
    FrameOf(TsSize - 1, SeqSize - 2, 3) \cup FrameOf(0, 1, 2) \cup HugeFrameOf(1, 3, 3)

=============================================================================
