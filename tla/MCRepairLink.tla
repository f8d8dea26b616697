---------------------------- MODULE MCRepairLink ----------------------------
EXTENDS RepairLink

\* One packet: only the first of a frame starts a NAL, the last is marked.
Part(q, t, n, i) ==
    [seq |-> (q + i) % SeqSize, ts |-> t, marker |-> i = n - 1, start |-> i = 0,
     idr |-> FALSE, good |-> TRUE, size |-> 1]

Parts(q, t, n) == [i \in 1 .. n |-> Part(q, t, n, i - 1)]

\* A frame of four packets and one of n; sequence numbers run from 1, timestamps
\* from the last before the wrap.
FourAnd(n) == Parts(1, TsSize - 1, 4) \o Parts(5, 0, n)

FourTwo == FourAnd(2)

\* Both frames longer than the two packets a leading loss counts.
FourThree == FourAnd(3)

PacketsOf(s) == {s[i] : i \in DOMAIN s}

FourTwoPackets == PacketsOf(FourTwo)

FourThreePackets == PacketsOf(FourThree)

ASSUME StreamIsOrderly == OrderlyStream /\ SentInOrder
=============================================================================
