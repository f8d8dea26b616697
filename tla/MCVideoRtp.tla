----------------------------- MODULE MCVideoRtp -----------------------------
EXTENDS VideoRtp

\* Frame number t (its timestamp) of n packets from sequence number q on.
Part(q, t, n, i, idr) ==
    [seq |-> (q + i) % SeqSize, ts |-> t, marker |-> i = n - 1, start |-> i = 0,
     idr |-> idr, good |-> TRUE, size |-> 1]

Parts(q, t, n, idr) == [i \in 1 .. n |-> Part(q, t, n, i - 1, idr)]

\* IDR, two frames that refer to it, the first of two packets, then IDR and one more.
Singles == Parts(1, 0, 1, TRUE) \o Parts(2, 1, 2, FALSE) \o Parts(4, 2, 1, FALSE)
             \o Parts(5, 3, 1, TRUE) \o Parts(6, 4, 1, FALSE)

\* A frame of one packet that cannot be depacketized.
Malformed(q, t) == <<[Part(q, t, 1, 0, FALSE) EXCEPT !.good = FALSE]>>

\* Two frames in a row that can be damaged, the second an IDR; a malformed one, an
\* ordinary one.
Doubles == Parts(1, 0, 2, FALSE) \o Parts(3, 1, 2, TRUE) \o Malformed(5, 2) \o Parts(6, 3, 1, FALSE)

PacketsOf(s) == {s[i] : i \in DOMAIN s}
DoublesPackets == PacketsOf(Doubles)
SinglesPackets == PacketsOf(Singles)

NoSps == [t \in Ts |-> "none"]

\* The stream starts too large for the decoder and fits from its second frame on.
Shrinks == [t \in Ts |-> CASE t = 0 -> "large" [] t = 1 -> "fits" [] OTHER -> "none"]
=============================================================================
