------------------------- MODULE AccessUnits_proofs -------------------------
(***************************************************************************)
(* Two things the proofs about the assembler share.                        *)
(*                                                                         *)
(* First, facts about the sequence-number circle: distances are sequence   *)
(* numbers, every set of packets has a lowest and a highest member, and a  *)
(* set with both ends of an arc shorter than half a turn and nothing       *)
(* missing is the whole arc.                                               *)
(*                                                                         *)
(* Then, every method of the assembler preserves a typing of its state by  *)
(* a set U of units and a set O of outcomes, whatever U and O are, as long *)
(* as what is done to one unit stays in them (Closed).  With the types of  *)
(* AccessUnits this is type correctness; with units that lie within their  *)
(* frame it is what Assembler_proofs needs to show completeness.           *)
(***************************************************************************)
EXTENDS AccessUnits, WellFoundedInduction, TLAPS

\* `wrapping_sub` as a difference of integers.
LEMMA WSubValue ==
  ASSUME NEW a \in SeqNo, NEW b \in SeqNo
  PROVE  /\ WSub(a, b) \in SeqNo
         /\ WSub(a, b) = IF a >= b THEN a - b ELSE a - b + SeqSize
BY SeqSizeAssumption DEF WSub, SeqNo

\* `wrapping_add` as a sum of integers.
LEMMA WAddValue ==
  ASSUME NEW a \in SeqNo, NEW k \in SeqNo
  PROVE  /\ WAdd(a, k) \in SeqNo
         /\ WAdd(a, k) = IF a + k < SeqSize THEN a + k ELSE a + k - SeqSize
BY SeqSizeAssumption DEF WAdd, SeqNo

\* Two members at the same distance from a third are equal.
LEMMA WSubInjective ==
  ASSUME NEW a \in SeqNo, NEW b \in SeqNo, NEW f \in SeqNo, WSub(a, f) = WSub(b, f)
  PROVE  a = b
<1>1. /\ WSub(a, f) = IF a >= f THEN a - f ELSE a - f + SeqSize
      /\ WSub(b, f) = IF b >= f THEN b - f ELSE b - f + SeqSize
  BY WSubValue
<1>2. (IF a >= f THEN a - f ELSE a - f + SeqSize) = (IF b >= f THEN b - f ELSE b - f + SeqSize)
  BY <1>1
<1> QED BY <1>2, SeqSizeAssumption DEF SeqNo

\* Going there and coming back is one turn.
LEMMA RoundTrip ==
  ASSUME NEW a \in SeqNo, NEW b \in SeqNo, a # b
  PROVE  WSub(a, b) + WSub(b, a) = SeqSize
<1>1. /\ WSub(a, b) = IF a >= b THEN a - b ELSE a - b + SeqSize
      /\ WSub(b, a) = IF b >= a THEN b - a ELSE b - a + SeqSize
  BY WSubValue
<1> QED BY <1>1, SeqSizeAssumption DEF SeqNo

LEMMA NatMinimum ==
  ASSUME NEW T \in SUBSET Nat, T # {}
  PROVE  \E x \in T : \A y \in T : x <= y
<1>1. PICK x \in T : \A y \in T : ~(<<y, x>> \in OpToRel(<, Nat))
  BY NatLessThanWellFounded, WFMin
<1>2. \A y \in T : ~(y < x)
  BY <1>1 DEF OpToRel
<1> QED BY <1>2

\* A nonempty set of sequence numbers has a member furthest from f.
LEMMA FurthestExists ==
  ASSUME NEW s \in SUBSET SeqNo, s # {}, NEW f \in SeqNo
  PROVE  \E q \in s : \A r \in s : WSub(r, f) <= WSub(q, f)
<1> DEFINE T == {SeqSize - WSub(q, f) : q \in s}
<1>0. \A q \in s : WSub(q, f) \in Nat /\ WSub(q, f) < SeqSize
  <2>1. \A q \in s : q \in SeqNo
    OBVIOUS
  <2>2. \A q \in s : WSub(q, f) \in 0 .. SeqSize - 1
    BY <2>1, WSubValue DEF SeqNo
  <2> QED BY <2>2, SeqSizeAssumption
<1>1. T \subseteq Nat /\ T # {}
  BY <1>0, SeqSizeAssumption
<1>2. PICK x \in T : \A y \in T : x <= y
  BY <1>1, NatMinimum
<1>3. PICK q \in s : x = SeqSize - WSub(q, f)
  BY <1>2
<1>4. \A r \in s : SeqSize - WSub(q, f) <= SeqSize - WSub(r, f)
  BY <1>2, <1>3
<1>5. \A r \in s : WSub(r, f) <= WSub(q, f)
  BY <1>4, <1>0, SeqSizeAssumption
<1> QED BY <1>5

\* The ends of a set are members of it.
LEMMA EndsAreMembers ==
  ASSUME NEW s \in SUBSET SeqNo, s # {}
  PROVE  /\ FirstSeq(s) \in s
         /\ LastSeq(s) \in s
         /\ \A r \in s : WSub(r, FirstSeq(s)) <= WSub(LastSeq(s), FirstSeq(s))
<1>1. FirstSeq(s) \in s
  <2>1. CASE Anchored(s) # {}
    BY <2>1 DEF FirstSeq, Anchored
  <2>2. CASE Anchored(s) = {}
    BY <2>2 DEF FirstSeq
  <2> QED BY <2>1, <2>2
<1>2. \E q \in s : \A r \in s : WSub(r, FirstSeq(s)) <= WSub(q, FirstSeq(s))
  BY <1>1, FurthestExists
<1> QED BY <1>1, <1>2 DEF LastSeq

\* The lowest of a set within an arc shorter than half a turn is the start of
\* the arc, when the set has it: first_seq does not depend on arrival order.
LEMMA FirstOfArc ==
  ASSUME NEW s \in SUBSET SeqNo, NEW f \in s, \A q \in s : WSub(q, f) < Half
  PROVE  FirstSeq(s) = f
<1>1. f \in Anchored(s)
  BY DEF Anchored
<1>2. ASSUME NEW c \in Anchored(s) PROVE c = f
  <2>1. c \in s /\ WSub(f, c) < Half /\ WSub(c, f) < Half
    BY DEF Anchored
  <2>2. WSub(f, c) \in SeqNo /\ WSub(c, f) \in SeqNo
    BY <2>1, WSubValue
  <2>3. c # f => WSub(f, c) + WSub(c, f) = SeqSize
    BY <2>1, RoundTrip
  <2> QED BY <2>1, <2>2, <2>3, SeqSizeAssumption DEF Half, SeqNo
<1> QED BY <1>1, <1>2 DEF FirstSeq

\* The contiguity count of compute_holes: both ends and no hole make the arc.
LEMMA NoHoleIsWholeArc ==
  ASSUME NEW s \in SUBSET SeqNo, NEW f \in s, NEW n \in 0 .. Half - 1,
         NEW l \in s, WSub(l, f) = n,
         \A q \in s : WSub(q, f) <= n,
         Missing(s) = {}
  PROVE  s = {q \in SeqNo : WSub(q, f) <= n}
<1>0. Half \in Nat
  BY SeqSizeAssumption DEF Half
<1>1. \A q \in s : WSub(q, f) \in SeqNo /\ WSub(q, f) < Half
  BY <1>0, WSubValue, SeqSizeAssumption DEF SeqNo
<1>2. FirstSeq(s) = f
  BY <1>1, FirstOfArc
<1>3. WSub(LastSeq(s), f) = n
  <2>1. LastSeq(s) \in s /\ WSub(l, f) <= WSub(LastSeq(s), f)
    BY <1>2, EndsAreMembers
  <2>2. WSub(LastSeq(s), f) <= n /\ WSub(LastSeq(s), f) \in SeqNo
    BY <2>1, <1>1
  <2> QED BY <2>1, <2>2, <1>0, SeqSizeAssumption DEF SeqNo
<1>4. ASSUME NEW q \in SeqNo, WSub(q, f) <= n PROVE q \in s
  <2>1. CASE WSub(q, f) < n
    BY <2>1, <1>2, <1>3 DEF Missing
  <2>2. CASE WSub(q, f) = n
    BY <2>2, WSubInjective
  <2>3. WSub(q, f) \in SeqNo
    BY WSubValue
  <2> QED BY <2>1, <2>2, <2>3, <1>0, <1>4, SeqSizeAssumption DEF SeqNo
<1> QED BY <1>4

\* A single packet has no hole.
LEMMA OnePacketNoHole ==
  ASSUME NEW q \in SeqNo
  PROVE  Missing({q}) = {}
<1>1. FirstSeq({q}) = q /\ LastSeq({q}) = q
  BY EndsAreMembers
<1>2. WSub(q, q) = 0
  BY WSubValue DEF SeqNo
<1>3. \A r \in SeqNo : ~(WSub(r, q) < 0)
  BY WSubValue DEF SeqNo
<1> QED BY <1>1, <1>2, <1>3 DEF Missing

\* What lies strictly between a and b, seen from f, is in the range from the
\* one after a to the one before b, and nothing else is.
LEMMA StrictlyBetween ==
  ASSUME NEW a \in SeqNo, NEW b \in SeqNo, NEW f \in SeqNo, NEW q \in SeqNo,
         WSub(a, f) < WSub(b, f), WSub(b, a) > 1,
         WSub(q, WAdd(a, 1)) <= WSub(WSub(b, 1), WAdd(a, 1))
  PROVE  WSub(a, f) < WSub(q, f) /\ WSub(q, f) < WSub(b, f)
<1>1. 1 \in SeqNo
  BY SeqSizeAssumption DEF SeqNo
<1> DEFINE next == WAdd(a, 1)
           prev == WSub(b, 1)
<1>2. next \in SeqNo /\ next = IF a + 1 < SeqSize THEN a + 1 ELSE a + 1 - SeqSize
  BY <1>1, WAddValue
<1>3. prev \in SeqNo /\ prev = IF b >= 1 THEN b - 1 ELSE b - 1 + SeqSize
  BY <1>1, WSubValue
<1>4. WSub(q, next) <= WSub(prev, next)
  OBVIOUS
<1> HIDE DEF next, prev
<1>5. /\ WSub(q, next) = IF q >= next THEN q - next ELSE q - next + SeqSize
      /\ WSub(prev, next) = IF prev >= next THEN prev - next ELSE prev - next + SeqSize
      /\ WSub(b, a) = IF b >= a THEN b - a ELSE b - a + SeqSize
  BY <1>2, <1>3, WSubValue
<1>6. /\ WSub(a, f) = IF a >= f THEN a - f ELSE a - f + SeqSize
      /\ WSub(b, f) = IF b >= f THEN b - f ELSE b - f + SeqSize
      /\ WSub(q, f) = IF q >= f THEN q - f ELSE q - f + SeqSize
  BY WSubValue
<1>7. /\ SeqSize \in Nat /\ SeqSize > 1
      /\ a \in 0 .. SeqSize - 1 /\ b \in 0 .. SeqSize - 1 /\ f \in 0 .. SeqSize - 1
      /\ q \in 0 .. SeqSize - 1
  BY SeqSizeAssumption DEF SeqNo
<1> QED BY <1>2, <1>3, <1>4, <1>5, <1>6, <1>7

\* observe_holes: what a range of missing numbers names is missing.
LEMMA RangesNameMissing ==
  ASSUME NEW s \in SUBSET SeqNo, s # {}, NEW r \in MissingRanges(s)
  PROVE  Covered(r) \subseteq Missing(s)
<1> DEFINE first == FirstSeq(s)
<1>1. first \in s /\ LastSeq(s) \in s /\ \A x \in s : WSub(x, first) <= WSub(LastSeq(s), first)
  BY EndsAreMembers
<1>2. PICK n \in Neighbours(s) : WSub(n[2], n[1]) > 1 /\ r = <<WAdd(n[1], 1), WSub(n[2], 1)>>
  BY DEF MissingRanges
<1>3. /\ n[1] \in s /\ n[2] \in s
      /\ WSub(n[1], first) < WSub(n[2], first)
      /\ ~ \E z \in s : WSub(n[1], first) < WSub(z, first) /\ WSub(z, first) < WSub(n[2], first)
  BY <1>2 DEF Neighbours
<1> SUFFICES ASSUME NEW q \in Covered(r) PROVE q \in Missing(s)
  OBVIOUS
<1>4. q \in SeqNo /\ WSub(q, WAdd(n[1], 1)) <= WSub(WSub(n[2], 1), WAdd(n[1], 1))
  BY <1>2 DEF Covered
<1> HIDE DEF first
<1>5. WSub(n[1], first) < WSub(q, first) /\ WSub(q, first) < WSub(n[2], first)
  BY <1>1, <1>2, <1>3, <1>4, StrictlyBetween
<1>6. q \notin s
  BY <1>3, <1>5
<1>7. /\ WSub(n[2], first) <= WSub(LastSeq(s), first)
      /\ WSub(q, first) \in Int /\ WSub(n[2], first) \in Int /\ WSub(LastSeq(s), first) \in Int
  <2>1. first \in SeqNo /\ n[2] \in SeqNo /\ LastSeq(s) \in SeqNo
    BY <1>1, <1>3
  <2>2. WSub(q, first) \in SeqNo /\ WSub(n[2], first) \in SeqNo /\ WSub(LastSeq(s), first) \in SeqNo
    BY <1>4, <2>1, WSubValue
  <2>3. WSub(q, first) \in Int /\ WSub(n[2], first) \in Int /\ WSub(LastSeq(s), first) \in Int
    BY <2>2 DEF SeqNo
  <2>4. WSub(n[2], first) <= WSub(LastSeq(s), first)
    BY <1>1, <1>3
  <2> QED BY <2>3, <2>4
<1>8. WSub(q, first) < WSub(LastSeq(s), first)
  BY <1>5, <1>7
<1> QED BY <1>4, <1>6, <1>8 DEF Missing, first

\* A set within an arc shorter than half a turn starts at its member nearest to
\* the start of the arc, and what it lacks lies in the arc too.
LEMMA MissingInArc ==
  ASSUME NEW s \in SUBSET SeqNo, s # {}, NEW f \in SeqNo, NEW n \in 0 .. Half - 1,
         \A q \in s : WSub(q, f) <= n
  PROVE  \A q \in Missing(s) : q \in SeqNo /\ WSub(q, f) <= n
<1> DEFINE T == {WSub(q, f) : q \in s}
<1>0. Half \in Nat /\ 2 * Half <= SeqSize
  BY SeqSizeAssumption DEF Half
<1>1. \A q \in SeqNo, g \in SeqNo :
         WSub(q, g) \in 0 .. SeqSize - 1 /\ WSub(q, g) = IF q >= g THEN q - g ELSE q - g + SeqSize
  BY WSubValue DEF SeqNo
<1>2. T \in SUBSET Nat /\ T # {}
  BY <1>1
<1>3. PICK c \in s : \A q \in s : WSub(c, f) <= WSub(q, f)
  <2>1. PICK x \in T : \A y \in T : x <= y
    BY <1>2, NatMinimum
  <2> QED BY <2>1
<1>4. ASSUME NEW q \in SeqNo, WSub(c, f) <= WSub(q, f)
      PROVE  WSub(q, f) = WSub(c, f) + WSub(q, c)
  <2>1. c \in 0 .. SeqSize - 1 /\ q \in 0 .. SeqSize - 1 /\ f \in 0 .. SeqSize - 1
    BY DEF SeqNo
  <2> QED BY <1>1, <1>4, <2>1, SeqSizeAssumption
<1>5. \A q \in s : WSub(q, c) < Half
  BY <1>0, <1>1, <1>3, <1>4
<1>6. FirstSeq(s) = c
  BY <1>5, FirstOfArc
<1>7. LastSeq(s) \in s
  BY EndsAreMembers
<1>8. WSub(c, f) + WSub(LastSeq(s), c) <= n
  BY <1>3, <1>4, <1>7
<1> SUFFICES ASSUME NEW q \in Missing(s) PROVE q \in SeqNo /\ WSub(q, f) <= n
  OBVIOUS
<1>9. q \in SeqNo /\ WSub(q, c) < WSub(LastSeq(s), c)
  BY <1>6 DEF Missing
<1>10. WSub(q, f) = WSub(c, f) + WSub(q, c)
  <2>1. /\ c \in 0 .. SeqSize - 1 /\ q \in 0 .. SeqSize - 1 /\ f \in 0 .. SeqSize - 1
        /\ c \in SeqNo /\ LastSeq(s) \in SeqNo
    BY <1>7, <1>9 DEF SeqNo
  <2>2. WSub(c, f) + WSub(q, c) < SeqSize
    <3>1. WSub(c, f) \in SeqNo /\ WSub(q, c) \in SeqNo /\ WSub(LastSeq(s), c) \in SeqNo
      BY <1>9, <2>1, WSubValue
    <3>2. WSub(c, f) \in Int /\ WSub(q, c) \in Int /\ WSub(LastSeq(s), c) \in Int
      BY <3>1 DEF SeqNo
    <3> QED BY <1>0, <1>8, <1>9, <3>2, SeqSizeAssumption
  <2>3. /\ WSub(q, f) = IF q >= f THEN q - f ELSE q - f + SeqSize
        /\ WSub(c, f) = IF c >= f THEN c - f ELSE c - f + SeqSize
        /\ WSub(q, c) = IF q >= c THEN q - c ELSE q - c + SeqSize
    BY <1>1, <1>9, <2>1
  <2> QED BY <2>1, <2>2, <2>3, SeqSizeAssumption
<1>11. WSub(q, c) \in Int /\ WSub(c, f) \in Int /\ WSub(LastSeq(s), c) \in Int
  BY <1>1, <1>7, <1>9
<1> QED BY <1>0, <1>8, <1>9, <1>10, <1>11

-----------------------------------------------------------------------------
AssemblerOver(U, O, G) ==
    [cur : U \cup {None}, queue : Seq(O), lastClosed : SeqNo,
     prevClose : SeqNo, lastTs : Ts \cup {None},
     parked : [au : U, left : 0 .. GraceBudget, first : SeqNo] \cup {None},
     nacks : SUBSET (SeqNo \X SeqNo), graceEnabled : G]

\* What a method returns: the assembler after the call, and at most one outcome.
CallOver(U, O, G) ==
    [asm : AssemblerOver(U, O, G), out : {<<>>} \cup {<<o>> : o \in O}]

Marked(au) == [au EXCEPT !.marker = TRUE, !.age = 0]

Closed(U, O) ==
    /\ U \subseteq Au
    /\ \A p \in Packets : NewAu(p) \in U
    /\ \A au \in U, p \in Packets :
          p.ts = au.ts /\ p.seq \notin au.seqs => Absorb(au, p) \in U /\ RepairedAu(au, p) \in U
    /\ \A au \in U, p \in Packets :
          p.ts = au.ts /\ p.marker /\ p.seq \in au.seqs => Marked(au) \in U
    /\ \A au \in U, b \in BOOLEAN : [au EXCEPT !.reported = b] \in U
    /\ \A au \in U : Older(au) \in U
    /\ \A au \in U : Outcome(au, Verdict(au)) \in O /\ Outcome(au, "Discarded") \in O

LEMMA PacketType ==
  ASSUME NEW p \in Packets
  PROVE  p \in Packet
BY PacketAssumption

\* A packet changes its unit within the type of units.
LEMMA AuClosed ==
  Closed(Au, OutcomeType)
<1>0. 0 \in 0 .. FillWindow + 1
  BY TimingAssumption
<1>1. \A p \in Packets : NewAu(p) \in Au
  BY PacketType, TimingAssumption DEF NewAu, Packet, Au
<1>2. ASSUME NEW au \in Au, NEW p \in Packets, p.ts = au.ts
      PROVE  Absorb(au, p) \in Au /\ RepairedAu(au, p) \in Au
  <2>1. p \in Packet
    BY PacketType
  <2>2. au.seqs \cup {p.seq} \in (SUBSET SeqNo) \ {{}}
    BY <2>1 DEF Packet, Au
  <2>3. au.size + p.size \in Nat
    BY <2>1 DEF Packet, Au
  <2>4. (au.idr \/ p.idr) \in BOOLEAN /\ (au.good /\ p.good) \in BOOLEAN
    OBVIOUS
  <2>5. Absorb(au, p) \in Au
    BY <2>2, <2>3, <2>4 DEF Absorb, Au
  <2>6. /\ (Absorb(au, p).marker \/ p.marker) \in BOOLEAN
        /\ (Absorb(au, p).start \/ p.start) \in BOOLEAN
        /\ (IF p.marker THEN 0 ELSE Absorb(au, p).age) \in 0 .. FillWindow + 1
    BY <2>5, <1>0 DEF Au
  <2>7. RepairedAu(au, p) \in Au
    BY <2>5, <2>6 DEF RepairedAu, Au
  <2> QED BY <2>5, <2>7
<1>3. \A au \in Au : Marked(au) \in Au
  BY <1>0 DEF Marked, Au
<1>4. \A au \in Au, b \in BOOLEAN : [au EXCEPT !.reported = b] \in Au
  BY DEF Au
<1>5. \A au \in Au : Older(au) \in Au
  BY TimingAssumption DEF Older, Au
<1>6. \A au \in Au : Outcome(au, Verdict(au)) \in OutcomeType /\ Outcome(au, "Discarded") \in OutcomeType
  BY DEF Outcome, Verdict, Whole, Au, OutcomeType
<1> QED BY <1>1, <1>2, <1>3, <1>4, <1>5, <1>6 DEF Closed

-----------------------------------------------------------------------------
(* What the parts of the state are.                                         *)

LEMMA UnitEnds ==
  ASSUME NEW U, NEW O, Closed(U, O), NEW au \in U
  PROVE  /\ au \in Au
         /\ FirstSeq(au.seqs) \in SeqNo /\ LastSeq(au.seqs) \in SeqNo
         /\ MissingRanges(au.seqs) \subseteq SeqNo \X SeqNo
<1>1. au \in Au
  BY DEF Closed
<1>2. au.seqs \in SUBSET SeqNo /\ au.seqs # {}
  BY <1>1 DEF Au
<1>3. FirstSeq(au.seqs) \in SeqNo /\ LastSeq(au.seqs) \in SeqNo
  BY <1>2, EndsAreMembers
<1>4. 1 \in SeqNo
  BY SeqSizeAssumption DEF SeqNo
<1>5. \A n \in au.seqs \X au.seqs : <<WAdd(n[1], 1), WSub(n[2], 1)>> \in SeqNo \X SeqNo
  BY <1>2, <1>4, WAddValue, WSubValue
<1>6. MissingRanges(au.seqs) \subseteq SeqNo \X SeqNo
  BY <1>5 DEF MissingRanges, Neighbours
<1> QED BY <1>1, <1>3, <1>6

LEMMA NewAssemblerOver ==
  ASSUME NEW U, NEW O, NEW G, NEW g \in G
  PROVE  NewAssembler(g) \in AssemblerOver(U, O, G)
BY SeqSizeAssumption DEF NewAssembler, AssemblerOver, SeqNo

-----------------------------------------------------------------------------
(* The steps inside the methods.                                            *)

LEMMA CloseAuOver ==
  ASSUME NEW U, NEW O, NEW G, Closed(U, O), NEW a \in AssemblerOver(U, O, G), a.cur # None
  PROVE  /\ CloseAu(a) \in AssemblerOver(U, O, G)
         /\ CloseAu(a).cur = None
<1>1. a.cur \in U
  BY DEF AssemblerOver
<1>2. Outcome(a.cur, Verdict(a.cur)) \in O /\ LastSeq(a.cur.seqs) \in SeqNo /\ a.cur.ts \in Ts
  BY <1>1, UnitEnds DEF Closed, Au
<1>3. Append(a.queue, Outcome(a.cur, Verdict(a.cur))) \in Seq(O)
  BY <1>2 DEF AssemblerOver
<1> QED BY <1>2, <1>3 DEF CloseAu, AssemblerOver

LEMMA ReleaseParkedOver ==
  ASSUME NEW U, NEW O, NEW G, Closed(U, O), NEW a \in AssemblerOver(U, O, G), NEW au \in U
  PROVE  ReleaseParked(a, au) \in AssemblerOver(U, O, G)
<1>1. Outcome(au, Verdict(au)) \in O
  BY DEF Closed
<1>2. <<Outcome(au, Verdict(au))>> \o a.queue \in Seq(O)
  BY <1>1 DEF AssemblerOver
<1> QED BY <1>2 DEF ReleaseParked, AssemblerOver

LEMMA ParkOver ==
  ASSUME NEW U, NEW O, NEW G, NEW a \in AssemblerOver(U, O, G), NEW au \in U, NEW first \in SeqNo
  PROVE  /\ Park(a, au, first) \in AssemblerOver(U, O, G)
         /\ Park(a, au, first).cur = None
<1>1. GraceBudget \in 0 .. GraceBudget
  BY TimingAssumption
<1>2. [au |-> au, left |-> GraceBudget, first |-> first]
         \in [au : U, left : 0 .. GraceBudget, first : SeqNo]
  BY <1>1
<1> QED BY <1>2 DEF Park, AssemblerOver

LEMMA ExpireIfDueOver ==
  ASSUME NEW U, NEW O, NEW G, Closed(U, O), NEW a \in AssemblerOver(U, O, G)
  PROVE  ExpireIfDue(a) \in AssemblerOver(U, O, G)
<1>1. CASE a.parked # None /\ a.parked.left = 0
  <2>1. a.parked.au \in U
    BY <1>1 DEF AssemblerOver
  <2> QED BY <1>1, <2>1, ReleaseParkedOver DEF ExpireIfDue
<1>2. CASE ~(a.parked # None /\ a.parked.left = 0)
  BY <1>2 DEF ExpireIfDue
<1> QED BY <1>1, <1>2

LEMMA OneOutcome ==
  ASSUME NEW U, NEW O, NEW G, NEW a \in AssemblerOver(U, O, G), NEW o \in O
  PROVE  [asm |-> a, out |-> <<o>>] \in CallOver(U, O, G)
BY DEF CallOver

LEMMA SilentOver ==
  ASSUME NEW U, NEW O, NEW G, NEW a \in AssemblerOver(U, O, G)
  PROVE  Silent(a) \in CallOver(U, O, G)
BY DEF Silent, CallOver

LEMMA PollOutcomeOver ==
  ASSUME NEW U, NEW O, NEW G, NEW a \in AssemblerOver(U, O, G)
  PROVE  PollOutcome(a) \in CallOver(U, O, G)
<1>1. CASE a.parked = None /\ a.queue # <<>>
  <2>1. Tail(a.queue) \in Seq(O) /\ Head(a.queue) \in O
    BY <1>1 DEF AssemblerOver
  <2>2. [a EXCEPT !.queue = Tail(@)] \in AssemblerOver(U, O, G)
    BY <2>1 DEF AssemblerOver
  <2>3. PollOutcome(a) = [asm |-> [a EXCEPT !.queue = Tail(@)], out |-> <<Head(a.queue)>>]
    BY <1>1 DEF PollOutcome
  <2> QED BY <2>1, <2>2, <2>3, OneOutcome
<1>2. CASE ~(a.parked = None /\ a.queue # <<>>)
  <2>1. PollOutcome(a) = Silent(a)
    BY <1>2 DEF PollOutcome, Silent
  <2> QED BY <2>1, SilentOver
<1> QED BY <1>1, <1>2

LEMMA FillParkedOver ==
  ASSUME NEW U, NEW O, NEW G, Closed(U, O), NEW a \in AssemblerOver(U, O, G),
         NEW p \in Packets, FillsParked(a, p)
  PROVE  FillParked(a, p) \in AssemblerOver(U, O, G)
<1>1. /\ a.parked # None /\ a.parked.au \in U
      /\ p.ts = a.parked.au.ts /\ p.seq \notin a.parked.au.seqs
  BY DEF FillsParked, AssemblerOver
<1>2. RepairedAu(a.parked.au, p) \in U
  BY <1>1 DEF Closed
<1>3. CASE Whole(RepairedAu(a.parked.au, p))
  BY <1>2, <1>3, ReleaseParkedOver DEF FillParked
<1>4. CASE ~Whole(RepairedAu(a.parked.au, p))
  BY <1>1, <1>2, <1>4 DEF FillParked, AssemblerOver
<1> QED BY <1>3, <1>4

LEMMA ForceOutOver ==
  ASSUME NEW U, NEW O, NEW G, Closed(U, O), NEW a \in AssemblerOver(U, O, G), a.cur # None
  PROVE  /\ ForceOut(a) \in AssemblerOver(U, O, G)
         /\ ForceOut(a).cur = None
<1> DEFINE tail == MarkerlessTail(a.cur)
           b == [a EXCEPT !.nacks = IF tail THEN @ \cup MissingRanges(a.cur.seqs) ELSE @]
           au == [a.cur EXCEPT !.reported = @ \/ tail]
<1>1. a.cur \in U
  BY DEF AssemblerOver
<1>2. a.cur \in Au /\ FirstSeq(a.cur.seqs) \in SeqNo /\ MissingRanges(a.cur.seqs) \subseteq SeqNo \X SeqNo
  BY <1>1, UnitEnds
<1>3. b \in AssemblerOver(U, O, G)
  BY <1>2 DEF AssemblerOver
<1>4. (a.cur.reported \/ tail) \in BOOLEAN
  OBVIOUS
<1>5. au \in U
  BY <1>1, <1>4 DEF Closed
<1>6. CASE SlotFree(a) /\ (GraceEligible(a.cur) \/ tail)
  <2>1. ForceOut(a) = Park(b, au, FirstSeq(a.cur.seqs))
    BY <1>6 DEF ForceOut
  <2> HIDE DEF b, au
  <2> QED BY <2>1, <1>2, <1>3, <1>5, ParkOver
<1>7. CASE ~(SlotFree(a) /\ (GraceEligible(a.cur) \/ tail))
  BY <1>7, CloseAuOver DEF ForceOut
<1> QED BY <1>6, <1>7

-----------------------------------------------------------------------------
(* The open unit of an assembler that is about to collect p.                *)

Joins(a, p) == a.cur # None => a.cur.ts = p.ts

LEMMA CollectOver ==
  ASSUME NEW U, NEW O, NEW G, Closed(U, O), NEW a \in AssemblerOver(U, O, G),
         NEW p \in Packets, Joins(a, p)
  PROVE  /\ Collect(a, p) \in AssemblerOver(U, O, G)
         /\ Collect(a, p).cur \in U
         /\ Collect(a, p).cur.ts = p.ts
         /\ p.seq \in Collect(a, p).cur.seqs
<1>1. p.seq \in SeqNo
  BY PacketType DEF Packet
<1>2. CASE a.cur = None
  <2>1. Collect(a, p) = [a EXCEPT !.prevClose = a.lastClosed, !.lastClosed = p.seq, !.cur = NewAu(p)]
    BY <1>2 DEF Collect
  <2>2. NewAu(p) \in U /\ NewAu(p).ts = p.ts /\ p.seq \in NewAu(p).seqs
    BY DEF Closed, NewAu
  <2> HIDE DEF NewAu
  <2> QED BY <1>1, <2>1, <2>2 DEF AssemblerOver
<1>3. CASE a.cur # None /\ p.seq \notin a.cur.seqs
  <2>1. Collect(a, p) = [a EXCEPT !.cur = Absorb(a.cur, p)]
    BY <1>3 DEF Collect
  <2>2. a.cur \in U /\ p.ts = a.cur.ts
    BY <1>3 DEF AssemblerOver, Joins
  <2>3. a.cur \in Au /\ Absorb(a.cur, p) \in U
    BY <1>3, <2>2 DEF Closed
  <2>4. Absorb(a.cur, p).ts = p.ts /\ p.seq \in Absorb(a.cur, p).seqs
    BY <2>2, <2>3 DEF Absorb, Au
  <2> QED BY <2>1, <2>3, <2>4 DEF AssemblerOver
<1>4. CASE a.cur # None /\ p.seq \in a.cur.seqs
  <2>1. Collect(a, p) = a
    BY <1>4 DEF Collect
  <2> QED BY <1>4, <2>1 DEF AssemblerOver, Joins
<1> QED BY <1>2, <1>3, <1>4

LEMMA SeeMarkerOver ==
  ASSUME NEW U, NEW O, NEW G, Closed(U, O), NEW a \in AssemblerOver(U, O, G), NEW p \in Packets,
         a.cur \in U, a.cur.ts = p.ts, p.seq \in a.cur.seqs
  PROVE  /\ SeeMarker(a, p) \in AssemblerOver(U, O, G)
         /\ SeeMarker(a, p).cur \in U
<1>1. CASE ~p.marker
  BY <1>1 DEF SeeMarker
<1>2. CASE p.marker
  <2> DEFINE au == Marked(a.cur)
             ask == Holed(au) /\ ~au.reported
             b == au.reported \/ ask
  <2>1. au \in U
    BY <1>2 DEF Closed
  <2>2. MissingRanges(au.seqs) \subseteq SeqNo \X SeqNo
    BY <2>1, UnitEnds
  <2>3. b \in BOOLEAN
    OBVIOUS
  <2>4. [au EXCEPT !.reported = b] \in U
    BY <2>1, <2>3 DEF Closed
  <2>5. SeeMarker(a, p) = [a EXCEPT !.cur = [au EXCEPT !.reported = b],
                                    !.nacks = IF ask THEN @ \cup MissingRanges(au.seqs) ELSE @]
    BY <1>2 DEF SeeMarker, Marked
  <2> HIDE DEF au, ask, b
  <2> QED BY <2>2, <2>4, <2>5 DEF AssemblerOver
<1> QED BY <1>1, <1>2

LEMMA ParkLeadingLossOver ==
  ASSUME NEW U, NEW O, NEW G, Closed(U, O), NEW a \in AssemblerOver(U, O, G), a.cur \in U
  PROVE  ParkLeadingLoss(a) \in AssemblerOver(U, O, G)
<1> DEFINE expect == WAdd(a.prevClose, 1)
           last == WSub(FirstSeq(a.cur.seqs), 1)
           b == [a EXCEPT !.nacks = @ \cup {<<expect, last>>}]
           au == [a.cur EXCEPT !.reported = TRUE]
<1>1. 1 \in SeqNo
  BY SeqSizeAssumption DEF SeqNo
<1>2. expect \in SeqNo
  BY <1>1, WAddValue DEF AssemblerOver
<1>3. last \in SeqNo
  BY <1>1, UnitEnds, WSubValue
<1>4. au \in U
  BY DEF Closed
<1> HIDE DEF expect, last
<1>5. b \in AssemblerOver(U, O, G)
  BY <1>2, <1>3 DEF AssemblerOver
<1>6. ParkLeadingLoss(a) = Park(b, au, expect)
  BY DEF ParkLeadingLoss, expect, last
<1> HIDE DEF b, au
<1> QED BY <1>2, <1>4, <1>5, <1>6, ParkOver

LEMMA SettleOver ==
  ASSUME NEW U, NEW O, NEW G, Closed(U, O), NEW a \in AssemblerOver(U, O, G), a.cur \in U, a.cur # None,
         NEW p \in Packets
  PROVE  Settle(a, p) \in CallOver(U, O, G)
<1>1. CASE Whole(a.cur) /\ p.marker /\ LeadingLoss(a)
  <2>1. Settle(a, p) = Silent(ParkLeadingLoss(a))
    BY <1>1 DEF Settle
  <2> QED BY <2>1, ParkLeadingLossOver, SilentOver
<1>2. CASE Whole(a.cur) /\ ~(p.marker /\ LeadingLoss(a))
  <2>1. Settle(a, p) = PollOutcome(CloseAu(a))
    BY <1>2 DEF Settle
  <2> QED BY <2>1, CloseAuOver, PollOutcomeOver
<1>3. CASE ~Whole(a.cur) /\ a.cur.size > MaxAuSize
  <2>1. Settle(a, p) = [asm |-> [a EXCEPT !.cur = None], out |-> <<Outcome(a.cur, "Discarded")>>]
    BY <1>3 DEF Settle
  <2>2. [a EXCEPT !.cur = None] \in AssemblerOver(U, O, G)
    BY DEF AssemblerOver
  <2>3. Outcome(a.cur, "Discarded") \in O
    BY DEF Closed
  <2> QED BY <2>1, <2>2, <2>3, OneOutcome
<1>4. CASE ~Whole(a.cur) /\ ~(a.cur.size > MaxAuSize)
  <2>1. Settle(a, p) = PollOutcome(a)
    BY <1>4 DEF Settle
  <2> QED BY <2>1, PollOutcomeOver
<1> QED BY <1>1, <1>2, <1>3, <1>4

-----------------------------------------------------------------------------
(* The methods.                                                             *)

LEMMA PushPacketOver ==
  ASSUME NEW U, NEW O, NEW G, Closed(U, O), None \notin U, NEW before \in AssemblerOver(U, O, G),
         NEW p \in Packets
  PROVE  PushPacket(before, p) \in CallOver(U, O, G)
<1> DEFINE a == ExpireIfDue(before)
<1>1. a \in AssemblerOver(U, O, G)
  BY ExpireIfDueOver
<1>2. CASE FillsParked(a, p)
  <2>1. PushPacket(before, p) = PollOutcome(FillParked(a, p))
    BY <1>2 DEF PushPacket
  <2> HIDE DEF a
  <2> QED BY <1>1, <1>2, <2>1, FillParkedOver, PollOutcomeOver
<1>3. CASE ~FillsParked(a, p) /\ TooLate(a, p)
  <2>1. PushPacket(before, p) = Silent(a)
    BY <1>3 DEF PushPacket
  <2> HIDE DEF a
  <2> QED BY <1>1, <2>1, SilentOver
<1>4. CASE ~FillsParked(a, p) /\ ~TooLate(a, p)
  <2> DEFINE b == IF a.cur # None /\ a.cur.ts # p.ts THEN ForceOut(a) ELSE a
             c == Collect(b, p)
             d == SeeMarker(c, p)
  <2>1. PushPacket(before, p) = Settle(d, p)
    BY <1>4 DEF PushPacket
  <2> HIDE DEF a
  <2>2. b \in AssemblerOver(U, O, G) /\ Joins(b, p)
    BY <1>1, ForceOutOver DEF Joins
  <2> HIDE DEF b
  <2>3. c \in AssemblerOver(U, O, G) /\ c.cur \in U /\ c.cur.ts = p.ts /\ p.seq \in c.cur.seqs
    BY <2>2, CollectOver
  <2> HIDE DEF c
  <2>4. d \in AssemblerOver(U, O, G) /\ d.cur \in U
    BY <2>3, SeeMarkerOver
  <2> HIDE DEF d
  <2> QED BY <2>1, <2>4, SettleOver
<1> QED BY <1>2, <1>3, <1>4

LEMMA FlushDueOver ==
  ASSUME NEW U, NEW O, NEW G, Closed(U, O), NEW before \in AssemblerOver(U, O, G)
  PROVE  FlushDue(before) \in CallOver(U, O, G)
<1> DEFINE a == ExpireIfDue(before)
           due == a.cur # None /\ a.cur.marker /\ a.cur.age > FillWindow
           park == GraceEligible(a.cur) /\ SlotFree(a)
<1>1. a \in AssemblerOver(U, O, G)
  BY ExpireIfDueOver
<1>2. CASE ~due
  <2>1. FlushDue(before) = Silent(a)
    BY <1>2 DEF FlushDue
  <2> HIDE DEF a
  <2> QED BY <1>1, <2>1, SilentOver
<1>3. CASE due /\ park
  <2>1. FlushDue(before) = Silent(Park(a, a.cur, FirstSeq(a.cur.seqs)))
    BY <1>3 DEF FlushDue
  <2> HIDE DEF a, park
  <2>2. a.cur \in U
    BY <1>1, <1>3 DEF AssemblerOver
  <2>3. FirstSeq(a.cur.seqs) \in SeqNo
    BY <2>2, UnitEnds
  <2> QED BY <1>1, <2>1, <2>2, <2>3, ParkOver, SilentOver
<1>4. CASE due /\ ~park
  <2>1. FlushDue(before) = PollOutcome(CloseAu(a))
    BY <1>4 DEF FlushDue
  <2> HIDE DEF a, park
  <2> QED BY <1>1, <1>4, <2>1, CloseAuOver, PollOutcomeOver
<1> QED BY <1>2, <1>3, <1>4

LEMMA TakeNackRangesOver ==
  ASSUME NEW U, NEW O, NEW G, NEW a \in AssemblerOver(U, O, G)
  PROVE  /\ TakeNackRanges(a).asm \in AssemblerOver(U, O, G)
         /\ TakeNackRanges(a).ranges \subseteq SeqNo \X SeqNo
BY DEF TakeNackRanges, AssemblerOver

LEMMA AssemblerTickOver ==
  ASSUME NEW U, NEW O, NEW G, Closed(U, O), NEW a \in AssemblerOver(U, O, G)
  PROVE  AssemblerTick(a) \in AssemblerOver(U, O, G)
<1> DEFINE cur == IF a.cur = None THEN None ELSE Older(a.cur)
           parked == IF a.parked = None THEN None ELSE CountDown(a.parked)
<1>1. cur \in U \cup {None}
  BY DEF Closed, AssemblerOver
<1>2. parked \in [au : U, left : 0 .. GraceBudget, first : SeqNo] \cup {None}
  BY TimingAssumption DEF CountDown, AssemblerOver
<1>3. AssemblerTick(a) = [a EXCEPT !.cur = cur, !.parked = parked]
  BY DEF AssemblerTick
<1> HIDE DEF cur, parked
<1> QED BY <1>1, <1>2, <1>3 DEF AssemblerOver
=============================================================================
