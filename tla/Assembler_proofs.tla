-------------------------- MODULE Assembler_proofs --------------------------
(***************************************************************************)
(* Type correctness of the assembler, the completeness of what it hands to  *)
(* the decoder, the order of it and what is asked for again until a unit is *)
(* first parked, and what Damaged says, for every stream, every window and  *)
(* budget, with and without the grace slot.                                 *)
(***************************************************************************)
EXTENDS RepairLink, AccessUnits_proofs, SequenceTheorems, FiniteSetTheorems

\* The states over a typing of units and outcomes.
StatesOver(U, O, G) ==
    /\ asm \in AssemblerOver(U, O, G)
    /\ out \in {<<>>} \cup {<<o>> : o \in O}
    /\ asked \subseteq SeqNo \X SeqNo
    /\ lastOut \in [ts : Ts \cup {None}, odd : BOOLEAN]
    /\ slotUsed \in BOOLEAN

LEMMA ReturnsOver ==
  ASSUME NEW U, NEW O, NEW G, Closed(U, O), O \subseteq OutcomeType, StatesOver(U, O, G),
         NEW call \in CallOver(U, O, G), Returns(call)
  PROVE  StatesOver(U, O, G)'
<1>1. call.asm \in AssemblerOver(U, O, G) /\ call.out \in {<<>>} \cup {<<o>> : o \in O}
  BY DEF CallOver
<1>2. asm' \in AssemblerOver(U, O, G) /\ asked' \subseteq SeqNo \X SeqNo
  BY <1>1, TakeNackRangesOver DEF Returns
<1>3. lastOut' \in [ts : Ts \cup {None}, odd : BOOLEAN]
  <2>1. CASE call.out = <<>> \/ slotUsed'
    BY <2>1 DEF Returns, StatesOver
  <2>2. CASE call.out # <<>> /\ ~slotUsed'
    <3>1. PICK o \in O : call.out = <<o>>
      BY <1>1, <2>2
    <3>2. lastOut' = [ts |-> o.ts, odd |-> ~lastOut.odd]
      BY <2>2, <3>1 DEF Returns
    <3>3. o.ts \in Ts
      BY DEF OutcomeType
    <3> QED BY <3>2, <3>3
  <2> QED BY <2>1, <2>2
<1>4. out' \in {<<>>} \cup {<<o>> : o \in O}
  BY <1>1 DEF Returns
<1>5. slotUsed' \in BOOLEAN
  BY DEF Returns, StatesOver
<1> QED BY <1>2, <1>3, <1>4, <1>5 DEF StatesOver

\* One step per action.
LEMMA NextOver ==
  ASSUME NEW U, NEW O, NEW G, Closed(U, O), O \subseteq OutcomeType, StatesOver(U, O, G), [Next]_vars
  PROVE  StatesOver(U, O, G)'
<1>0. None \notin U
  BY NoneAssumption DEF Closed
<1>1. ASSUME NEW p \in Packets, Push(p) PROVE StatesOver(U, O, G)'
  <2>1. PushPacket(asm, p) \in CallOver(U, O, G)
    BY <1>0, PushPacketOver DEF StatesOver
  <2> QED BY <1>1, <2>1, ReturnsOver DEF Push
<1>2. CASE Flush
  <2>1. FlushDue(asm) \in CallOver(U, O, G)
    BY FlushDueOver DEF StatesOver
  <2> QED BY <1>2, <2>1, ReturnsOver DEF Flush
<1>3. CASE Poll
  <2>1. PollOutcome(asm) \in CallOver(U, O, G)
    BY PollOutcomeOver DEF StatesOver
  <2> QED BY <1>3, <2>1, ReturnsOver DEF Poll
<1>4. CASE Tick
  <2>1. AssemblerTick(asm) \in AssemblerOver(U, O, G)
    BY AssemblerTickOver DEF StatesOver
  <2> QED BY <1>4, <2>1 DEF Tick, StatesOver
<1>5. CASE UNCHANGED vars
  BY <1>5 DEF vars, StatesOver
<1> QED BY <1>1, <1>2, <1>3, <1>4, <1>5 DEF Next

LEMMA InitOver ==
  ASSUME NEW U, NEW O, Init
  PROVE  StatesOver(U, O, BOOLEAN)
<1>1. PICK g \in BOOLEAN : asm = NewAssembler(g)
  BY DEF Init
<1> QED BY <1>1, NewAssemblerOver DEF Init, StatesOver

-----------------------------------------------------------------------------
\* Type correctness: the fields of the assembler, what it returns and the
\* ranges it asks for are of their types in every reachable state.
THEOREM TypeCorrect == Spec => []TypeOK
<1>1. Closed(Au, OutcomeType)
  BY AuClosed
<1>2. Init => StatesOver(Au, OutcomeType, BOOLEAN)
  BY InitOver
<1>3. StatesOver(Au, OutcomeType, BOOLEAN) /\ [Next]_vars => StatesOver(Au, OutcomeType, BOOLEAN)'
  BY <1>1, NextOver
<1>4. StatesOver(Au, OutcomeType, BOOLEAN) => TypeOK
  <2> SUFFICES ASSUME StatesOver(Au, OutcomeType, BOOLEAN) PROVE TypeOK
    OBVIOUS
  <2>1. out \in Seq(OutcomeType) /\ Len(out) <= 1
    <3>1. CASE out = <<>>
      BY <3>1
    <3>2. CASE \E o \in OutcomeType : out = <<o>>
      BY <3>2
    <3> QED BY <3>1, <3>2 DEF StatesOver
  <2>2. AssemblerOver(Au, OutcomeType, BOOLEAN) = AssemblerType
    BY DEF AssemblerOver, AssemblerType, Slot
  <2> QED BY <2>1, <2>2 DEF StatesOver, TypeOK
<1> QED BY <1>2, <1>3, <1>4, PTL DEF Spec

-----------------------------------------------------------------------------
(* Completeness.  A unit lies within its frame; that it has seen the marker *)
(* or its start says that it holds the last or the first packet.            *)

AuWithinFrame ==
    {au \in Au :
        /\ au.seqs \subseteq FrameSeqs(au.ts)
        /\ au.marker => \E p \in Frame(au.ts) : p.marker /\ p.seq \in au.seqs
        /\ au.start => \E p \in Frame(au.ts) : p.start /\ p.seq \in au.seqs}

CompleteOutcome ==
    {o \in OutcomeType : o.kind = "Complete" => o.seqs = FrameSeqs(o.ts)}

\* Marker, start and no hole: all of the frame.
LEMMA WholeIsFrame ==
  ASSUME WellFramed, NEW au \in AuWithinFrame, Whole(au), au.start
  PROVE  au.seqs = FrameSeqs(au.ts)
<1>1. /\ au.seqs \subseteq FrameSeqs(au.ts) /\ au.seqs \in SUBSET SeqNo
      /\ au.marker
      /\ Missing(au.seqs) = {}
  BY DEF AuWithinFrame, Au, Whole, Holed
<1>2. PICK p \in Frame(au.ts) : p.start /\ p.seq \in au.seqs
  BY DEF AuWithinFrame
<1>3. PICK m \in Frame(au.ts) : m.marker /\ m.seq \in au.seqs
  BY <1>1 DEF AuWithinFrame
<1>4. au.ts \in {q.ts : q \in Packets}
  BY <1>2 DEF Frame
<1>5. PICK first \in SeqNo, n \in 0 .. Half - 1 :
        /\ FrameSeqs(au.ts) = {q \in SeqNo : WSub(q, first) <= n}
        /\ \A r \in Frame(au.ts) : /\ r.start => r.seq = first
                                   /\ r.marker => WSub(r.seq, first) = n
  BY <1>4 DEF WellFramed
<1>6. first \in au.seqs /\ m.seq \in au.seqs /\ WSub(m.seq, first) = n
  BY <1>2, <1>3, <1>5
<1>7. \A q \in au.seqs : WSub(q, first) <= n
  BY <1>1, <1>5
<1>8. au.seqs = {q \in SeqNo : WSub(q, first) <= n}
  BY <1>1, <1>6, <1>7, NoHoleIsWholeArc
<1> QED BY <1>5, <1>8

LEMMA FrameUnitsClosed == Closed(AuWithinFrame, OutcomeType)
<1>0. Closed(Au, OutcomeType)
  BY AuClosed
<1>1. ASSUME NEW p \in Packets PROVE NewAu(p) \in AuWithinFrame
  <2>1. NewAu(p) \in Au /\ p \in Frame(p.ts)
    BY <1>0 DEF Closed, Frame
  <2>2. /\ NewAu(p).ts = p.ts /\ NewAu(p).seqs = {p.seq}
        /\ NewAu(p).marker = p.marker /\ NewAu(p).start = p.start
    BY DEF NewAu
  <2> QED BY <2>1, <2>2 DEF AuWithinFrame, FrameSeqs
<1>2. ASSUME NEW au \in AuWithinFrame, NEW p \in Packets, p.ts = au.ts, p.seq \notin au.seqs
      PROVE  Absorb(au, p) \in AuWithinFrame /\ RepairedAu(au, p) \in AuWithinFrame
  <2>1. au \in Au /\ p \in Frame(au.ts)
    BY <1>2 DEF AuWithinFrame, Frame
  <2>2. Absorb(au, p) \in Au /\ RepairedAu(au, p) \in Au
    BY <1>0, <1>2, <2>1 DEF Closed
  <2>3. /\ Absorb(au, p).ts = au.ts /\ Absorb(au, p).seqs = au.seqs \cup {p.seq}
        /\ Absorb(au, p).marker = au.marker /\ Absorb(au, p).start = au.start
    BY <2>1 DEF Absorb, Au
  <2>4. /\ RepairedAu(au, p).ts = au.ts /\ RepairedAu(au, p).seqs = au.seqs \cup {p.seq}
        /\ RepairedAu(au, p).marker = (au.marker \/ p.marker)
        /\ RepairedAu(au, p).start = (au.start \/ p.start)
    BY <2>1 DEF RepairedAu, Absorb, Au
  <2>5. au.seqs \cup {p.seq} \subseteq FrameSeqs(au.ts)
    BY <2>1 DEF AuWithinFrame, FrameSeqs
  <2>6. Absorb(au, p) \in AuWithinFrame
    BY <2>2, <2>3, <2>5 DEF AuWithinFrame
  <2>7. RepairedAu(au, p) \in AuWithinFrame
    BY <2>1, <2>2, <2>4, <2>5 DEF AuWithinFrame
  <2> QED BY <2>6, <2>7
<1>3. ASSUME NEW au \in AuWithinFrame, NEW p \in Packets,
             p.ts = au.ts, p.marker, p.seq \in au.seqs
      PROVE  Marked(au) \in AuWithinFrame
  <2>1. au \in Au /\ p \in Frame(au.ts)
    BY <1>3 DEF AuWithinFrame, Frame
  <2>2. Marked(au) \in Au
    BY <1>0, <1>3, <2>1 DEF Closed
  <2>3. Marked(au).ts = au.ts /\ Marked(au).seqs = au.seqs /\ Marked(au).start = au.start
    BY <2>1 DEF Marked, Au
  <2> QED BY <1>3, <2>1, <2>2, <2>3 DEF AuWithinFrame
<1>4. ASSUME NEW au \in AuWithinFrame, NEW b \in BOOLEAN
      PROVE  [au EXCEPT !.reported = b] \in AuWithinFrame
  <2>1. au \in Au
    BY DEF AuWithinFrame
  <2>2. [au EXCEPT !.reported = b] \in Au
    BY <1>0, <2>1 DEF Closed
  <2>3. /\ [au EXCEPT !.reported = b].ts = au.ts /\ [au EXCEPT !.reported = b].seqs = au.seqs
        /\ [au EXCEPT !.reported = b].marker = au.marker /\ [au EXCEPT !.reported = b].start = au.start
    BY <2>1 DEF Au
  <2> QED BY <2>2, <2>3 DEF AuWithinFrame
<1>5. ASSUME NEW au \in AuWithinFrame PROVE Older(au) \in AuWithinFrame
  <2>1. au \in Au
    BY DEF AuWithinFrame
  <2>2. Older(au) \in Au
    BY <1>0, <2>1 DEF Closed
  <2>3. /\ Older(au).ts = au.ts /\ Older(au).seqs = au.seqs
        /\ Older(au).marker = au.marker /\ Older(au).start = au.start
    BY <2>1 DEF Older, Au
  <2> QED BY <2>2, <2>3 DEF AuWithinFrame
<1>6. ASSUME NEW au \in AuWithinFrame
      PROVE  Outcome(au, Verdict(au)) \in OutcomeType /\ Outcome(au, "Discarded") \in OutcomeType
  BY <1>0 DEF AuWithinFrame, Closed
<1>7. AuWithinFrame \subseteq Au
  BY DEF AuWithinFrame
<1> QED BY <1>1, <1>2, <1>3, <1>4, <1>5, <1>6, <1>7 DEF Closed

LEMMA FrameClosed ==
  ASSUME WellFramed
  PROVE  Closed(AuWithinFrame, CompleteOutcome)
<1>1. Closed(AuWithinFrame, OutcomeType)
  BY FrameUnitsClosed
<1>2. ASSUME NEW au \in AuWithinFrame
      PROVE  Outcome(au, Verdict(au)) \in CompleteOutcome /\ Outcome(au, "Discarded") \in CompleteOutcome
  <2>1. Outcome(au, Verdict(au)) \in OutcomeType /\ Outcome(au, "Discarded") \in OutcomeType
    BY <1>1 DEF Closed
  <2>2. Verdict(au) = "Complete" => au.seqs = FrameSeqs(au.ts)
    BY WholeIsFrame DEF Verdict
  <2> QED BY <2>1, <2>2 DEF CompleteOutcome, Outcome
<1> QED BY <1>1, <1>2 DEF Closed

\* Whatever is lost, reordered, repeated or repaired late, a unit handed on as
\* Complete holds every packet its frame was sent in.
THEOREM OnlyWholeFramesComplete ==
  ASSUME WellFramed
  PROVE  Spec => []CompleteIsWholeFrame
<1>1. Closed(AuWithinFrame, CompleteOutcome)
  BY FrameClosed
<1>2. CompleteOutcome \subseteq OutcomeType
  BY DEF CompleteOutcome
<1>3. Init => StatesOver(AuWithinFrame, CompleteOutcome, BOOLEAN)
  BY InitOver
<1>4. StatesOver(AuWithinFrame, CompleteOutcome, BOOLEAN) /\ [Next]_vars
         => StatesOver(AuWithinFrame, CompleteOutcome, BOOLEAN)'
  BY <1>1, <1>2, NextOver
<1>5. StatesOver(AuWithinFrame, CompleteOutcome, BOOLEAN) => CompleteIsWholeFrame
  <2> SUFFICES ASSUME StatesOver(AuWithinFrame, CompleteOutcome, BOOLEAN), NEW o \in Outcomes, o.kind = "Complete"
               PROVE  o.seqs = FrameSeqs(o.ts)
    BY DEF CompleteIsWholeFrame
  <2>1. CASE o \in {asm.queue[i] : i \in DOMAIN asm.queue}
    <3>1. asm.queue \in Seq(CompleteOutcome)
      BY DEF StatesOver, AssemblerOver
    <3>2. PICK i \in DOMAIN asm.queue : o = asm.queue[i]
      BY <2>1
    <3>3. o \in CompleteOutcome
      BY <3>1, <3>2
    <3> QED BY <3>3 DEF CompleteOutcome
  <2>2. CASE o \in {out[i] : i \in DOMAIN out}
    <3>1. PICK i \in DOMAIN out : o = out[i]
      BY <2>2
    <3>2. CASE out = <<>>
      BY <3>1, <3>2
    <3>3. CASE \E c \in CompleteOutcome : out = <<c>>
      BY <3>1, <3>3 DEF CompleteOutcome
    <3> QED BY <3>2, <3>3 DEF StatesOver
  <2> QED BY <2>1, <2>2 DEF Outcomes
<1> QED BY <1>3, <1>4, <1>5, PTL DEF Spec

-----------------------------------------------------------------------------
(* What a push does to the open unit, and to everything if nothing is parked. *)

\* The assembler when the packet is in its open unit, before Settle.
Grown(a, p) == SeeMarker(Collect(a, p), p)

\* What else it keeps.
Keeps(b, a) ==
    /\ b.queue = a.queue /\ b.lastTs = a.lastTs
    /\ b.parked = a.parked /\ b.graceEnabled = a.graceEnabled

\* Ranges are asked for when the unit has not been reported, and then they are
\* those of the unit as it is now.
AsksIfNew(b, a) ==
    \/ b.cur.reported = a.cur.reported /\ b.nacks = a.nacks
    \/ /\ ~a.cur.reported /\ b.cur.reported /\ ~Whole(b.cur)
       /\ b.nacks = a.nacks \cup MissingRanges(b.cur.seqs)

\* The packet is in the unit, which is asked about as before.
Collected(c, a, p) ==
    /\ Keeps(c, a) /\ c.nacks = a.nacks
    /\ a.cur = None => /\ c.cur.seqs = {p.seq}
                       /\ c.cur.reported = FALSE
    /\ a.cur # None => /\ c.cur.seqs = a.cur.seqs \cup {p.seq}
                       /\ c.cur.reported = a.cur.reported

LEMMA CollectGrows ==
  ASSUME NEW U, NEW O, Closed(U, O), NEW a \in AssemblerOver(U, O, BOOLEAN),
         NEW p \in Packets, Joins(a, p)
  PROVE  Collected(Collect(a, p), a, p)
<1>1. CASE a.cur = None
  <2>1. Collect(a, p) = [a EXCEPT !.prevClose = a.lastClosed, !.lastClosed = p.seq, !.cur = NewAu(p)]
    BY <1>1 DEF Collect
  <2>2. NewAu(p).seqs = {p.seq} /\ NewAu(p).reported = FALSE
    BY DEF NewAu
  <2> HIDE DEF NewAu
  <2> QED BY <1>1, <2>1, <2>2 DEF AssemblerOver, Keeps, Collected
<1>2. CASE a.cur # None /\ p.seq \notin a.cur.seqs
  <2>1. Collect(a, p) = [a EXCEPT !.cur = Absorb(a.cur, p)]
    BY <1>2 DEF Collect
  <2>2. a.cur \in Au
    BY <1>2 DEF AssemblerOver, Closed
  <2>3. Absorb(a.cur, p).seqs = a.cur.seqs \cup {p.seq} /\ Absorb(a.cur, p).reported = a.cur.reported
    BY <2>2 DEF Absorb, Au
  <2> QED BY <1>2, <2>1, <2>3 DEF AssemblerOver, Keeps, Collected
<1>3. CASE a.cur # None /\ p.seq \in a.cur.seqs
  <2>1. Collect(a, p) = a
    BY <1>3 DEF Collect
  <2>2. a.cur.seqs \cup {p.seq} = a.cur.seqs
    BY <1>3
  <2> QED BY <1>3, <2>1, <2>2 DEF Keeps, Collected
<1> QED BY <1>1, <1>2, <1>3

LEMMA SeeMarkerGrows ==
  ASSUME NEW U, NEW O, Closed(U, O), NEW a \in AssemblerOver(U, O, BOOLEAN), a.cur \in U, NEW p
  PROVE  /\ Keeps(SeeMarker(a, p), a)
         /\ SeeMarker(a, p).cur.seqs = a.cur.seqs
         /\ SeeMarker(a, p).cur.ts = a.cur.ts
         /\ AsksIfNew(SeeMarker(a, p), a)
         /\ Missing(a.cur.seqs) = {} => /\ SeeMarker(a, p).cur.reported = a.cur.reported
                                        /\ SeeMarker(a, p).nacks = a.nacks
<1>0. a.cur \in Au
  BY DEF Closed
<1>1. CASE ~p.marker
  <2>1. SeeMarker(a, p) = a
    BY <1>1 DEF SeeMarker
  <2> QED BY <2>1 DEF Keeps, AsksIfNew
<1>2. CASE p.marker
  <2> DEFINE au == Marked(a.cur)
             ask == Holed(au) /\ ~au.reported
             b == SeeMarker(a, p)
  <2>1. /\ au \in [ts : Ts, seqs : (SUBSET SeqNo) \ {{}}, marker : BOOLEAN, age : {0} \cup (0 .. FillWindow + 1),
                    start : BOOLEAN, idr : BOOLEAN, good : BOOLEAN, size : Nat, reported : BOOLEAN]
        /\ au.seqs = a.cur.seqs /\ au.ts = a.cur.ts /\ au.reported = a.cur.reported
    BY <1>0 DEF Marked, Au
  <2>2. SeeMarker(a, p) = [a EXCEPT !.cur = [au EXCEPT !.reported = @ \/ ask],
                                    !.nacks = IF ask THEN @ \cup MissingRanges(au.seqs) ELSE @]
    BY <1>2 DEF SeeMarker, Marked
  <2> HIDE DEF au
  <2>3. /\ b.cur = [au EXCEPT !.reported = @ \/ ask]
        /\ b.nacks = IF ask THEN a.nacks \cup MissingRanges(au.seqs) ELSE a.nacks
        /\ Keeps(b, a)
    <3> HIDE DEF ask
    <3> QED BY <2>2 DEF AssemblerOver, Keeps
  <2>4. b.cur.seqs = a.cur.seqs /\ b.cur.ts = a.cur.ts /\ b.cur.reported = (au.reported \/ ask)
    <3> HIDE DEF ask, b
    <3> QED BY <2>1, <2>3
  <2>5. ASSUME ask PROVE ~a.cur.reported /\ b.cur.reported /\ ~Whole(b.cur)
                          /\ b.nacks = a.nacks \cup MissingRanges(b.cur.seqs)
    <3>1. Missing(b.cur.seqs) # {}
      BY <2>1, <2>4, <2>5 DEF Holed
    <3> QED BY <2>1, <2>3, <2>4, <2>5, <3>1 DEF Holed, Whole
  <2>6. ASSUME ~ask PROVE b.cur.reported = a.cur.reported /\ b.nacks = a.nacks
    <3>1. b.nacks = a.nacks
      BY <2>3, <2>6
    <3>2. au.reported \in BOOLEAN
      BY <2>1
    <3>3. b.cur.reported = au.reported
      BY <2>4, <2>6, <3>2, Zenon
    <3> QED BY <2>1, <3>1, <3>3
  <2>7. Missing(a.cur.seqs) = {} => ~ask
    BY <2>1 DEF Holed
  <2> QED BY <2>3, <2>4, <2>5, <2>6, <2>7 DEF AsksIfNew
<1> QED BY <1>1, <1>2

\* The unit of d, which was a's or is new, with the packet in it.
GrownTo(d, a, p) ==
    /\ d.cur.ts = p.ts
    /\ Keeps(d, a)
    /\ a.cur = None => /\ d.cur.seqs = {p.seq}
                       /\ d.cur.reported = FALSE
                       /\ d.nacks = a.nacks
    /\ a.cur # None => /\ d.cur.seqs = a.cur.seqs \cup {p.seq}
                       /\ AsksIfNew(d, a)

LEMMA GrownUnit ==
  ASSUME NEW U, NEW O, Closed(U, O), NEW a \in AssemblerOver(U, O, BOOLEAN),
         NEW p \in Packets, Joins(a, p)
  PROVE  /\ Grown(a, p) \in AssemblerOver(U, O, BOOLEAN)
         /\ Grown(a, p).cur \in U
         /\ GrownTo(Grown(a, p), a, p)
<1> DEFINE c == Collect(a, p)
<1>1. c \in AssemblerOver(U, O, BOOLEAN) /\ c.cur \in U /\ c.cur.ts = p.ts /\ p.seq \in c.cur.seqs
  BY CollectOver
<1>2. Collected(c, a, p)
  BY CollectGrows
<1>3. Missing({p.seq}) = {}
  BY PacketType, OnePacketNoHole DEF Packet
<1> HIDE DEF c
<1>4. SeeMarker(c, p) \in AssemblerOver(U, O, BOOLEAN) /\ SeeMarker(c, p).cur \in U
  BY <1>1, SeeMarkerOver
<1>5. /\ Keeps(SeeMarker(c, p), c)
      /\ SeeMarker(c, p).cur.seqs = c.cur.seqs
      /\ SeeMarker(c, p).cur.ts = c.cur.ts
      /\ AsksIfNew(SeeMarker(c, p), c)
      /\ Missing(c.cur.seqs) = {} => /\ SeeMarker(c, p).cur.reported = c.cur.reported
                                     /\ SeeMarker(c, p).nacks = c.nacks
  BY <1>1, SeeMarkerGrows
<1>6. Keeps(SeeMarker(c, p), a)
  BY <1>2, <1>5 DEF Keeps, Collected
<1>7. a.cur # None => AsksIfNew(SeeMarker(c, p), a)
  BY <1>2, <1>5 DEF AsksIfNew, Collected
<1> QED BY <1>1, <1>2, <1>3, <1>4, <1>5, <1>6, <1>7 DEF Grown, GrownTo, Collected, c

LEMMA ParksUnit ==
  ASSUME NEW U, NEW O, NEW a \in AssemblerOver(U, O, BOOLEAN), NEW au \in U, U \subseteq Au,
         NEW first \in SeqNo
  PROVE  /\ Park(a, au, first).parked # None
         /\ Park(a, au, first).parked.au = au
         /\ Park(a, au, first).nacks = a.nacks
<1> DEFINE slot == [au |-> au, left |-> GraceBudget, first |-> first]
<1>1. slot.au = au
  OBVIOUS
<1>2. slot # None
  <2>1. slot \in Slot
    BY TimingAssumption DEF Slot
  <2> QED BY <2>1, NoneAssumption
<1>3. Park(a, au, first) = [a EXCEPT !.cur = None, !.parked = slot]
  BY DEF Park
<1> HIDE DEF slot
<1> QED BY <1>1, <1>2, <1>3 DEF AssemblerOver

LEMMA PollKeepsUnits ==
  ASSUME NEW U, NEW O, NEW a \in AssemblerOver(U, O, BOOLEAN)
  PROVE  /\ PollOutcome(a).asm.cur = a.cur
         /\ PollOutcome(a).asm.parked = a.parked
         /\ PollOutcome(a).asm.nacks = a.nacks
BY DEF PollOutcome, AssemblerOver

\* Nothing is parked, and the receiver has drained what the last call left.
Plain(a) == a.parked = None /\ a.queue = <<>> /\ a.nacks = {}

Displaces(a, p) == a.cur # None /\ a.cur.ts # p.ts

Displaced(a, p) == IF Displaces(a, p) THEN CloseAu(a) ELSE a

LEMMA Closes ==
  ASSUME NEW U, NEW O, Closed(U, O), NEW a \in AssemblerOver(U, O, BOOLEAN), a.cur # None
  PROVE  /\ CloseAu(a).cur = None /\ CloseAu(a).lastTs = a.cur.ts
         /\ CloseAu(a).parked = a.parked /\ CloseAu(a).nacks = a.nacks
         /\ CloseAu(a).graceEnabled = a.graceEnabled
         /\ \E o \in O : o.ts = a.cur.ts /\ CloseAu(a).queue = Append(a.queue, o)
<1> DEFINE o == Outcome(a.cur, Verdict(a.cur))
<1>1. o \in O
  BY DEF Closed, AssemblerOver
<1>2. o.ts = a.cur.ts
  BY DEF Outcome
<1>3. CloseAu(a) = [a EXCEPT !.cur = None, !.lastClosed = LastSeq(a.cur.seqs),
                             !.lastTs = a.cur.ts, !.queue = Append(a.queue, o)]
  BY DEF CloseAu
<1> HIDE DEF o
<1> QED BY <1>1, <1>2, <1>3 DEF AssemblerOver

\* Nothing that follows the packet's collection takes a unit out of the slot.
LEMMA SettleKeepsSlot ==
  ASSUME NEW U, NEW O, Closed(U, O), None \notin U, NEW a \in AssemblerOver(U, O, BOOLEAN), a.cur \in U, NEW p,
         Settle(a, p).asm.parked = None
  PROVE  a.parked = None /\ ~(Whole(a.cur) /\ p.marker /\ LeadingLoss(a))
<1>0. U \subseteq Au /\ a.cur # None
  BY DEF Closed
<1>1. ASSUME Whole(a.cur), p.marker, LeadingLoss(a)
      PROVE  FALSE
  <2> DEFINE expect == WAdd(a.prevClose, 1)
             range == <<expect, WSub(FirstSeq(a.cur.seqs), 1)>>
             b == [a EXCEPT !.nacks = @ \cup {range}]
             au == [a.cur EXCEPT !.reported = TRUE]
  <2>1. Settle(a, p).asm = Park(b, au, expect)
    BY <1>1 DEF Settle, Silent, ParkLeadingLoss
  <2>2. 1 \in SeqNo
    BY SeqSizeAssumption DEF SeqNo
  <2>3. expect \in SeqNo /\ WSub(FirstSeq(a.cur.seqs), 1) \in SeqNo
    BY <1>0, <2>2, WAddValue, WSubValue, UnitEnds DEF AssemblerOver
  <2>4. au \in U
    BY DEF Closed
  <2> HIDE DEF expect, au
  <2>5. b \in AssemblerOver(U, O, BOOLEAN)
    BY <2>3 DEF AssemblerOver
  <2> HIDE DEF b
  <2> QED BY <1>0, <2>1, <2>3, <2>4, <2>5, ParksUnit
<1>2. CASE Whole(a.cur) /\ ~(p.marker /\ LeadingLoss(a))
  <2>1. Settle(a, p) = PollOutcome(CloseAu(a))
    BY <1>2 DEF Settle
  <2>2. CloseAu(a) \in AssemblerOver(U, O, BOOLEAN) /\ CloseAu(a).parked = a.parked
    BY <1>0, CloseAuOver, Closes
  <2> QED BY <1>2, <2>1, <2>2, PollKeepsUnits
<1>3. CASE ~Whole(a.cur) /\ a.cur.size > MaxAuSize
  <2>1. Settle(a, p).asm = [a EXCEPT !.cur = None]
    BY <1>3 DEF Settle
  <2> QED BY <1>3, <2>1 DEF AssemblerOver
<1>4. CASE ~Whole(a.cur) /\ ~(a.cur.size > MaxAuSize)
  <2>1. Settle(a, p) = PollOutcome(a)
    BY <1>4 DEF Settle
  <2> QED BY <1>4, <2>1, PollKeepsUnits
<1> QED BY <1>1, <1>2, <1>3, <1>4

\* The end of the open unit fills the slot or resolves the unit.
LEMMA ForceOutParks ==
  ASSUME NEW U, NEW O, Closed(U, O), NEW a \in AssemblerOver(U, O, BOOLEAN), a.cur # None
  PROVE  ForceOut(a).parked = None => ForceOut(a) = CloseAu(a)
<1> DEFINE tail == MarkerlessTail(a.cur)
           b == [a EXCEPT !.nacks = IF tail THEN @ \cup MissingRanges(a.cur.seqs) ELSE @]
           au == [a.cur EXCEPT !.reported = @ \/ tail]
           first == FirstSeq(a.cur.seqs)
<1>1. a.cur \in U /\ U \subseteq Au
  BY DEF AssemblerOver, Closed
<1>2. first \in SeqNo /\ MissingRanges(a.cur.seqs) \subseteq SeqNo \X SeqNo
  BY <1>1, UnitEnds
<1>3. (a.cur.reported \/ tail) \in BOOLEAN
  OBVIOUS
<1>4. au \in U
  BY <1>1, <1>3 DEF Closed
<1>5. b \in AssemblerOver(U, O, BOOLEAN)
  BY <1>2 DEF AssemblerOver
<1>6. CASE SlotFree(a) /\ (GraceEligible(a.cur) \/ tail)
  <2>1. ForceOut(a) = Park(b, au, first)
    BY <1>6 DEF ForceOut
  <2> HIDE DEF b, au, first, tail
  <2>2. Park(b, au, first).parked # None
    BY <1>1, <1>2, <1>4, <1>5, ParksUnit
  <2> QED BY <2>1, <2>2
<1>7. CASE ~(SlotFree(a) /\ (GraceEligible(a.cur) \/ tail))
  BY <1>7 DEF ForceOut
<1> QED BY <1>6, <1>7

\* A push that parks nothing, on an assembler that holds nothing parked.
LEMMA PlainPush ==
  ASSUME NEW U, NEW O, Closed(U, O), None \notin U, \A au \in U : au.size <= MaxAuSize,
         NEW a \in AssemblerOver(U, O, BOOLEAN), Plain(a), NEW p \in Packets,
         PushPacket(a, p).asm.parked = None
  PROVE  /\ TooLate(a, p) => PushPacket(a, p) = Silent(a)
         /\ ~TooLate(a, p) =>
              LET d == Grown(Displaced(a, p), p)
              IN  PushPacket(a, p) = PollOutcome(IF Whole(d.cur) THEN CloseAu(d) ELSE d)
<1> DEFINE f == IF a.cur # None /\ a.cur.ts # p.ts THEN ForceOut(a) ELSE a
           g == Grown(f, p)
           d == Grown(Displaced(a, p), p)
<1>1. ExpireIfDue(a) = a /\ ~FillsParked(a, p)
  BY DEF Plain, ExpireIfDue, FillsParked
<1>2. TooLate(a, p) => PushPacket(a, p) = Silent(a)
  BY <1>1 DEF PushPacket
<1>3. ASSUME ~TooLate(a, p)
      PROVE  PushPacket(a, p) = PollOutcome(IF Whole(d.cur) THEN CloseAu(d) ELSE d)
  <2>1. PushPacket(a, p) = Settle(g, p)
    <3>1. PushPacket(a, p) = Settle(SeeMarker(Collect(IF a.cur # None /\ a.cur.ts # p.ts THEN ForceOut(a) ELSE a, p), p), p)
      BY <1>1, <1>3 DEF PushPacket
    <3> QED BY <3>1 DEF Grown
  <2>2. f \in AssemblerOver(U, O, BOOLEAN) /\ Joins(f, p)
    BY ForceOutOver DEF Joins
  <2> HIDE DEF f
  <2>3. g \in AssemblerOver(U, O, BOOLEAN) /\ g.cur \in U /\ Keeps(g, f)
    BY <2>2, GrownUnit DEF GrownTo
  <2> HIDE DEF g
  <2>4. g.parked = None /\ ~(Whole(g.cur) /\ p.marker /\ LeadingLoss(g))
    BY <2>1, <2>3, SettleKeepsSlot
  <2>5. f.parked = None
    BY <2>3, <2>4 DEF Keeps
  <2>6. f = Displaced(a, p)
    <3>1. CASE a.cur # None /\ a.cur.ts # p.ts
      <4>1. f = ForceOut(a)
        BY <3>1 DEF f
      <4>2. f = CloseAu(a)
        BY <2>5, <3>1, <4>1, ForceOutParks
      <4> QED BY <3>1, <4>2 DEF Displaced, Displaces
    <3>2. CASE ~(a.cur # None /\ a.cur.ts # p.ts)
      BY <3>2 DEF f, Displaced, Displaces
    <3> QED BY <3>1, <3>2
  <2>7. g = d
    BY <2>6 DEF g
  <2> HIDE DEF d
  <2>8. ~(d.cur.size > MaxAuSize)
    <3>1. d.cur \in U /\ d.cur.size <= MaxAuSize /\ d.cur \in Au
      BY <2>3, <2>7 DEF Closed
    <3>2. d.cur.size \in Nat
      BY <3>1 DEF Au
    <3> QED BY <3>1, <3>2, TimingAssumption
  <2>9. ~(Whole(d.cur) /\ p.marker /\ LeadingLoss(d)) /\ PushPacket(a, p) = Settle(d, p)
    BY <2>1, <2>4, <2>7
  <2> QED BY <2>8, <2>9, Zenon DEF Settle
<1> QED BY <1>2, <1>3 DEF d

\* The outcome of the open unit and, when a packet of the next frame is all of
\* it, that frame's.
PlainOutcomes(a, p, u, r) ==
    /\ ~Whole(u) /\ ~Displaces(a, p) => r.out = <<>> /\ r.asm.queue = <<>>
    /\ ~Whole(u) /\ Displaces(a, p) =>
          \E o \in OutcomeType : r.out = <<o>> /\ o.ts = a.cur.ts /\ r.asm.queue = <<>>
    /\ Whole(u) /\ ~Displaces(a, p) =>
          \E o \in OutcomeType : r.out = <<o>> /\ o.ts = u.ts /\ r.asm.queue = <<>>
    /\ Whole(u) /\ Displaces(a, p) =>
          \E o, n \in OutcomeType : /\ r.out = <<o>> /\ o.ts = a.cur.ts
                                    /\ r.asm.queue = <<n>> /\ n.ts = u.ts

\* What becomes of the unit u the packet is collected in.
PlainUnit(a, p, u, r) ==
    /\ u.ts = p.ts /\ p.seq \in u.seqs
    /\ Whole(u) => r.asm.cur = None /\ r.asm.lastTs = u.ts
    /\ ~Whole(u) => /\ r.asm.cur = u
                    /\ r.asm.lastTs = IF Displaces(a, p) THEN a.cur.ts ELSE a.lastTs
    /\ a.cur # None /\ ~Displaces(a, p) => a.cur.seqs \subseteq u.seqs

PlainAsks(a, p, u, r) ==
    \/ /\ r.asm.nacks = {}
       /\ a.cur # None /\ ~Displaces(a, p) => u.reported = a.cur.reported
    \/ /\ r.asm.nacks = MissingRanges(u.seqs)
       /\ a.cur # None /\ ~Displaces(a, p) /\ ~a.cur.reported
       /\ u.reported /\ ~Whole(u)

LEMMA OneLong ==
  ASSUME NEW x
  PROVE  Append(<<>>, x) = <<x>> /\ <<x>> # <<>> /\ Head(<<x>>) = x /\ Tail(<<x>>) = <<>>
<1>1. Append(<<>>, x) = <<x>>
  OBVIOUS
<1>2. <<x>> # <<>>
  OBVIOUS
<1>3. Head(<<x>>) = x
  OBVIOUS
<1>4. Tail(<<x>>) = <<>>
  OBVIOUS
<1> QED BY <1>1, <1>2, <1>3, <1>4

LEMMA TwoLong ==
  ASSUME NEW x, NEW y
  PROVE  /\ Append(<<x>>, y) = <<x, y>>
         /\ <<x, y>> # <<>> /\ Head(<<x, y>>) = x /\ Tail(<<x, y>>) = <<y>>
<1>1. Append(<<x>>, y) = <<x, y>>
  <2>1. <<x>> \in Seq({x, y}) /\ <<x, y>> \in Seq({x, y}) /\ y \in {x, y}
    OBVIOUS
  <2>2. Append(<<x>>, y) \in Seq({x, y}) /\ Len(Append(<<x>>, y)) = 2
    BY <2>1
  <2>3. Append(<<x>>, y)[1] = x /\ Append(<<x>>, y)[2] = y
    BY <2>1
  <2>4. Len(<<x, y>>) = 2 /\ <<x, y>>[1] = x /\ <<x, y>>[2] = y
    OBVIOUS
  <2>5. \A i \in 1 .. 2 : Append(<<x>>, y)[i] = <<x, y>>[i]
    BY <2>3, <2>4
  <2> QED BY <2>1, <2>2, <2>4, <2>5, SeqEqual
<1>2. <<x, y>> # <<>>
  OBVIOUS
<1>3. Head(<<x, y>>) = x
  OBVIOUS
<1>4. Tail(<<x, y>>) = <<y>>
  OBVIOUS
<1> QED BY <1>1, <1>2, <1>3, <1>4

LEMMA PollsEmpty ==
  ASSUME NEW a, a.parked = None, a.queue = <<>>
  PROVE  PollOutcome(a) = [asm |-> a, out |-> <<>>]
BY DEF PollOutcome

LEMMA PollsOne ==
  ASSUME NEW U, NEW O, NEW a \in AssemblerOver(U, O, BOOLEAN), a.parked = None, a.queue # <<>>
  PROVE  /\ PollOutcome(a).out = <<Head(a.queue)>>
         /\ PollOutcome(a).asm.queue = Tail(a.queue)
         /\ PollOutcome(a).asm.cur = a.cur /\ PollOutcome(a).asm.lastTs = a.lastTs
         /\ PollOutcome(a).asm.parked = None /\ PollOutcome(a).asm.nacks = a.nacks
         /\ PollOutcome(a).asm.graceEnabled = a.graceEnabled
BY DEF PollOutcome, AssemblerOver

LEMMA PlainEffect ==
  ASSUME NEW U, NEW O, Closed(U, O), None \notin U, O \subseteq OutcomeType,
         \A au \in U : au.size <= MaxAuSize,
         NEW a \in AssemblerOver(U, O, BOOLEAN), Plain(a), NEW p \in Packets, ~TooLate(a, p),
         PushPacket(a, p).asm.parked = None
  PROVE  \E u \in U :
            /\ PlainUnit(a, p, u, PushPacket(a, p))
            /\ PlainAsks(a, p, u, PushPacket(a, p))
            /\ PlainOutcomes(a, p, u, PushPacket(a, p))
<1> DEFINE b == Displaced(a, p)
           d == Grown(b, p)
           e == IF Whole(d.cur) THEN CloseAu(d) ELSE d
           r == PushPacket(a, p)
<1>1. r = PollOutcome(e)
  BY PlainPush
<1> HIDE DEF r
<1>2. a.parked = None /\ a.queue = <<>> /\ a.nacks = {}
  BY DEF Plain, AssemblerOver
<1>3. ASSUME Displaces(a, p)
      PROVE  /\ b \in AssemblerOver(U, O, BOOLEAN) /\ b.cur = None /\ b.lastTs = a.cur.ts
             /\ b.parked = None /\ b.nacks = {}
             /\ \E o \in O : o.ts = a.cur.ts /\ b.queue = <<o>>
  <2>1. b = CloseAu(a) /\ a.cur # None
    BY <1>3 DEF Displaced, Displaces
  <2>2. b \in AssemblerOver(U, O, BOOLEAN)
    BY <2>1, CloseAuOver
  <2>3. PICK o \in O : o.ts = a.cur.ts /\ CloseAu(a).queue = Append(a.queue, o)
    BY <2>1, Closes
  <2>4. b.queue = <<o>>
    BY <1>2, <2>1, <2>3
  <2>5. /\ CloseAu(a).cur = None /\ CloseAu(a).lastTs = a.cur.ts
        /\ CloseAu(a).parked = a.parked /\ CloseAu(a).nacks = a.nacks
    BY <2>1, Closes
  <2> HIDE DEF b
  <2> QED BY <1>2, <2>1, <2>2, <2>3, <2>4, <2>5
<1>4. ASSUME ~Displaces(a, p) PROVE b = a
  BY <1>4 DEF Displaced
<1>5. b \in AssemblerOver(U, O, BOOLEAN) /\ Joins(b, p) /\ b.parked = None /\ b.nacks = {}
  <2>1. CASE Displaces(a, p)
    <3> HIDE DEF b
    <3> QED BY <1>3, <2>1 DEF Joins
  <2>2. CASE ~Displaces(a, p)
    <3> HIDE DEF b
    <3> QED BY <1>2, <1>4, <2>2 DEF Joins, Displaces
  <2> QED BY <2>1, <2>2
<1> HIDE DEF b
<1>6. d \in AssemblerOver(U, O, BOOLEAN) /\ d.cur \in U /\ GrownTo(d, b, p)
  BY <1>5, GrownUnit
<1> HIDE DEF d
<1>7. b.cur = None => d.cur.seqs = {p.seq} /\ d.cur.reported = FALSE /\ d.nacks = {}
  BY <1>5, <1>6 DEF GrownTo
<1>8. b.cur # None => d.cur.seqs = b.cur.seqs \cup {p.seq} /\ AsksIfNew(d, b)
  BY <1>6 DEF GrownTo
<1> DEFINE u == d.cur
<1>9. d.cur # None /\ d.parked = None /\ d.queue = b.queue /\ d.lastTs = b.lastTs
  BY <1>5, <1>6 DEF Keeps, GrownTo
<1>10. ASSUME Whole(u)
       PROVE  /\ e \in AssemblerOver(U, O, BOOLEAN) /\ e.cur = None /\ e.lastTs = u.ts
              /\ e.parked = None /\ e.nacks = d.nacks
              /\ \E o \in O : o.ts = u.ts /\ e.queue = Append(b.queue, o)
  <2>1. e = CloseAu(d)
    BY <1>10
  <2>2. e \in AssemblerOver(U, O, BOOLEAN)
    BY <1>6, <1>9, <2>1, CloseAuOver
  <2>3. /\ CloseAu(d).cur = None /\ CloseAu(d).lastTs = d.cur.ts
        /\ CloseAu(d).parked = d.parked /\ CloseAu(d).nacks = d.nacks
        /\ \E o \in O : o.ts = d.cur.ts /\ CloseAu(d).queue = Append(d.queue, o)
    BY <1>6, <1>9, Closes
  <2> HIDE DEF e
  <2> QED BY <1>9, <2>1, <2>2, <2>3
<1>11. ASSUME ~Whole(u) PROVE e = d
  BY <1>11
<1> HIDE DEF e
<1>12. e \in AssemblerOver(U, O, BOOLEAN) /\ e.parked = None /\ e.nacks = d.nacks
  BY <1>6, <1>9, <1>10, <1>11
<1>13. /\ r.asm.cur = e.cur /\ r.asm.lastTs = e.lastTs /\ r.asm.parked = None
       /\ r.asm.nacks = d.nacks
  <2>1. CASE e.queue = <<>>
    <3>1. r = [asm |-> e, out |-> <<>>]
      BY <1>1, <1>12, <2>1, PollsEmpty
    <3> QED BY <1>12, <3>1
  <2>2. CASE e.queue # <<>>
    BY <1>1, <1>12, <2>2, PollsOne
  <2> QED BY <2>1, <2>2
<1>14. e.queue # <<>> => r.out = <<Head(e.queue)>> /\ r.asm.queue = Tail(e.queue)
  BY <1>1, <1>12, PollsOne
<1>15. PlainUnit(a, p, u, r)
  <2>1. u.ts = p.ts /\ p.seq \in u.seqs
    BY <1>6, <1>7, <1>8 DEF GrownTo
  <2>2. Whole(u) => r.asm.cur = None /\ r.asm.lastTs = u.ts
    BY <1>10, <1>13
  <2>3. ~Whole(u) => r.asm.cur = u /\ r.asm.lastTs = b.lastTs
    BY <1>9, <1>11, <1>13
  <2>4. b.lastTs = IF Displaces(a, p) THEN a.cur.ts ELSE a.lastTs
    BY <1>3, <1>4
  <2>5. a.cur # None /\ ~Displaces(a, p) => a.cur.seqs \subseteq u.seqs
    BY <1>4, <1>8
  <2> HIDE DEF u
  <2> QED BY <2>1, <2>2, <2>3, <2>4, <2>5 DEF PlainUnit
<1>16. PlainAsks(a, p, u, r)
  <2>1. CASE b.cur = None
    <3>1. ~(a.cur # None /\ ~Displaces(a, p))
      BY <1>4, <2>1
    <3> QED BY <1>7, <1>13, <2>1, <3>1 DEF PlainAsks
  <2>2. CASE b.cur # None
    <3>1. b = a /\ a.cur # None /\ ~Displaces(a, p)
      BY <1>3, <1>4, <2>2
    <3>2. AsksIfNew(d, a)
      BY <1>8, <2>2, <3>1
    <3>3. CASE d.cur.reported = a.cur.reported /\ d.nacks = a.nacks
      BY <1>2, <1>13, <3>3 DEF PlainAsks
    <3>4. CASE /\ ~a.cur.reported /\ d.cur.reported /\ ~Whole(d.cur)
               /\ d.nacks = a.nacks \cup MissingRanges(d.cur.seqs)
      BY <1>2, <1>13, <3>1, <3>4 DEF PlainAsks
    <3> QED BY <3>2, <3>3, <3>4 DEF AsksIfNew
  <2> QED BY <2>1, <2>2
<1>17. ASSUME ~Whole(u), ~Displaces(a, p) PROVE r.out = <<>> /\ r.asm.queue = <<>>
  <2>1. e.queue = <<>>
    BY <1>2, <1>4, <1>9, <1>11, <1>17
  <2>2. r = [asm |-> e, out |-> <<>>]
    BY <1>1, <1>12, <2>1, PollsEmpty
  <2> QED BY <2>1, <2>2
<1>18. ASSUME ~Whole(u), Displaces(a, p)
       PROVE  \E o \in OutcomeType : r.out = <<o>> /\ o.ts = a.cur.ts /\ r.asm.queue = <<>>
  <2>1. PICK o \in O : o.ts = a.cur.ts /\ e.queue = <<o>>
    BY <1>3, <1>9, <1>11, <1>18
  <2>2. e.queue # <<>>
    BY <2>1, OneLong
  <2>3. r.out = <<o>> /\ r.asm.queue = <<>>
    <3>1. Head(e.queue) = o /\ Tail(e.queue) = <<>>
      BY <2>1, OneLong
    <3> QED BY <1>14, <2>2, <3>1
  <2> QED BY <2>1, <2>3
<1>19. ASSUME Whole(u), ~Displaces(a, p)
       PROVE  \E o \in OutcomeType : r.out = <<o>> /\ o.ts = u.ts /\ r.asm.queue = <<>>
  <2>1. PICK o \in O : o.ts = u.ts /\ e.queue = Append(b.queue, o)
    BY <1>10, <1>19
  <2>2. e.queue = <<o>> /\ e.queue # <<>>
    BY <1>2, <1>4, <1>19, <2>1, OneLong
  <2>4. r.out = <<o>> /\ r.asm.queue = <<>>
    <3>1. Head(e.queue) = o /\ Tail(e.queue) = <<>>
      BY <2>2, OneLong
    <3> QED BY <1>14, <2>2, <3>1
  <2> QED BY <2>1, <2>4
<1>20. ASSUME Whole(u), Displaces(a, p)
       PROVE  \E o, n \in OutcomeType : /\ r.out = <<o>> /\ o.ts = a.cur.ts
                                        /\ r.asm.queue = <<n>> /\ n.ts = u.ts
  <2>1. PICK n \in O : n.ts = u.ts /\ e.queue = Append(b.queue, n)
    BY <1>10, <1>20
  <2>2. PICK o \in O : o.ts = a.cur.ts /\ b.queue = <<o>>
    BY <1>3, <1>20
  <2>3. e.queue = <<o, n>> /\ e.queue # <<>>
    BY <2>1, <2>2, TwoLong
  <2>5. r.out = <<o>> /\ r.asm.queue = <<n>>
    <3>1. Head(e.queue) = o /\ Tail(e.queue) = <<n>>
      BY <2>3, TwoLong
    <3> QED BY <1>14, <2>3, <3>1
  <2> QED BY <2>1, <2>2, <2>5
<1>21. PlainOutcomes(a, p, u, r)
  <2> HIDE DEF u
  <2> QED BY <1>17, <1>18, <1>19, <1>20 DEF PlainOutcomes
<1> QED BY <1>6, <1>13, <1>15, <1>16, <1>21 DEF r

-----------------------------------------------------------------------------
(* Units of a bounded size: no frame is discarded half-way.                 *)

\* No larger than its packets, if none of them is above `most`.
FitUnits(most) == {au \in AuWithinFrame : au.size <= Cardinality(au.seqs) * most}

LEMMA SeqSetsFinite ==
  ASSUME NEW s \in SUBSET SeqNo
  PROVE  IsFiniteSet(s) /\ Cardinality(s) \in Nat
<1>1. IsFiniteSet(SeqNo)
  BY FS_Interval, SeqSizeAssumption DEF SeqNo
<1>2. IsFiniteSet(s)
  BY <1>1, FS_Subset
<1> QED BY <1>2, FS_CardinalityType

LEMMA FitClosed ==
  ASSUME NEW most \in Nat, \A p \in Packets : p.size <= most
  PROVE  Closed(FitUnits(most), OutcomeType)
<1>0. Closed(AuWithinFrame, OutcomeType)
  BY FrameUnitsClosed
<1>1. ASSUME NEW p \in Packets PROVE NewAu(p) \in FitUnits(most)
  <2>1. NewAu(p) \in AuWithinFrame /\ NewAu(p).seqs = {p.seq} /\ NewAu(p).size = p.size
    BY <1>0 DEF Closed, NewAu
  <2>2. Cardinality({p.seq}) = 1
    BY FS_Singleton
  <2>3. p.size <= 1 * most
    OBVIOUS
  <2> QED BY <2>1, <2>2, <2>3 DEF FitUnits
<1>2. ASSUME NEW au \in FitUnits(most), NEW p \in Packets, p.ts = au.ts, p.seq \notin au.seqs
      PROVE  Absorb(au, p) \in FitUnits(most) /\ RepairedAu(au, p) \in FitUnits(most)
  <2>1. au \in AuWithinFrame /\ au \in Au /\ au.size <= Cardinality(au.seqs) * most
    BY DEF FitUnits, AuWithinFrame
  <2>2. Absorb(au, p) \in AuWithinFrame /\ RepairedAu(au, p) \in AuWithinFrame
    BY <1>0, <1>2, <2>1 DEF Closed
  <2>3. /\ Absorb(au, p).seqs = au.seqs \cup {p.seq} /\ Absorb(au, p).size = au.size + p.size
        /\ RepairedAu(au, p).seqs = au.seqs \cup {p.seq} /\ RepairedAu(au, p).size = au.size + p.size
    BY <2>1 DEF Absorb, RepairedAu, Au
  <2>4. IsFiniteSet(au.seqs) /\ Cardinality(au.seqs) \in Nat
    BY <2>1, SeqSetsFinite DEF Au
  <2>5. Cardinality(au.seqs \cup {p.seq}) = Cardinality(au.seqs) + 1
    BY <1>2, <2>4, FS_AddElement
  <2>6. au.size \in Nat /\ p.size \in Nat
    BY <2>1, PacketType DEF Au, Packet
  <2>7. au.size + p.size <= (Cardinality(au.seqs) + 1) * most
    <3>1. ASSUME NEW c \in Nat, NEW x \in Nat, NEW y \in Nat, x <= c * most, y <= most
          PROVE  x + y <= (c + 1) * most
      BY <3>1
    <3> QED BY <2>1, <2>4, <2>6, <3>1
  <2> QED BY <2>2, <2>3, <2>5, <2>7 DEF FitUnits
<1>3. ASSUME NEW au \in FitUnits(most), NEW p \in Packets,
             p.ts = au.ts, p.marker, p.seq \in au.seqs
      PROVE  Marked(au) \in FitUnits(most)
  <2>1. au \in AuWithinFrame /\ au \in Au
    BY DEF FitUnits, AuWithinFrame
  <2>2. Marked(au) \in AuWithinFrame
    BY <1>0, <1>3, <2>1 DEF Closed
  <2>3. Marked(au).seqs = au.seqs /\ Marked(au).size = au.size
    BY <2>1 DEF Marked, Au
  <2> QED BY <2>2, <2>3 DEF FitUnits
<1>4. ASSUME NEW au \in FitUnits(most), NEW b \in BOOLEAN
      PROVE  [au EXCEPT !.reported = b] \in FitUnits(most)
  <2>1. au \in AuWithinFrame /\ au \in Au
    BY DEF FitUnits, AuWithinFrame
  <2>2. [au EXCEPT !.reported = b] \in AuWithinFrame
    BY <1>0, <2>1 DEF Closed
  <2>3. [au EXCEPT !.reported = b].seqs = au.seqs /\ [au EXCEPT !.reported = b].size = au.size
    BY <2>1 DEF Au
  <2> QED BY <2>2, <2>3 DEF FitUnits
<1>5. ASSUME NEW au \in FitUnits(most) PROVE Older(au) \in FitUnits(most)
  <2>1. au \in AuWithinFrame /\ au \in Au
    BY DEF FitUnits, AuWithinFrame
  <2>2. Older(au) \in AuWithinFrame
    BY <1>0, <2>1 DEF Closed
  <2>3. Older(au).seqs = au.seqs /\ Older(au).size = au.size
    BY <2>1 DEF Older, Au
  <2> QED BY <2>2, <2>3 DEF FitUnits
<1>6. FitUnits(most) \subseteq AuWithinFrame
  BY DEF FitUnits
<1> QED BY <1>0, <1>1, <1>2, <1>3, <1>4, <1>5, <1>6 DEF Closed

\* What FramesFit is for.
LEMMA FitUnitsFit ==
  ASSUME NEW most \in Nat, NEW au \in FitUnits(most),
         \A p \in Packets : Cardinality(FrameSeqs(p.ts)) * most <= MaxAuSize
  PROVE  au.size <= MaxAuSize
<1>1. /\ au \in Au /\ au.seqs \subseteq FrameSeqs(au.ts) /\ au.seqs # {}
      /\ au.size <= Cardinality(au.seqs) * most
  BY DEF FitUnits, AuWithinFrame, Au
<1>2. PICK p \in Packets : p.ts = au.ts
  BY <1>1 DEF FrameSeqs, Frame
<1>3. FrameSeqs(au.ts) \in SUBSET SeqNo
  BY PacketType DEF FrameSeqs, Frame, Packet
<1>4. IsFiniteSet(FrameSeqs(au.ts)) /\ Cardinality(FrameSeqs(au.ts)) \in Nat /\ Cardinality(au.seqs) \in Nat
  BY <1>1, <1>3, SeqSetsFinite DEF Au
<1>5. Cardinality(au.seqs) <= Cardinality(FrameSeqs(au.ts))
  BY <1>1, <1>4, FS_Subset
<1>6. Cardinality(au.seqs) * most <= Cardinality(FrameSeqs(au.ts)) * most
  <2>1. ASSUME NEW c \in Nat, NEW d \in Nat, c <= d PROVE c * most <= d * most
    BY <2>1
  <2> QED BY <1>4, <1>5, <2>1
<1>7. /\ au.size \in Nat /\ MaxAuSize \in Nat
      /\ Cardinality(au.seqs) * most \in Nat /\ Cardinality(FrameSeqs(au.ts)) * most \in Nat
  BY <1>1, <1>4, TimingAssumption DEF Au
<1>8. Cardinality(FrameSeqs(au.ts)) * most <= MaxAuSize
  BY <1>2
<1> QED BY <1>1, <1>6, <1>7, <1>8

-----------------------------------------------------------------------------
(* The assembler until it parks a unit, behind any network.                 *)

\* Nothing reaches it and it answers nothing: RepairLink!Quiet.
Untouched == asm' = asm /\ lastOut' = lastOut /\ slotUsed' = slotUsed /\ out' = <<>> /\ asked' = {}

\* The unit in progress is newer than what was resolved last, and so is what waits
\* in the queue than what was handed out last; the receiver has had the rest.
InLine(a, last) ==
    /\ a.cur # None /\ a.lastTs # None => IsNewer(a.cur.ts, a.lastTs)
    /\ a.queue = <<>> => last = a.lastTs
    /\ a.queue # <<>> => \E o \in OutcomeType :
          a.queue = <<o>> /\ o.ts = a.lastTs /\ (last # None => IsNewer(o.ts, last))

PlainInv ==
    /\ asm.nacks = {}
    /\ ~slotUsed => asm.parked = None /\ InLine(asm, lastOut.ts)

\* What a call hands out follows what was handed out last.
Emits ==
    \/ lastOut' = lastOut
    \/ \E t \in Ts : /\ lastOut.ts # None => IsNewer(t, lastOut.ts)
                     /\ lastOut' = [ts |-> t, odd |-> ~lastOut.odd]

SentTs == {p.ts : p \in Packets}

\* What was resolved stays so, and the unit in progress either grows or has been
\* resolved.
Follows(a, b) ==
    /\ \/ b.lastTs = a.lastTs
       \/ /\ b.lastTs # None /\ (a.lastTs # None => IsNewer(b.lastTs, a.lastTs))
          /\ b.lastTs \in SentTs \/ (a.cur # None /\ b.lastTs = a.cur.ts)
    /\ a.cur # None =>
          \/ b.lastTs # None /\ (b.lastTs = a.cur.ts \/ IsNewer(b.lastTs, a.cur.ts))
          \/ /\ b.cur # None /\ b.cur.ts = a.cur.ts
             /\ a.cur.seqs \subseteq b.cur.seqs /\ (a.cur.reported => b.cur.reported)

\* What is asked for is asked for now, of a unit not reported before and not
\* resolved.
AsksOfUnit(a, b, ranges) ==
    \/ ranges = {}
    \/ /\ b.cur # None /\ b.cur.reported
       /\ a.cur # None /\ a.cur.ts = b.cur.ts /\ ~a.cur.reported
       /\ ranges = MissingRanges(b.cur.seqs)

\* The packet pushed is in the unit, or resolved, or too late.
TakesIn(b, p) ==
    \/ b.lastTs # None /\ ~IsNewer(p.ts, b.lastTs)
    \/ b.cur # None /\ p.ts = b.cur.ts /\ p.seq \in b.cur.seqs
    \/ b.cur # None /\ p.ts # b.cur.ts /\ ~IsNewer(p.ts, b.cur.ts)

LEMMA NotNewerThanItself == \A t \in Ts : ~IsNewer(t, t)
BY TimingAssumption DEF IsNewer, Ts

\* The part of a call that returns r and has parked nothing.
LEMMA PlainReturns ==
  ASSUME NEW r, Returns(r),
         StatesOver(Au, OutcomeType, BOOLEAN), r \in CallOver(Au, OutcomeType, BOOLEAN),
         asm.nacks = {}, ~slotUsed', r.asm.parked = None,
         \/ r.out = <<>> /\ InLine(r.asm, lastOut.ts)
         \/ \E o \in OutcomeType : /\ r.out = <<o>> /\ InLine(r.asm, o.ts)
                                   /\ lastOut.ts # None => IsNewer(o.ts, lastOut.ts)
  PROVE  /\ PlainInv' /\ Emits
         /\ asm'.cur = r.asm.cur /\ asm'.lastTs = r.asm.lastTs
         /\ asked' = r.asm.nacks
<1>1. r.asm \in AssemblerOver(Au, OutcomeType, BOOLEAN)
  BY DEF CallOver
<1>2. asm' = [r.asm EXCEPT !.nacks = {}] /\ asked' = r.asm.nacks
  BY DEF Returns, TakeNackRanges
<1>3. /\ asm'.cur = r.asm.cur /\ asm'.lastTs = r.asm.lastTs /\ asm'.queue = r.asm.queue
      /\ asm'.parked = None /\ asm'.nacks = {}
  BY <1>1, <1>2 DEF AssemblerOver
<1>4. CASE r.out = <<>> /\ InLine(r.asm, lastOut.ts)
  <2>1. lastOut' = lastOut
    BY <1>4 DEF Returns
  <2> QED BY <1>2, <1>3, <1>4, <2>1 DEF PlainInv, InLine, Emits
<1>5. CASE \E o \in OutcomeType : /\ r.out = <<o>> /\ InLine(r.asm, o.ts)
                                  /\ lastOut.ts # None => IsNewer(o.ts, lastOut.ts)
  <2>1. PICK o \in OutcomeType : /\ r.out = <<o>> /\ InLine(r.asm, o.ts)
                                 /\ lastOut.ts # None => IsNewer(o.ts, lastOut.ts)
    BY <1>5
  <2>2. r.out # <<>> /\ r.out[1] = o
    BY <2>1
  <2>3. lastOut' = [ts |-> o.ts, odd |-> ~lastOut.odd]
    BY <2>2 DEF Returns
  <2>4. o.ts \in Ts /\ lastOut'.ts = o.ts
    BY <2>3 DEF OutcomeType
  <2>5. Emits
    BY <2>1, <2>3, <2>4 DEF Emits
  <2> QED BY <1>2, <1>3, <2>1, <2>4, <2>5 DEF PlainInv, InLine
<1> QED BY <1>4, <1>5

\* What the proofs about the outcomes need of a call that parks nothing.
PlainCall(r) ==
    /\ \/ r.out = <<>> /\ InLine(r.asm, lastOut.ts)
       \/ \E o \in OutcomeType : /\ r.out = <<o>> /\ InLine(r.asm, o.ts)
                                 /\ lastOut.ts # None => IsNewer(o.ts, lastOut.ts)

LEMMA PlainPushCall ==
  ASSUME NEW U, NEW O, Closed(U, O), None \notin U, O \subseteq OutcomeType,
         \A au \in U : au.size <= MaxAuSize,
         asm \in AssemblerOver(U, O, BOOLEAN), Plain(asm), InLine(asm, lastOut.ts),
         NEW p \in Packets, PushPacket(asm, p).asm.parked = None
  PROVE  /\ PlainCall(PushPacket(asm, p))
         /\ Follows(asm, PushPacket(asm, p).asm)
         /\ AsksOfUnit(asm, PushPacket(asm, p).asm, PushPacket(asm, p).asm.nacks)
         /\ TakesIn(PushPacket(asm, p).asm, p)
<1> DEFINE r == PushPacket(asm, p)
<1>0. /\ asm.parked = None /\ asm.queue = <<>> /\ asm.nacks = {}
      /\ asm.cur \in U \cup {None} /\ asm.lastTs \in Ts \cup {None}
      /\ lastOut.ts = asm.lastTs
  BY DEF Plain, AssemblerOver, InLine
<1>1. CASE TooLate(asm, p)
  <2>1. r = Silent(asm)
    BY <1>1, PlainPush
  <2>2. r.asm = asm /\ r.out = <<>>
    BY <2>1 DEF Silent
  <2> HIDE DEF r
  <2>3. PlainCall(r)
    BY <1>0, <2>2 DEF PlainCall
  <2>4. Follows(asm, r.asm)
    BY <2>2 DEF Follows
  <2>5. AsksOfUnit(asm, r.asm, r.asm.nacks)
    BY <1>0, <2>2 DEF AsksOfUnit
  <2>6. TakesIn(r.asm, p)
    BY <1>1, <2>2 DEF TooLate, TakesIn
  <2> QED BY <2>3, <2>4, <2>5, <2>6 DEF r
<1>2. CASE ~TooLate(asm, p)
  <2>1. PICK u \in U :
            /\ PlainUnit(asm, p, u, r)
            /\ PlainAsks(asm, p, u, r)
            /\ PlainOutcomes(asm, p, u, r)
    BY <1>2, PlainEffect
  <2> HIDE DEF r
  <2>2. /\ u.ts = p.ts /\ p.seq \in u.seqs /\ u.ts \in Ts /\ u # None
        /\ asm.lastTs # None => IsNewer(u.ts, asm.lastTs)
        /\ Displaces(asm, p) => IsNewer(u.ts, asm.cur.ts)
    <3>1. u \in Au
      BY DEF Closed
    <3> QED BY <1>2, <2>1, <3>1 DEF PlainUnit, TooLate, Displaces, Au
  <2>3. Displaces(asm, p) => asm.cur # None /\ (asm.lastTs # None => IsNewer(asm.cur.ts, asm.lastTs))
    BY DEF Displaces, InLine
  <2>4. ~Displaces(asm, p) /\ asm.cur # None => asm.cur.ts = u.ts /\ asm.cur.seqs \subseteq u.seqs
    BY <2>1, <2>2 DEF Displaces, PlainUnit
  <2>5. Whole(u) => r.asm.cur = None /\ r.asm.lastTs = u.ts
    BY <2>1 DEF PlainUnit
  <2>6. ~Whole(u) => r.asm.cur = u /\ (Displaces(asm, p) => r.asm.lastTs = asm.cur.ts)
                                   /\ (~Displaces(asm, p) => r.asm.lastTs = asm.lastTs)
    BY <2>1 DEF PlainUnit
  <2>7. asm.cur # None => asm.cur.ts \in Ts
    BY <1>0 DEF Closed, Au
  <2>8. PlainCall(r)
    <3>1. CASE ~Whole(u) /\ ~Displaces(asm, p)
      <4>1. r.out = <<>> /\ r.asm.queue = <<>>
        BY <2>1, <3>1 DEF PlainOutcomes
      <4> QED BY <1>0, <2>1, <2>2, <2>6, <3>1, <4>1 DEF PlainCall, InLine
    <3>2. CASE ~Whole(u) /\ Displaces(asm, p)
      <4>1. PICK o \in OutcomeType : r.out = <<o>> /\ o.ts = asm.cur.ts /\ r.asm.queue = <<>>
        BY <2>1, <3>2 DEF PlainOutcomes
      <4>2. InLine(r.asm, o.ts)
        BY <2>2, <2>6, <3>2, <4>1 DEF InLine
      <4>3. lastOut.ts # None => IsNewer(o.ts, lastOut.ts)
        BY <1>0, <2>3, <3>2, <4>1
      <4> QED BY <2>1, <4>1, <4>2, <4>3 DEF PlainCall
    <3>3. CASE Whole(u) /\ ~Displaces(asm, p)
      <4>1. PICK o \in OutcomeType : r.out = <<o>> /\ o.ts = u.ts /\ r.asm.queue = <<>>
        BY <2>1, <3>3 DEF PlainOutcomes
      <4>2. InLine(r.asm, o.ts)
        BY <2>5, <3>3, <4>1 DEF InLine
      <4>3. lastOut.ts # None => IsNewer(o.ts, lastOut.ts)
        BY <1>0, <2>2, <4>1
      <4> QED BY <2>1, <4>1, <4>2, <4>3 DEF PlainCall
    <3>4. CASE Whole(u) /\ Displaces(asm, p)
      <4>1. PICK o \in OutcomeType, n \in OutcomeType :
               /\ r.out = <<o>> /\ o.ts = asm.cur.ts
               /\ r.asm.queue = <<n>> /\ n.ts = u.ts
        BY <2>1, <3>4 DEF PlainOutcomes
      <4>2. InLine(r.asm, o.ts)
        <5>1. r.asm.queue # <<>>
          BY <4>1, OneLong
        <5> QED BY <2>2, <2>5, <3>4, <4>1, <5>1 DEF InLine
      <4>3. lastOut.ts # None => IsNewer(o.ts, lastOut.ts)
        BY <1>0, <2>3, <3>4, <4>1
      <4> QED BY <2>1, <4>1, <4>2, <4>3 DEF PlainCall
    <3> QED BY <3>1, <3>2, <3>3, <3>4
  <2>9. Follows(asm, r.asm)
    <3>0. u.ts \in SentTs
      BY <2>2 DEF SentTs
    <3>1. \/ r.asm.lastTs = asm.lastTs
          \/ /\ r.asm.lastTs # None /\ (asm.lastTs # None => IsNewer(r.asm.lastTs, asm.lastTs))
             /\ r.asm.lastTs \in SentTs \/ (asm.cur # None /\ r.asm.lastTs = asm.cur.ts)
      BY <2>2, <2>3, <2>5, <2>6, <2>7, <3>0, NoneAssumption
    <3>2. ASSUME asm.cur # None, ~Displaces(asm, p), ~Whole(u)
          PROVE  r.asm.cur # None /\ r.asm.cur.ts = asm.cur.ts
                 /\ asm.cur.seqs \subseteq r.asm.cur.seqs /\ (asm.cur.reported => r.asm.cur.reported)
      <4>1. asm.cur.reported => u.reported
        BY <2>1, <3>2 DEF PlainAsks
      <4> QED BY <2>2, <2>4, <2>6, <3>2, <4>1
    <3>3. ASSUME asm.cur # None, Displaces(asm, p) \/ Whole(u)
          PROVE  r.asm.lastTs # None /\ (r.asm.lastTs = asm.cur.ts \/ IsNewer(r.asm.lastTs, asm.cur.ts))
      BY <2>2, <2>4, <2>5, <2>6, <2>7, <3>3, NoneAssumption
    <3> QED BY <3>1, <3>2, <3>3 DEF Follows
  <2>10. AsksOfUnit(asm, r.asm, r.asm.nacks)
    <3>1. CASE r.asm.nacks = {}
      BY <3>1 DEF AsksOfUnit
    <3>2. CASE /\ r.asm.nacks = MissingRanges(u.seqs)
               /\ asm.cur # None /\ ~Displaces(asm, p) /\ ~asm.cur.reported
               /\ u.reported /\ ~Whole(u)
      BY <2>2, <2>4, <2>6, <3>2 DEF AsksOfUnit
    <3> QED BY <2>1, <3>1, <3>2 DEF PlainAsks
  <2>11. TakesIn(r.asm, p)
    <3>1. CASE Whole(u)
      BY <2>2, <2>5, <3>1, NotNewerThanItself, NoneAssumption DEF TakesIn
    <3>2. CASE ~Whole(u)
      BY <2>2, <2>6, <3>2 DEF TakesIn
    <3> QED BY <3>1, <3>2
  <2> QED BY <2>8, <2>9, <2>10, <2>11 DEF r
<1> QED BY <1>1, <1>2

LEMMA PlainFlushCall ==
  ASSUME NEW U, NEW O, Closed(U, O), None \notin U, O \subseteq OutcomeType,
         asm \in AssemblerOver(U, O, BOOLEAN), Plain(asm), InLine(asm, lastOut.ts),
         FlushDue(asm).asm.parked = None
  PROVE  /\ PlainCall(FlushDue(asm))
         /\ Follows(asm, FlushDue(asm).asm)
         /\ FlushDue(asm).asm.nacks = {}
<1> DEFINE r == FlushDue(asm)
           due == asm.cur # None /\ asm.cur.marker /\ asm.cur.age > FillWindow
<1>0. /\ asm.parked = None /\ asm.queue = <<>> /\ asm.nacks = {}
      /\ asm.cur \in U \cup {None} /\ asm.lastTs \in Ts \cup {None}
      /\ lastOut.ts = asm.lastTs
  BY DEF Plain, AssemblerOver, InLine
<1>1. ExpireIfDue(asm) = asm
  BY <1>0 DEF ExpireIfDue
<1>2. CASE ~due
  <2>1. r = Silent(asm)
    BY <1>1, <1>2 DEF FlushDue
  <2>2. r.asm = asm /\ r.out = <<>>
    BY <2>1 DEF Silent
  <2> HIDE DEF r
  <2>3. PlainCall(r)
    BY <1>0, <2>2 DEF PlainCall
  <2>4. Follows(asm, r.asm)
    BY <2>2 DEF Follows
  <2> QED BY <1>0, <2>2, <2>3, <2>4 DEF r
<1>3. CASE due
  <2>1. r = PollOutcome(CloseAu(asm))
    <3>1. CASE GraceEligible(asm.cur) /\ SlotFree(asm)
      <4>1. r = Silent(Park(asm, asm.cur, FirstSeq(asm.cur.seqs)))
        BY <1>1, <1>3, <3>1 DEF FlushDue
      <4>2. asm.cur \in U /\ U \subseteq Au
        BY <1>0, <1>3 DEF Closed
      <4>3. FirstSeq(asm.cur.seqs) \in SeqNo
        BY <4>2, UnitEnds
      <4>4. Park(asm, asm.cur, FirstSeq(asm.cur.seqs)).parked # None
        BY <4>2, <4>3, ParksUnit
      <4> QED BY <4>1, <4>4 DEF Silent
    <3>2. CASE ~(GraceEligible(asm.cur) /\ SlotFree(asm))
      BY <1>1, <1>3, <3>2 DEF FlushDue
    <3> QED BY <3>1, <3>2
  <2> HIDE DEF r
  <2>2. CloseAu(asm) \in AssemblerOver(U, O, BOOLEAN) /\ asm.cur # None
    BY <1>3, CloseAuOver
  <2>3. /\ CloseAu(asm).cur = None /\ CloseAu(asm).lastTs = asm.cur.ts
        /\ CloseAu(asm).parked = None /\ CloseAu(asm).nacks = {}
    BY <1>0, <2>2, Closes
  <2>4. PICK o \in O : o.ts = asm.cur.ts /\ CloseAu(asm).queue = Append(asm.queue, o)
    BY <2>2, Closes
  <2>5. CloseAu(asm).queue = <<o>> /\ CloseAu(asm).queue # <<>>
    BY <1>0, <2>4, OneLong
  <2>6. Head(CloseAu(asm).queue) = o /\ Tail(CloseAu(asm).queue) = <<>>
    BY <2>5, OneLong
  <2>7. /\ r.out = <<o>> /\ r.asm.queue = <<>> /\ r.asm.cur = None /\ r.asm.lastTs = asm.cur.ts
        /\ r.asm.parked = None /\ r.asm.nacks = {}
    <3> DEFINE b == CloseAu(asm)
    <3>1. /\ b \in AssemblerOver(U, O, BOOLEAN) /\ b.parked = None /\ b.queue # <<>> /\ r = PollOutcome(b)
          /\ b.cur = None /\ b.lastTs = asm.cur.ts /\ b.nacks = {}
          /\ Head(b.queue) = o /\ Tail(b.queue) = <<>>
      BY <2>1, <2>2, <2>3, <2>5, <2>6
    <3> HIDE DEF b
    <3>2. /\ r.out = <<Head(b.queue)>> /\ r.asm.queue = Tail(b.queue)
          /\ r.asm.cur = b.cur /\ r.asm.lastTs = b.lastTs
          /\ r.asm.parked = None /\ r.asm.nacks = b.nacks
      BY <3>1, PollsOne
    <3> QED BY <3>1, <3>2
  <2>8. asm.cur.ts \in Ts /\ (asm.lastTs # None => IsNewer(asm.cur.ts, asm.lastTs))
    BY <1>0, <2>2 DEF Closed, Au, InLine
  <2>9. InLine(r.asm, o.ts)
    BY <2>4, <2>7 DEF InLine
  <2>10. PlainCall(r)
    BY <1>0, <2>4, <2>7, <2>8, <2>9 DEF PlainCall
  <2>11. Follows(asm, r.asm)
    BY <2>2, <2>7, <2>8, NoneAssumption DEF Follows
  <2> QED BY <2>7, <2>10, <2>11 DEF r
<1> QED BY <1>2, <1>3

LEMMA PlainPollCall ==
  ASSUME NEW U, NEW O, Closed(U, O), O \subseteq OutcomeType,
         asm \in AssemblerOver(U, O, BOOLEAN), asm.parked = None, asm.nacks = {},
         InLine(asm, lastOut.ts), asm.queue # <<>>
  PROVE  /\ PlainCall(PollOutcome(asm))
         /\ Follows(asm, PollOutcome(asm).asm)
         /\ PollOutcome(asm).asm.nacks = {}
<1> DEFINE r == PollOutcome(asm)
<1>1. PICK o \in OutcomeType :
        asm.queue = <<o>> /\ o.ts = asm.lastTs /\ (lastOut.ts # None => IsNewer(o.ts, lastOut.ts))
  BY DEF InLine
<1>2. Head(asm.queue) = o /\ Tail(asm.queue) = <<>>
  BY <1>1, OneLong
<1>3. /\ r.out = <<o>> /\ r.asm.queue = <<>> /\ r.asm.cur = asm.cur /\ r.asm.lastTs = asm.lastTs
      /\ r.asm.parked = None /\ r.asm.nacks = {}
  <2>1. /\ r.out = <<Head(asm.queue)>> /\ r.asm.queue = Tail(asm.queue)
        /\ r.asm.cur = asm.cur /\ r.asm.lastTs = asm.lastTs
        /\ r.asm.parked = None /\ r.asm.nacks = asm.nacks
    BY PollsOne
  <2> QED BY <1>2, <2>1
<1> HIDE DEF r
<1>4. InLine(r.asm, o.ts)
  BY <1>1, <1>3 DEF InLine
<1>5. PlainCall(r)
  BY <1>1, <1>3, <1>4 DEF PlainCall
<1>6. Follows(asm, r.asm)
  BY <1>3 DEF Follows
<1> QED BY <1>3, <1>5, <1>6 DEF r

\* Every step of the assembler that parks nothing, and the ones that leave it alone.
LEMMA PlainStep ==
  ASSUME NEW U, Closed(U, OutcomeType), None \notin U, U \subseteq Au,
         \A au \in U : au.size <= MaxAuSize,
         StatesOver(U, OutcomeType, BOOLEAN), PlainInv, ~slotUsed',
         Next \/ Untouched
  PROVE  /\ PlainInv' /\ Emits
         /\ Follows(asm, asm') /\ AsksOfUnit(asm, asm', asked')
         /\ \A p \in Packets : Push(p) => TakesIn(asm', p)
         /\ asked' # {} => \E p \in Packets : Push(p)
<1>0. ~slotUsed
  BY DEF Next, Push, Flush, Poll, Tick, Returns, Untouched
<1>1. /\ asm \in AssemblerOver(U, OutcomeType, BOOLEAN) /\ asm.parked = None /\ asm.nacks = {}
      /\ InLine(asm, lastOut.ts)
  BY <1>0 DEF StatesOver, PlainInv
<1>2. Drained => Plain(asm)
  BY <1>1 DEF Drained, Plain
<1>3. StatesOver(Au, OutcomeType, BOOLEAN)
  BY DEF StatesOver, AssemblerOver
<1> DEFINE Mild == /\ PlainInv' /\ Emits
                   /\ Follows(asm, asm') /\ AsksOfUnit(asm, asm', asked') /\ asked' = {}
<1>4. ASSUME NEW r, Returns(r), r \in CallOver(U, OutcomeType, BOOLEAN), PlainCall(r),
             Follows(asm, r.asm), AsksOfUnit(asm, r.asm, r.asm.nacks)
      PROVE  /\ PlainInv' /\ Emits
             /\ Follows(asm, asm') /\ AsksOfUnit(asm, asm', asked')
             /\ asm'.cur = r.asm.cur /\ asm'.lastTs = r.asm.lastTs /\ asked' = r.asm.nacks
  <2>1. r \in CallOver(Au, OutcomeType, BOOLEAN) /\ r.asm.parked = None
    BY <1>4 DEF CallOver, AssemblerOver, Returns
  <2>2. /\ PlainInv' /\ Emits
        /\ asm'.cur = r.asm.cur /\ asm'.lastTs = r.asm.lastTs /\ asked' = r.asm.nacks
    BY <1>1, <1>3, <1>4, <2>1, PlainReturns DEF PlainCall
  <2> QED BY <1>4, <2>2 DEF Follows, AsksOfUnit
<1>5. ASSUME NEW p \in Packets, Push(p)
      PROVE  /\ PlainInv' /\ Emits
             /\ Follows(asm, asm') /\ AsksOfUnit(asm, asm', asked') /\ TakesIn(asm', p)
  <2> DEFINE r == PushPacket(asm, p)
  <2>1. Plain(asm) /\ Returns(r) /\ r.asm.parked = None
    BY <1>2, <1>5 DEF Push, Returns
  <2>2. r \in CallOver(U, OutcomeType, BOOLEAN)
    BY <1>1, PushPacketOver
  <2>3. PlainCall(r) /\ Follows(asm, r.asm) /\ AsksOfUnit(asm, r.asm, r.asm.nacks) /\ TakesIn(r.asm, p)
    BY <1>1, <2>1, PlainPushCall
  <2> HIDE DEF r
  <2>4. /\ PlainInv' /\ Emits
        /\ Follows(asm, asm') /\ AsksOfUnit(asm, asm', asked')
        /\ asm'.cur = r.asm.cur /\ asm'.lastTs = r.asm.lastTs
    BY <1>4, <2>1, <2>2, <2>3
  <2> QED BY <2>3, <2>4 DEF TakesIn
<1>6. ASSUME Flush
      PROVE  Mild
  <2> DEFINE r == FlushDue(asm)
  <2>1. Plain(asm) /\ Returns(r) /\ r.asm.parked = None
    BY <1>2, <1>6 DEF Flush, Returns
  <2>2. r \in CallOver(U, OutcomeType, BOOLEAN)
    BY <1>1, FlushDueOver
  <2>3. PlainCall(r) /\ Follows(asm, r.asm) /\ r.asm.nacks = {}
    BY <1>1, <2>1, PlainFlushCall
  <2> HIDE DEF r
  <2> QED BY <1>4, <2>1, <2>2, <2>3 DEF AsksOfUnit
<1>7. ASSUME Poll
      PROVE  Mild
  <2> DEFINE r == PollOutcome(asm)
  <2>1. asm.queue # <<>> /\ Returns(r)
    BY <1>7 DEF Poll, Drained
  <2>2. r \in CallOver(U, OutcomeType, BOOLEAN)
    BY <1>1, PollOutcomeOver
  <2>3. PlainCall(r) /\ Follows(asm, r.asm) /\ r.asm.nacks = {}
    BY <1>1, <2>1, PlainPollCall
  <2> HIDE DEF r
  <2> QED BY <1>4, <2>1, <2>2, <2>3 DEF AsksOfUnit
<1>8. ASSUME Tick
      PROVE  Mild
  <2>1. /\ asm' = [asm EXCEPT !.cur = IF asm.cur = None THEN None ELSE Older(asm.cur), !.parked = None]
        /\ asked' = {} /\ lastOut' = lastOut
    BY <1>1, <1>8 DEF Tick, AssemblerTick
  <2>2. /\ asm'.cur = (IF asm.cur = None THEN None ELSE Older(asm.cur))
        /\ asm'.lastTs = asm.lastTs /\ asm'.queue = asm.queue
        /\ asm'.parked = None /\ asm'.nacks = {}
    BY <1>1, <2>1 DEF AssemblerOver
  <2>3. asm.cur # None =>
           /\ Older(asm.cur).ts = asm.cur.ts /\ Older(asm.cur).seqs = asm.cur.seqs
           /\ Older(asm.cur).reported = asm.cur.reported
           /\ Older(asm.cur) # None
    <3>1. asm.cur # None => asm.cur \in Au /\ Older(asm.cur) \in U
      BY <1>1 DEF AssemblerOver, Closed
    <3> QED BY <3>1 DEF Older, Au
  <2>4. PlainInv' /\ Emits
    BY <1>1, <2>1, <2>2, <2>3 DEF PlainInv, InLine, Emits
  <2>5. Follows(asm, asm') /\ AsksOfUnit(asm, asm', asked')
    BY <2>1, <2>2, <2>3 DEF Follows, AsksOfUnit
  <2> QED BY <2>1, <2>4, <2>5
<1>9. ASSUME Untouched
      PROVE  Mild
  BY <1>1, <1>9 DEF Untouched, PlainInv, InLine, Emits, Follows, AsksOfUnit
<1> QED BY <1>5, <1>6, <1>7, <1>8, <1>9 DEF Next

-----------------------------------------------------------------------------
(* The link: in-order delivery, losses and retransmissions.                 *)

\* A step of the link is one of the assembler, or leaves it alone.
LEMMA LinkSteps ==
  ASSUME LinkNext, sent \in Nat
  PROVE  \/ /\ \E i \in DOMAIN Stream : Push(Stream[i]) /\ got' = got \cup {Stream[i].seq}
            /\ requested' = requested \cup AskedSeqs'
         \/ /\ Flush \/ Poll \/ Tick \/ Untouched
            /\ UNCHANGED <<requested, got>>
<1>1. CASE Deliver
  <2>1. sent + 1 \in DOMAIN Stream
    BY <1>1, StreamAssumption DEF Deliver
  <2> QED BY <1>1, <2>1 DEF Deliver
<1>2. CASE Lose
  BY <1>2 DEF Lose, Quiet, Untouched
<1>3. ASSUME NEW i \in DOMAIN Stream, Retransmit(i) \/ LoseRetransmit(i)
      PROVE  \/ /\ \E j \in DOMAIN Stream : Push(Stream[j]) /\ got' = got \cup {Stream[j].seq}
                /\ requested' = requested \cup AskedSeqs'
             \/ Untouched /\ UNCHANGED <<requested, got>>
  BY <1>3 DEF Retransmit, LoseRetransmit, Quiet, Untouched
<1>4. CASE PumpFlush \/ PumpPoll \/ PumpTick
  BY <1>4 DEF PumpFlush, PumpPoll, PumpTick
<1> QED BY <1>1, <1>2, <1>3, <1>4 DEF LinkNext

LEMMA InStream ==
  ASSUME NEW i \in DOMAIN Stream
  PROVE  Stream[i] \in Packets
BY StreamAssumption

LEMMA LinkOver ==
  ASSUME NEW U, NEW G, Closed(U, OutcomeType), StatesOver(U, OutcomeType, G), sent \in Nat,
         [LinkNext]_linkVars
  PROVE  StatesOver(U, OutcomeType, G)' /\ sent' \in Nat /\ (asm.nacks = {} => asm'.nacks = {})
<1>1. sent' \in Nat
  BY DEF LinkNext, Deliver, Lose, Retransmit, LoseRetransmit, PumpFlush, PumpPoll, PumpTick, linkVars
<1>2. ASSUME NEW call, Returns(call), call \in CallOver(U, OutcomeType, G) PROVE asm'.nacks = {}
  <2>1. asm' = [call.asm EXCEPT !.nacks = {}] /\ call.asm \in AssemblerOver(U, OutcomeType, G)
    BY <1>2 DEF Returns, TakeNackRanges, CallOver
  <2> QED BY <2>1 DEF AssemblerOver
<1>3. asm \in AssemblerOver(U, OutcomeType, G) /\ None \notin U
  BY NoneAssumption DEF StatesOver, Closed
<1>4. ASSUME NEW p \in Packets, Push(p)
      PROVE  StatesOver(U, OutcomeType, G)' /\ asm'.nacks = {}
  <2>1. [Next]_vars
    BY <1>4 DEF Next
  <2>2. PushPacket(asm, p) \in CallOver(U, OutcomeType, G)
    BY <1>3, PushPacketOver
  <2> QED BY <1>2, <1>4, <2>1, <2>2, NextOver DEF Push
<1>5. CASE Flush
  <2>1. FlushDue(asm) \in CallOver(U, OutcomeType, G)
    BY <1>3, FlushDueOver
  <2> QED BY <1>1, <1>2, <1>5, <2>1, NextOver DEF Flush, Next
<1>6. CASE Poll
  <2>1. PollOutcome(asm) \in CallOver(U, OutcomeType, G)
    BY <1>3, PollOutcomeOver
  <2> QED BY <1>1, <1>2, <1>6, <2>1, NextOver DEF Poll, Next
<1>7. CASE Tick
  <2>1. StatesOver(U, OutcomeType, G)'
    BY <1>7, NextOver DEF Next
  <2>2. asm'.nacks = asm.nacks
    BY <1>3, <1>7 DEF Tick, AssemblerTick, AssemblerOver
  <2> QED BY <1>1, <2>1, <2>2
<1>8. CASE Untouched
  BY <1>1, <1>8 DEF Untouched, StatesOver
<1>9. CASE UNCHANGED linkVars
  BY <1>9 DEF linkVars, StatesOver
<1> QED BY <1>1, <1>4, <1>5, <1>6, <1>7, <1>8, <1>9, LinkSteps, InStream

\* What the link keeps for the units of the set U.
LinkStates(U) == StatesOver(U, OutcomeType, BOOLEAN) /\ sent \in Nat /\ PlainInv

LEMMA LinkStatesInit ==
  ASSUME NEW U, LinkInit
  PROVE  LinkStates(U)
<1>1. StatesOver(U, OutcomeType, BOOLEAN)
  BY InitOver DEF LinkInit
<1>2. /\ asm.nacks = {} /\ asm.parked = None /\ asm.queue = <<>> /\ asm.cur = None
      /\ asm.lastTs = None /\ lastOut.ts = None
  BY DEF LinkInit, Init, NewAssembler
<1> QED BY <1>1, <1>2 DEF LinkInit, LinkStates, PlainInv, InLine

LEMMA SlotStaysUsed ==
  ASSUME sent \in Nat, [LinkNext]_linkVars, ~slotUsed'
  PROVE  ~slotUsed
<1>1. CASE LinkNext
  BY <1>1, LinkSteps DEF Push, Flush, Poll, Tick, Returns, Untouched
<1>2. CASE UNCHANGED linkVars
  BY <1>2 DEF linkVars
<1> QED BY <1>1, <1>2

\* Nothing parked: the step as PlainStep has it.
LEMMA LinkStep ==
  ASSUME NEW U, Closed(U, OutcomeType), \A au \in U : au.size <= MaxAuSize,
         LinkStates(U), ~slotUsed', LinkNext
  PROVE  /\ PlainInv' /\ Emits
         /\ Follows(asm, asm') /\ AsksOfUnit(asm, asm', asked')
         /\ \A p \in Packets : Push(p) => TakesIn(asm', p)
         /\ asked' # {} => \E p \in Packets : Push(p)
<1>1. None \notin U /\ U \subseteq Au
  BY NoneAssumption DEF Closed
<1>2. Next \/ Untouched
  BY LinkSteps, InStream DEF LinkStates, Next
<1> QED BY <1>1, <1>2, PlainStep DEF LinkStates

LEMMA LinkStatesStep ==
  ASSUME NEW U, Closed(U, OutcomeType), \A au \in U : au.size <= MaxAuSize,
         LinkStates(U), [LinkNext]_linkVars
  PROVE  LinkStates(U)'
<1>1. StatesOver(U, OutcomeType, BOOLEAN)' /\ sent' \in Nat /\ asm'.nacks = {}
  BY LinkOver DEF LinkStates, PlainInv
<1>2. CASE ~slotUsed' /\ LinkNext
  BY <1>1, <1>2, LinkStep DEF LinkStates
<1>3. CASE slotUsed'
  BY <1>1, <1>3 DEF LinkStates, PlainInv
<1>4. CASE UNCHANGED linkVars
  BY <1>1, <1>4 DEF LinkStates, PlainInv, InLine, linkVars
<1> QED BY <1>2, <1>3, <1>4

\* Until the first unit is parked, which without the slot is never, every frame is
\* resolved at most once and in timestamp order, through any loss and any
\* retransmission, when no frame is above the size limit.
THEOREM OutcomesInOrder ==
  ASSUME FramesFit
  PROVE  LinkSpec => InOrder
<1> PICK most \in 0 .. MaxAuSize : \A p \in Packets :
        p.size <= most /\ Cardinality(FrameSeqs(p.ts)) * most <= MaxAuSize
  BY DEF FramesFit
<1> most \in Nat
  BY TimingAssumption
<1> DEFINE U == FitUnits(most)
<1>1. Closed(U, OutcomeType) /\ \A au \in U : au.size <= MaxAuSize
  BY FitClosed, FitUnitsFit
<1> HIDE DEF U
<1>2. LinkInit => LinkStates(U) /\ Order!Init
  <2>1. LinkInit => lastOut.ts = None /\ lastOut.odd = FALSE
    BY DEF LinkInit, Init
  <2> QED BY <2>1, LinkStatesInit DEF Order!Init
<1>3. LinkStates(U) /\ [LinkNext]_linkVars => LinkStates(U)'
  BY <1>1, LinkStatesStep
<1>4. LinkStates(U) /\ [LinkNext]_linkVars => [Order!Next]_<<lastOut.ts, lastOut.odd>>
  <2> SUFFICES ASSUME LinkStates(U), [LinkNext]_linkVars
               PROVE  [Order!Next]_<<lastOut.ts, lastOut.odd>>
    OBVIOUS
  <2>1. CASE lastOut' = lastOut
    BY <2>1
  <2>2. CASE lastOut' # lastOut
    <3>1. LinkNext
      BY <2>2 DEF linkVars
    <3>2. ~slotUsed'
      BY <2>2, <3>1, LinkSteps DEF LinkStates, Push, Flush, Poll, Tick, Returns, Untouched
    <3>3. PICK t \in Ts : /\ lastOut.ts # None => IsNewer(t, lastOut.ts)
                          /\ lastOut' = [ts |-> t, odd |-> ~lastOut.odd]
      BY <1>1, <2>2, <3>1, <3>2, LinkStep DEF Emits
    <3>4. Order!Resolve(t)
      BY <3>3 DEF Order!Resolve, Order!Later, IsNewer
    <3> QED BY <3>4 DEF Order!Next, Ts
  <2> QED BY <2>1, <2>2
<1> QED BY <1>2, <1>3, <1>4, PTL DEF LinkSpec, InOrder, Order!Spec

-----------------------------------------------------------------------------
(* What is asked for, until a unit is parked.                               *)

\* Within half a turn, newer is higher above the base.
LEMMA NewerIsHigher ==
  ASSUME WithinHalfTurn
  PROVE  \E height \in [SentTs -> Nat] :
           \A t, u \in SentTs : IsNewer(t, u) <=> height[t] > height[u]
<1>1. PICK base \in Ts : \A p \in Packets : (p.ts - base) % TsSize < TsSize \div 2
  BY DEF WithinHalfTurn
<1> DEFINE height == [t \in SentTs |-> (t - base) % TsSize]
<1>2. SentTs \subseteq Ts
  BY PacketType DEF SentTs, Packet
<1>3. \A t \in SentTs : (t - base) % TsSize \in Nat /\ (t - base) % TsSize < TsSize \div 2
  <2>1. \A t \in SentTs : (t - base) % TsSize < TsSize \div 2
    BY <1>1 DEF SentTs
  <2>2. \A t \in SentTs : (t - base) % TsSize \in Nat
    BY <1>2, TimingAssumption DEF Ts
  <2> QED BY <2>1, <2>2
<1>4. ASSUME NEW t \in SentTs, NEW u \in SentTs
      PROVE  IsNewer(t, u) <=> (t - base) % TsSize > (u - base) % TsSize
  <2>1. t \in 0 .. TsSize - 1 /\ u \in 0 .. TsSize - 1 /\ base \in 0 .. TsSize - 1
    BY <1>2 DEF Ts
  <2>2. /\ (t - base) % TsSize = IF t >= base THEN t - base ELSE t - base + TsSize
        /\ (u - base) % TsSize = IF u >= base THEN u - base ELSE u - base + TsSize
        /\ (t - u) % TsSize = IF t >= u THEN t - u ELSE t - u + TsSize
    BY <2>1, TimingAssumption
  <2>3. TsSize \div 2 \in Nat /\ 2 * (TsSize \div 2) <= TsSize /\ TsSize <= 2 * (TsSize \div 2) + 1
    BY TimingAssumption
  <2>4. (t - base) % TsSize < TsSize \div 2 /\ (u - base) % TsSize < TsSize \div 2
    BY <1>3
  <2>5. IsNewer(t, u) <=> (t - u) % TsSize # 0 /\ (t - u) % TsSize < TsSize \div 2
    BY DEF IsNewer
  <2> QED BY <2>1, <2>2, <2>3, <2>4, <2>5, TimingAssumption
<1>5. height \in [SentTs -> Nat]
  BY <1>3
<1>6. \A t, u \in SentTs : IsNewer(t, u) <=> height[t] > height[u]
  BY <1>4
<1> QED BY <1>5, <1>6

\* The frame is resolved, or everything of it that is to be asked for has been.
Settled(a, p) ==
    \/ a.lastTs # None /\ ~IsNewer(p.ts, a.lastTs)
    \/ a.cur # None /\ a.cur.ts = p.ts /\ a.cur.reported

OfStream(a) ==
    /\ a.lastTs \in SentTs \cup {None}
    /\ a.cur # None => a.cur.ts \in SentTs

LEMMA TakenStays ==
  ASSUME WithinHalfTurn, NEW a, NEW b, OfStream(a), OfStream(b), Follows(a, b), NEW p \in Packets
  PROVE  /\ TakesIn(a, p) => TakesIn(b, p)
         /\ Settled(a, p) => Settled(b, p)
<1>1. PICK height \in [SentTs -> Nat] : \A t, u \in SentTs : IsNewer(t, u) <=> height[t] > height[u]
  BY NewerIsHigher
<1>2. p.ts \in SentTs /\ SentTs \subseteq Ts /\ None \notin SentTs
  BY PacketType, NoneAssumption DEF SentTs, Packet
<1>3. \A t \in SentTs : height[t] \in Nat
  OBVIOUS
<1>4. ASSUME a.lastTs # None, ~IsNewer(p.ts, a.lastTs)
      PROVE  b.lastTs # None /\ ~IsNewer(p.ts, b.lastTs)
  <2>1. CASE b.lastTs = a.lastTs
    BY <1>4, <2>1
  <2>2. CASE b.lastTs # None /\ IsNewer(b.lastTs, a.lastTs)
    <3>1. a.lastTs \in SentTs /\ b.lastTs \in SentTs
      BY <1>4, <2>2 DEF OfStream
    <3>2. height[b.lastTs] > height[a.lastTs] /\ ~(height[p.ts] > height[a.lastTs])
      BY <1>1, <1>2, <1>4, <2>2, <3>1
    <3>3. ~(height[p.ts] > height[b.lastTs])
      BY <1>2, <1>3, <3>1, <3>2
    <3> QED BY <1>1, <1>2, <2>2, <3>1, <3>3
  <2> QED BY <1>4, <2>1, <2>2 DEF Follows
<1>5. ASSUME a.cur # None, ~IsNewer(p.ts, a.cur.ts),
             b.lastTs # None, b.lastTs = a.cur.ts \/ IsNewer(b.lastTs, a.cur.ts)
      PROVE  ~IsNewer(p.ts, b.lastTs)
  <2>1. a.cur.ts \in SentTs /\ b.lastTs \in SentTs
    BY <1>5 DEF OfStream
  <2>2. ~(height[p.ts] > height[a.cur.ts])
    BY <1>1, <1>2, <1>5, <2>1
  <2>3. height[b.lastTs] >= height[a.cur.ts]
    BY <1>1, <1>3, <1>5, <2>1
  <2>4. ~(height[p.ts] > height[b.lastTs])
    BY <1>2, <1>3, <2>1, <2>2, <2>3
  <2> QED BY <1>1, <1>2, <2>1, <2>4
<1>6. ~IsNewer(p.ts, p.ts)
  BY <1>2, NotNewerThanItself
<1> QED BY <1>4, <1>5, <1>6 DEF TakesIn, Settled, Follows

\* A packet that was delivered is held, resolved or too late, and one that was asked
\* for belongs to a frame that is reported or resolved.
Accounted == \A q \in got : \E p \in Packets : p.seq = q /\ TakesIn(asm, p)

Reported == \A q \in requested : \E p \in Packets : p.seq = q /\ Settled(asm, p)

OnceInv ==
    ~slotUsed => /\ asm.lastTs \in SentTs \cup {None}
                 /\ Accounted
                 /\ Reported
                 /\ AskedSeqs \cap got = {}

\* The ranges of a unit name packets of its frame that it lacks.
LEMMA AskedAreOfFrame ==
  ASSUME WellFramed, NEW au \in AuWithinFrame, NEW q, NEW r \in MissingRanges(au.seqs), q \in Covered(r)
  PROVE  q \notin au.seqs /\ \E p \in Packets : p.seq = q /\ p.ts = au.ts
<1>1. au.seqs \in SUBSET SeqNo /\ au.seqs # {} /\ au.seqs \subseteq FrameSeqs(au.ts)
  BY DEF AuWithinFrame, Au
<1>2. q \in Missing(au.seqs)
  BY <1>1, RangesNameMissing
<1>3. au.ts \in {p.ts : p \in Packets}
  BY <1>1 DEF FrameSeqs, Frame
<1>4. PICK first \in SeqNo, n \in 0 .. Half - 1 : FrameSeqs(au.ts) = {x \in SeqNo : WSub(x, first) <= n}
  BY <1>3 DEF WellFramed
<1>5. \A x \in au.seqs : WSub(x, first) <= n
  BY <1>1, <1>4
<1>6. q \in SeqNo /\ WSub(q, first) <= n
  BY <1>1, <1>2, <1>5, MissingInArc
<1>7. q \in FrameSeqs(au.ts)
  BY <1>4, <1>6
<1>8. q \notin au.seqs
  BY <1>2 DEF Missing
<1> QED BY <1>7, <1>8 DEF FrameSeqs, Frame

\* While nothing is parked the step keeps the account of what was delivered and asked for,
\* and asks for nothing that is in it.
LEMMA OnceStep ==
  ASSUME NEW U, Closed(U, OutcomeType), U \subseteq AuWithinFrame, \A au \in U : au.size <= MaxAuSize,
         WellFramed, WithinHalfTurn, OneFrameEach,
         LinkStates(U), LinkStates(U)', OnceInv, ~slotUsed', LinkNext
  PROVE  OnceInv' /\ AskedSeqs' \cap requested = {}
<1>1. /\ Follows(asm, asm') /\ AsksOfUnit(asm, asm', asked')
      /\ \A p \in Packets : Push(p) => TakesIn(asm', p)
      /\ asked' # {} => \E p \in Packets : Push(p)
  BY LinkStep
<1>2. /\ asm.lastTs \in SentTs \cup {None} /\ Accounted /\ Reported
      /\ InLine(asm, lastOut.ts) /\ InLine(asm', lastOut.ts')
  <2>1. ~slotUsed
    BY SlotStaysUsed DEF LinkStates
  <2> QED BY <2>1 DEF OnceInv, LinkStates, PlainInv
<1>3. /\ asm.cur # None => asm.cur \in AuWithinFrame /\ asm.cur.ts \in SentTs
      /\ asm'.cur # None => asm'.cur \in AuWithinFrame /\ asm'.cur.ts \in SentTs
  <2>1. \A au \in AuWithinFrame : au.ts \in SentTs
    BY DEF AuWithinFrame, Au, FrameSeqs, Frame, SentTs
  <2>2. asm.cur \in U \cup {None} /\ asm'.cur \in U \cup {None}
    BY DEF LinkStates, StatesOver, AssemblerOver
  <2> QED BY <2>1, <2>2
<1>4. OfStream(asm) /\ OfStream(asm')
  BY <1>1, <1>2, <1>3 DEF OfStream, Follows
<1>5. \A p \in Packets : /\ TakesIn(asm, p) => TakesIn(asm', p)
                         /\ Settled(asm, p) => Settled(asm', p)
  BY <1>1, <1>4, TakenStays
<1>6. ASSUME NEW q \in AskedSeqs'
      PROVE  /\ asm'.cur # None /\ asm'.cur.reported /\ q \notin asm'.cur.seqs
             /\ asm.cur # None /\ asm.cur.ts = asm'.cur.ts /\ ~asm.cur.reported
             /\ \E p \in Packets : p.seq = q /\ p.ts = asm'.cur.ts
             /\ \A p \in Packets : p.seq = q => p.ts = asm'.cur.ts
  <2>1. PICK r \in asked' : q \in Covered(r)
    BY DEF AskedSeqs
  <2>2. /\ asm'.cur # None /\ asm'.cur.reported
        /\ asm.cur # None /\ asm.cur.ts = asm'.cur.ts /\ ~asm.cur.reported
        /\ r \in MissingRanges(asm'.cur.seqs)
    BY <1>1, <2>1 DEF AsksOfUnit
  <2>3. q \notin asm'.cur.seqs /\ \E p \in Packets : p.seq = q /\ p.ts = asm'.cur.ts
    BY <1>3, <2>1, <2>2, AskedAreOfFrame
  <2> QED BY <2>2, <2>3 DEF OneFrameEach
<1>7. Accounted'
  <2>1. CASE got' = got
    BY <1>2, <1>5, <2>1 DEF Accounted
  <2>2. CASE \E i \in DOMAIN Stream : Push(Stream[i]) /\ got' = got \cup {Stream[i].seq}
    BY <1>1, <1>2, <1>5, <2>2, InStream DEF Accounted
  <2> QED BY <2>1, <2>2, LinkSteps DEF LinkStates
<1>8. Reported'
  <2>1. CASE requested' = requested
    BY <1>2, <1>5, <2>1 DEF Reported
  <2>2. CASE requested' = requested \cup AskedSeqs'
    <3>1. \A q \in AskedSeqs' : \E p \in Packets : p.seq = q /\ Settled(asm', p)
      BY <1>6 DEF Settled
    <3> QED BY <1>2, <1>5, <2>2, <3>1 DEF Reported
  <2> QED BY <2>1, <2>2, LinkSteps DEF LinkStates
<1>9. AskedSeqs' \cap got' = {}
  <2> SUFFICES ASSUME NEW q \in AskedSeqs', q \in got' PROVE FALSE
    OBVIOUS
  <2>1. PICK p \in Packets : p.seq = q /\ TakesIn(asm', p)
    BY <1>7 DEF Accounted
  <2>2. p.ts = asm'.cur.ts /\ q \notin asm'.cur.seqs /\ asm'.cur # None
    BY <1>6, <2>1
  <2>3. asm'.lastTs # None => IsNewer(p.ts, asm'.lastTs)
    BY <1>2, <2>2 DEF InLine
  <2> QED BY <2>1, <2>2, <2>3 DEF TakesIn
<1>10. AskedSeqs' \cap requested = {}
  <2> SUFFICES ASSUME NEW q \in AskedSeqs', q \in requested PROVE FALSE
    OBVIOUS
  <2>1. PICK p \in Packets : p.seq = q /\ Settled(asm, p)
    BY <1>2 DEF Reported
  <2>2. p.ts = asm.cur.ts /\ asm.cur # None /\ ~asm.cur.reported
    BY <1>6, <2>1
  <2>3. asm.lastTs # None => IsNewer(p.ts, asm.lastTs)
    BY <1>2, <2>2 DEF InLine
  <2> QED BY <2>1, <2>2, <2>3 DEF Settled
<1> QED BY <1>4, <1>7, <1>8, <1>9, <1>10 DEF OnceInv, OfStream

LEMMA OnceInvariant ==
  ASSUME OrderlyStream
  PROVE  /\ LinkSpec => []OnceInv
         /\ LinkSpec => [][~slotUsed' => AskedSeqs' \cap requested = {}]_linkVars
<1> PICK most \in 0 .. MaxAuSize : \A p \in Packets :
        p.size <= most /\ Cardinality(FrameSeqs(p.ts)) * most <= MaxAuSize
  BY DEF OrderlyStream, FramesFit
<1> most \in Nat
  BY TimingAssumption
<1> DEFINE U == FitUnits(most)
<1>1. Closed(U, OutcomeType) /\ (\A au \in U : au.size <= MaxAuSize) /\ U \subseteq AuWithinFrame
  BY FitClosed, FitUnitsFit DEF FitUnits
<1> HIDE DEF U
<1>2. LinkInit => LinkStates(U) /\ OnceInv
  <2> SUFFICES ASSUME LinkInit PROVE LinkStates(U) /\ OnceInv
    OBVIOUS
  <2>1. asm.lastTs = None /\ asked = {} /\ got = {} /\ requested = {}
    BY DEF LinkInit, Init, NewAssembler
  <2> QED BY <2>1, LinkStatesInit DEF OnceInv, Accounted, Reported, AskedSeqs
<1>3. LinkStates(U) /\ OnceInv /\ [LinkNext]_linkVars
        => /\ LinkStates(U)' /\ OnceInv'
           /\ [~slotUsed' => AskedSeqs' \cap requested = {}]_linkVars
  <2> SUFFICES ASSUME LinkStates(U), OnceInv, [LinkNext]_linkVars
               PROVE  /\ LinkStates(U)' /\ OnceInv'
                      /\ [~slotUsed' => AskedSeqs' \cap requested = {}]_linkVars
    OBVIOUS
  <2>1. LinkStates(U)'
    BY <1>1, LinkStatesStep
  <2>3. CASE UNCHANGED linkVars
    BY <2>1, <2>3 DEF linkVars, OnceInv, Accounted, Reported, AskedSeqs
  <2>4. CASE slotUsed'
    BY <2>1, <2>4 DEF OnceInv
  <2>5. CASE ~slotUsed' /\ LinkNext
    BY <1>1, <2>1, <2>5, OnceStep DEF OrderlyStream
  <2> QED BY <2>3, <2>4, <2>5
<1> QED BY <1>2, <1>3, PTL DEF LinkSpec

\* Until the first unit is parked no packet is asked for twice, however packets and
\* retransmissions are lost; without the slot that is for ever.
THEOREM AsksOncePerPacket ==
  ASSUME OrderlyStream
  PROVE  LinkSpec => AskedOnce
BY OnceInvariant DEF AskedOnce

\* Until the first unit is parked no packet is asked for that was ever delivered, not
\* even when it belongs to a frame resolved long ago.
THEOREM NothingAskedInVain ==
  ASSUME OrderlyStream
  PROVE  LinkSpec => []NeverAsksForReceived
<1>1. OnceInv => NeverAsksForReceived
  BY DEF OnceInv, NeverAsksForReceived
<1> QED BY <1>1, OnceInvariant, PTL

-----------------------------------------------------------------------------
(* What is asked for, with the slot and behind any network.                 *)

\* The range ends just below a packet of a unit that lacks all of it.
Repairs(s, r) == WAdd(r[2], 1) \in s /\ Covered(r) \cap s = {}

\* What the slot is asked for.
ParkedAsks(a, r) == a.parked # None /\ Repairs(a.parked.au.seqs, r)

Named(call, r) ==
    \/ call.asm.cur # None /\ Repairs(call.asm.cur.seqs, r)
    \/ ParkedAsks(call.asm, r)
    \/ \E o \in OutcomeType : call.out = <<o>> /\ Repairs(o.seqs, r)

LEMMA HolesAreRepairs ==
  ASSUME NEW s \in SUBSET SeqNo, s # {}, NEW r \in MissingRanges(s)
  PROVE  Repairs(s, r)
<1>1. PICK n \in Neighbours(s) : r = <<WAdd(n[1], 1), WSub(n[2], 1)>>
  BY DEF MissingRanges
<1>2. n[2] \in s /\ r[2] = WSub(n[2], 1)
  BY <1>1 DEF Neighbours
<1>3. WAdd(WSub(n[2], 1), 1) = n[2]
  <2>0. 1 \in SeqNo
    BY SeqSizeAssumption DEF SeqNo
  <2>1. n[2] \in SeqNo /\ 1 \in SeqNo
    BY <1>2, <2>0
  <2>2. /\ WSub(n[2], 1) \in SeqNo
        /\ WSub(n[2], 1) = IF n[2] >= 1 THEN n[2] - 1 ELSE n[2] - 1 + SeqSize
    BY <2>1, WSubValue
  <2>3. WAdd(WSub(n[2], 1), 1) = IF WSub(n[2], 1) + 1 < SeqSize THEN WSub(n[2], 1) + 1
                                                            ELSE WSub(n[2], 1) + 1 - SeqSize
    BY <2>1, <2>2, WAddValue
  <2> QED BY <2>1, <2>2, <2>3, SeqSizeAssumption DEF SeqNo
<1>4. Covered(r) \cap s = {}
  BY RangesNameMissing DEF Missing
<1> QED BY <1>2, <1>3, <1>4 DEF Repairs

\* The packets before the first one held are not among those held.
LEMMA LeadIsRepair ==
  ASSUME WellFramed, NEW au \in AuWithinFrame, NEW expect \in SeqNo,
         WSub(FirstSeq(au.seqs), expect) \in 1 .. MaxLead
  PROVE  Repairs(au.seqs, <<expect, WSub(FirstSeq(au.seqs), 1)>>)
<1> DEFINE f == FirstSeq(au.seqs)
           last == WSub(f, 1)
           r == <<expect, last>>
<1>1. au.seqs \in SUBSET SeqNo /\ au.seqs # {} /\ au.seqs \subseteq FrameSeqs(au.ts)
  BY DEF AuWithinFrame, Au
<1>2. f \in au.seqs /\ f \in SeqNo /\ 1 \in SeqNo
  BY <1>1, EndsAreMembers, SeqSizeAssumption DEF SeqNo
<1>3. \A x \in au.seqs : WSub(x, f) < Half
  <2>1. au.ts \in {p.ts : p \in Packets}
    BY <1>1 DEF FrameSeqs, Frame
  <2>2. PICK first \in SeqNo, n \in 0 .. Half - 1 : FrameSeqs(au.ts) = {x \in SeqNo : WSub(x, first) <= n}
    BY <2>1 DEF WellFramed
  <2>3. \A x \in au.seqs : x \in SeqNo /\ WSub(x, first) <= n
    BY <1>1, <2>2
  <2>4. PICK c \in au.seqs : \A x \in au.seqs : WSub(c, first) <= WSub(x, first)
    <3> DEFINE T == {WSub(x, first) : x \in au.seqs}
    <3>0. \A x \in au.seqs : WSub(x, first) \in SeqNo
      BY <2>3, WSubValue
    <3>1. T \in SUBSET Nat /\ T # {}
      BY <1>1, <3>0 DEF SeqNo
    <3>2. PICK m \in T : \A k \in T : m <= k
      <4> HIDE DEF T
      <4> QED BY <3>1, NatMinimum
    <3> QED BY <3>2
  <2>5. ASSUME NEW x \in au.seqs PROVE WSub(x, c) < Half
    <3>1. x \in SeqNo /\ c \in SeqNo /\ WSub(c, first) <= WSub(x, first) /\ WSub(x, first) <= n
      BY <2>3, <2>4
    <3>2. /\ WSub(x, c) = IF x >= c THEN x - c ELSE x - c + SeqSize
          /\ WSub(x, first) = IF x >= first THEN x - first ELSE x - first + SeqSize
          /\ WSub(c, first) = IF c >= first THEN c - first ELSE c - first + SeqSize
      BY <3>1, WSubValue
    <3>3. Half \in Nat
      BY SeqSizeAssumption DEF Half
    <3> QED BY <3>1, <3>2, <3>3, SeqSizeAssumption DEF SeqNo
  <2>6. f = c
    BY <1>1, <2>5, FirstOfArc
  <2> QED BY <2>5, <2>6
<1> HIDE DEF f
<1>4. /\ last \in SeqNo
      /\ last = IF f >= 1 THEN f - 1 ELSE f - 1 + SeqSize
  BY <1>2, WSubValue
<1>5. WAdd(last, 1) = IF last + 1 < SeqSize THEN last + 1 ELSE last + 1 - SeqSize
  <2> HIDE DEF last
  <2> QED BY <1>2, <1>4, WAddValue
<1>6. WAdd(last, 1) = f
  <2> HIDE DEF last
  <2> QED BY <1>2, <1>4, <1>5, SeqSizeAssumption DEF SeqNo
<1> HIDE DEF last
<1>7. ASSUME NEW q \in Covered(r), q \in au.seqs
      PROVE  FALSE
  <2>1. q \in SeqNo /\ WSub(q, expect) <= WSub(last, expect) /\ WSub(q, f) < Half
    BY <1>3, <1>7 DEF Covered
  <2>2. /\ WSub(q, expect) = IF q >= expect THEN q - expect ELSE q - expect + SeqSize
        /\ WSub(last, expect) = IF last >= expect THEN last - expect ELSE last - expect + SeqSize
        /\ WSub(q, f) = IF q >= f THEN q - f ELSE q - f + SeqSize
        /\ WSub(f, expect) = IF f >= expect THEN f - expect ELSE f - expect + SeqSize
    BY <1>2, <1>4, <2>1, WSubValue
  <2>3. WSub(f, expect) >= 1 /\ WSub(f, expect) <= Half /\ Half \in Nat /\ 2 * Half <= SeqSize
    BY TimingAssumption, SeqSizeAssumption DEF Half, f
  <2> QED BY <1>2, <1>4, <2>1, <2>2, <2>3, SeqSizeAssumption DEF SeqNo
<1> QED BY <1>2, <1>6, <1>7 DEF Repairs, f, last, r

LEMMA ExpiryAsksNothing ==
  ASSUME NEW U, NEW O, NEW a \in AssemblerOver(U, O, BOOLEAN)
  PROVE  ExpireIfDue(a).nacks = a.nacks
BY DEF ExpireIfDue, ReleaseParked, AssemblerOver

\* The end of a unit at the start of the next asks for the holes of the one parked.
LEMMA ForceOutAsks ==
  ASSUME NEW U, Closed(U, OutcomeType), NEW a \in AssemblerOver(U, OutcomeType, BOOLEAN),
         a.cur # None, a.nacks = {}
  PROVE  \A r \in ForceOut(a).nacks : ParkedAsks(ForceOut(a), r)
<1> DEFINE tail == MarkerlessTail(a.cur)
           b == [a EXCEPT !.nacks = IF tail THEN @ \cup MissingRanges(a.cur.seqs) ELSE @]
           au == [a.cur EXCEPT !.reported = @ \/ tail]
           first == FirstSeq(a.cur.seqs)
<1>1. a.cur \in U /\ a.cur \in Au /\ U \subseteq Au
  BY DEF AssemblerOver, Closed
<1>2. /\ first \in SeqNo /\ a.cur.seqs \in SUBSET SeqNo /\ a.cur.seqs # {}
      /\ MissingRanges(a.cur.seqs) \subseteq SeqNo \X SeqNo
  BY <1>1, UnitEnds DEF Au
<1>3. tail \in BOOLEAN
  BY DEF MarkerlessTail
<1>4. au \in U /\ au.seqs = a.cur.seqs
  <2>1. (a.cur.reported \/ tail) \in BOOLEAN
    OBVIOUS
  <2>2. au = [a.cur EXCEPT !.reported = a.cur.reported \/ tail]
    OBVIOUS
  <2> HIDE DEF tail
  <2> QED BY <1>1, <2>1, <2>2 DEF Closed, Au
<1>5. b \in AssemblerOver(U, OutcomeType, BOOLEAN) /\ b.nacks \subseteq MissingRanges(a.cur.seqs)
  BY <1>2 DEF AssemblerOver
<1>6. CASE SlotFree(a) /\ (GraceEligible(a.cur) \/ tail)
  <2>1. ForceOut(a) = Park(b, au, first)
    BY <1>6 DEF ForceOut
  <2> HIDE DEF b, au, first, tail
  <2>2. /\ Park(b, au, first).parked # None
        /\ Park(b, au, first).parked.au = au
        /\ Park(b, au, first).nacks = b.nacks
    BY <1>1, <1>2, <1>4, <1>5, ParksUnit
  <2> QED BY <1>2, <1>4, <1>5, <2>1, <2>2, HolesAreRepairs DEF ParkedAsks
<1>7. CASE ~(SlotFree(a) /\ (GraceEligible(a.cur) \/ tail))
  <2>1. ForceOut(a) = CloseAu(a)
    BY <1>7 DEF ForceOut
  <2>2. ForceOut(a).nacks = {}
    BY <2>1, Closes
  <2> QED BY <2>2
<1> QED BY <1>6, <1>7

\* The verdict on the unit just collected leaves what was asked for to its owner.
LEMMA SettleAsks ==
  ASSUME WellFramed, NEW a \in AssemblerOver(AuWithinFrame, OutcomeType, BOOLEAN),
         a.cur \in AuWithinFrame, NEW p \in Packets,
         \A r \in a.nacks : (~Whole(a.cur) /\ Repairs(a.cur.seqs, r)) \/ ParkedAsks(a, r)
  PROVE  \A r \in Settle(a, p).asm.nacks : Named(Settle(a, p), r)
<1>0. /\ a.cur \in Au /\ a.cur # None /\ AuWithinFrame \subseteq Au
      /\ Closed(AuWithinFrame, OutcomeType)
  BY NoneAssumption, FrameUnitsClosed DEF AuWithinFrame
<1>1. CASE Whole(a.cur) /\ p.marker /\ LeadingLoss(a)
  <2> DEFINE expect == WAdd(a.prevClose, 1)
             range == <<expect, WSub(FirstSeq(a.cur.seqs), 1)>>
             b == [a EXCEPT !.nacks = @ \cup {range}]
             au == [a.cur EXCEPT !.reported = TRUE]
             c == Park(b, au, expect)
  <2>1. Settle(a, p) = [asm |-> c, out |-> <<>>]
    BY <1>1 DEF Settle, Silent, ParkLeadingLoss
  <2>2. a.parked = None /\ WSub(FirstSeq(a.cur.seqs), expect) \in 1 .. MaxLead
    BY <1>1 DEF LeadingLoss, SlotFree, Lead
  <2>3. a.nacks = {}
    BY <1>1, <2>2 DEF ParkedAsks
  <2>4. expect \in SeqNo /\ range \in SeqNo \X SeqNo
    <3>1. 1 \in SeqNo
      BY SeqSizeAssumption DEF SeqNo
    <3>2. expect \in SeqNo
      BY <3>1, WAddValue DEF AssemblerOver
    <3>3. WSub(FirstSeq(a.cur.seqs), 1) \in SeqNo
      BY <1>0, <3>1, UnitEnds, WSubValue
    <3> QED BY <3>2, <3>3
  <2>5. au \in AuWithinFrame /\ au.seqs = a.cur.seqs
    BY <1>0 DEF Closed, Au
  <2>6. Repairs(a.cur.seqs, range)
    <3> HIDE DEF expect
    <3> QED BY <2>2, <2>4, LeadIsRepair
  <2> HIDE DEF range, expect, au
  <2>7. b \in AssemblerOver(AuWithinFrame, OutcomeType, BOOLEAN) /\ b.nacks = {range}
    BY <2>3, <2>4 DEF AssemblerOver
  <2> HIDE DEF b
  <2>8. c.parked # None /\ c.parked.au = au /\ c.nacks = b.nacks
    BY <1>0, <2>4, <2>5, <2>7, ParksUnit
  <2> HIDE DEF c
  <2> QED BY <2>1, <2>5, <2>6, <2>7, <2>8 DEF Named, ParkedAsks
<1>2. CASE Whole(a.cur) /\ ~(p.marker /\ LeadingLoss(a))
  <2> DEFINE b == CloseAu(a)
  <2>1. Settle(a, p) = PollOutcome(b)
    BY <1>2 DEF Settle
  <2>2. b \in AssemblerOver(AuWithinFrame, OutcomeType, BOOLEAN) /\ b.parked = a.parked /\ b.nacks = a.nacks
    BY <1>0, CloseAuOver, Closes
  <2> HIDE DEF b
  <2>3. PollOutcome(b).asm.parked = a.parked /\ PollOutcome(b).asm.nacks = a.nacks
    BY <2>2, PollKeepsUnits
  <2> QED BY <1>2, <2>1, <2>3 DEF Named, ParkedAsks
<1>3. CASE ~Whole(a.cur) /\ a.cur.size > MaxAuSize
  <2> DEFINE o == Outcome(a.cur, "Discarded")
  <2>1. Settle(a, p) = [asm |-> [a EXCEPT !.cur = None], out |-> <<o>>]
    BY <1>3 DEF Settle
  <2>2. o \in OutcomeType /\ o.seqs = a.cur.seqs
    BY <1>0 DEF Closed, Outcome
  <2> DEFINE b == [a EXCEPT !.cur = None]
  <2>3. b.nacks = a.nacks /\ b.parked = a.parked
    BY DEF AssemblerOver
  <2> HIDE DEF o, b
  <2>4. ASSUME NEW r \in a.nacks
        PROVE  \/ Repairs(o.seqs, r)
               \/ b.parked # None /\ Repairs(b.parked.au.seqs, r)
    BY <2>2, <2>3 DEF ParkedAsks
  <2>5. Settle(a, p).asm = b /\ Settle(a, p).out = <<o>>
    BY <2>1 DEF b
  <2> QED BY <2>2, <2>3, <2>4, <2>5 DEF Named, ParkedAsks
<1>4. CASE ~Whole(a.cur) /\ ~(a.cur.size > MaxAuSize)
  <2>1. Settle(a, p) = PollOutcome(a)
    BY <1>4 DEF Settle
  <2>2. /\ PollOutcome(a).asm.cur = a.cur /\ PollOutcome(a).asm.parked = a.parked
        /\ PollOutcome(a).asm.nacks = a.nacks
    BY PollKeepsUnits
  <2> QED BY <1>0, <2>1, <2>2 DEF Named, ParkedAsks
<1> QED BY <1>1, <1>2, <1>3, <1>4

LEMMA PushAsks ==
  ASSUME WellFramed, NEW before \in AssemblerOver(AuWithinFrame, OutcomeType, BOOLEAN),
         before.nacks = {}, NEW p \in Packets
  PROVE  \A r \in PushPacket(before, p).asm.nacks : Named(PushPacket(before, p), r)
<1> DEFINE a == ExpireIfDue(before)
<1>0. Closed(AuWithinFrame, OutcomeType) /\ AuWithinFrame \subseteq Au
  BY FrameUnitsClosed DEF Closed
<1>1. a \in AssemblerOver(AuWithinFrame, OutcomeType, BOOLEAN) /\ a.nacks = {}
  BY <1>0, ExpireIfDueOver, ExpiryAsksNothing
<1>2. CASE FillsParked(a, p)
  <2>1. PushPacket(before, p) = PollOutcome(FillParked(a, p))
    BY <1>2 DEF PushPacket
  <2> HIDE DEF a
  <2>2. FillParked(a, p) \in AssemblerOver(AuWithinFrame, OutcomeType, BOOLEAN)
    BY <1>0, <1>1, <1>2, FillParkedOver
  <2>3. FillParked(a, p).nacks = {}
    BY <1>1 DEF FillParked, ReleaseParked, AssemblerOver
  <2> QED BY <2>1, <2>2, <2>3, PollKeepsUnits
<1>3. CASE ~FillsParked(a, p) /\ TooLate(a, p)
  <2>1. PushPacket(before, p) = Silent(a)
    BY <1>3 DEF PushPacket
  <2> QED BY <1>1, <2>1 DEF Silent
<1>4. CASE ~FillsParked(a, p) /\ ~TooLate(a, p)
  <2> DEFINE b == IF a.cur # None /\ a.cur.ts # p.ts THEN ForceOut(a) ELSE a
             d == Grown(b, p)
  <2>1. PushPacket(before, p) = Settle(d, p)
    BY <1>4 DEF PushPacket, Grown
  <2> HIDE DEF a
  <2>2. b \in AssemblerOver(AuWithinFrame, OutcomeType, BOOLEAN) /\ Joins(b, p)
    BY <1>0, <1>1, ForceOutOver DEF Joins
  <2>3. \A r \in b.nacks : ParkedAsks(b, r)
    BY <1>0, <1>1, ForceOutAsks
  <2> HIDE DEF b
  <2>4. /\ d \in AssemblerOver(AuWithinFrame, OutcomeType, BOOLEAN)
        /\ d.cur \in AuWithinFrame /\ GrownTo(d, b, p)
    BY <1>0, <2>2, GrownUnit
  <2> HIDE DEF d
  <2>5. d.parked = b.parked /\ (d.nacks = b.nacks \/ (~Whole(d.cur) /\ d.nacks = b.nacks \cup MissingRanges(d.cur.seqs)))
    BY <2>4 DEF GrownTo, Keeps, AsksIfNew
  <2>6. d.cur.seqs \in SUBSET SeqNo /\ d.cur.seqs # {}
    BY <1>0, <2>4 DEF Au
  <2>7. \A r \in d.nacks : (~Whole(d.cur) /\ Repairs(d.cur.seqs, r)) \/ ParkedAsks(d, r)
    BY <2>3, <2>5, <2>6, HolesAreRepairs DEF ParkedAsks
  <2> QED BY <2>1, <2>4, <2>7, SettleAsks
<1> QED BY <1>2, <1>3, <1>4

LEMMA FlushAsksNothing ==
  ASSUME NEW before \in AssemblerOver(AuWithinFrame, OutcomeType, BOOLEAN), before.nacks = {}
  PROVE  FlushDue(before).asm.nacks = {}
<1> DEFINE a == ExpireIfDue(before)
           due == a.cur # None /\ a.cur.marker /\ a.cur.age > FillWindow
           park == GraceEligible(a.cur) /\ SlotFree(a)
<1>0. Closed(AuWithinFrame, OutcomeType) /\ AuWithinFrame \subseteq Au
  BY FrameUnitsClosed DEF Closed
<1>1. a \in AssemblerOver(AuWithinFrame, OutcomeType, BOOLEAN) /\ a.nacks = {}
  BY <1>0, ExpireIfDueOver, ExpiryAsksNothing
<1>2. CASE ~due
  BY <1>1, <1>2 DEF FlushDue, Silent
<1>3. CASE due /\ park
  <2>1. FlushDue(before) = Silent(Park(a, a.cur, FirstSeq(a.cur.seqs)))
    BY <1>3 DEF FlushDue
  <2>2. Park(a, a.cur, FirstSeq(a.cur.seqs)).nacks = {}
    <3> HIDE DEF a
    <3> QED BY <1>1 DEF Park, AssemblerOver
  <2> QED BY <2>1, <2>2 DEF Silent
<1>4. CASE due /\ ~park
  <2>1. FlushDue(before) = PollOutcome(CloseAu(a)) /\ a.cur # None
    BY <1>4 DEF FlushDue
  <2> HIDE DEF a
  <2>2. CloseAu(a) \in AssemblerOver(AuWithinFrame, OutcomeType, BOOLEAN) /\ CloseAu(a).nacks = {}
    BY <1>0, <1>1, <2>1, CloseAuOver, Closes
  <2> QED BY <2>1, <2>2, PollKeepsUnits
<1> QED BY <1>2, <1>3, <1>4

\* Behind any network, with the slot or without: a range asked for belongs to a unit
\* that lacks all of it and holds the packet after it.
THEOREM AsksOnlyForMissing ==
  ASSUME WellFramed
  PROVE  Spec => []NackNamesOnlyMissing
<1> DEFINE States == StatesOver(AuWithinFrame, OutcomeType, BOOLEAN) /\ asm.nacks = {}
<1>0. Closed(AuWithinFrame, OutcomeType) /\ None \notin AuWithinFrame
  BY FrameUnitsClosed, NoneAssumption DEF Closed
<1>1. Init => States /\ NackNamesOnlyMissing
  <2>1. Init => StatesOver(AuWithinFrame, OutcomeType, BOOLEAN)
    BY InitOver
  <2>2. Init => asm.nacks = {}
    BY DEF Init, NewAssembler
  <2>3. Init => NackNamesOnlyMissing
    BY DEF Init, NackNamesOnlyMissing
  <2> QED BY <2>1, <2>2, <2>3
<1>2. ASSUME States, NackNamesOnlyMissing, [Next]_vars
      PROVE  States' /\ NackNamesOnlyMissing'
  <2>0. asm \in AssemblerOver(AuWithinFrame, OutcomeType, BOOLEAN) /\ asm.nacks = {}
    BY <1>2 DEF StatesOver
  <2>1. StatesOver(AuWithinFrame, OutcomeType, BOOLEAN)'
    BY <1>0, <1>2, NextOver
  <2>2. ASSUME NEW call, call \in CallOver(AuWithinFrame, OutcomeType, BOOLEAN), Returns(call),
               \A r \in call.asm.nacks : Named(call, r)
        PROVE  asm'.nacks = {} /\ NackNamesOnlyMissing'
    <3>1. call.asm \in AssemblerOver(AuWithinFrame, OutcomeType, BOOLEAN)
      BY <2>2 DEF CallOver
    <3>2. /\ asm'.cur = call.asm.cur /\ asm'.parked = call.asm.parked /\ asm'.nacks = {}
          /\ asked' = call.asm.nacks /\ out' = call.out
      BY <2>2, <3>1 DEF Returns, TakeNackRanges, AssemblerOver
    <3>3. ASSUME NEW r \in asked' PROVE \E s \in HeldSets' : Repairs(s, r)
      <4>1. Named(call, r)
        BY <2>2, <3>2
      <4>2. CASE call.asm.cur # None /\ Repairs(call.asm.cur.seqs, r)
        <5>1. call.asm.cur.seqs \in HeldSets'
          BY <3>2, <4>2 DEF HeldSets
        <5> QED BY <4>2, <5>1
      <4>3. CASE ParkedAsks(call.asm, r)
        <5>1. call.asm.parked.au.seqs \in HeldSets'
          BY <3>2, <4>3 DEF HeldSets, ParkedAsks
        <5> QED BY <4>3, <5>1 DEF ParkedAsks
      <4>4. ASSUME NEW o \in OutcomeType, call.out = <<o>>, Repairs(o.seqs, r)
            PROVE  \E s \in HeldSets' : Repairs(s, r)
        <5>1. 1 \in DOMAIN <<o>> /\ <<o>>[1] = o
          OBVIOUS
        <5>2. out'[1] = o /\ 1 \in DOMAIN out'
          BY <3>2, <4>4, <5>1
        <5>3. o.seqs \in HeldSets'
          BY <5>2 DEF HeldSets
        <5> QED BY <4>4, <5>3
      <4> QED BY <4>1, <4>2, <4>3, <4>4 DEF Named
    <3> QED BY <3>2, <3>3 DEF NackNamesOnlyMissing, Repairs
  <2>3. ASSUME NEW p \in Packets, Push(p) PROVE asm'.nacks = {} /\ NackNamesOnlyMissing'
    <3>1. PushPacket(asm, p) \in CallOver(AuWithinFrame, OutcomeType, BOOLEAN)
      BY <1>0, <2>0, PushPacketOver
    <3> QED BY <2>0, <2>2, <2>3, <3>1, PushAsks DEF Push
  <2>4. CASE Flush
    <3>1. FlushDue(asm) \in CallOver(AuWithinFrame, OutcomeType, BOOLEAN)
      BY <1>0, <2>0, FlushDueOver
    <3>2. FlushDue(asm).asm.nacks = {}
      BY <2>0, FlushAsksNothing
    <3> QED BY <2>1, <2>2, <2>4, <3>1, <3>2 DEF Flush
  <2>5. CASE Poll
    <3>1. PollOutcome(asm) \in CallOver(AuWithinFrame, OutcomeType, BOOLEAN)
      BY <2>0, PollOutcomeOver
    <3>2. PollOutcome(asm).asm.nacks = {}
      BY <2>0, PollKeepsUnits
    <3> QED BY <2>1, <2>2, <2>5, <3>1, <3>2 DEF Poll
  <2>6. CASE Tick
    <3>1. asked' = {} /\ asm'.nacks = asm.nacks
      BY <2>0, <2>6 DEF Tick, AssemblerTick, AssemblerOver
    <3> QED BY <2>0, <2>1, <3>1 DEF NackNamesOnlyMissing
  <2>7. CASE UNCHANGED vars
    BY <1>2, <2>1, <2>7 DEF vars, NackNamesOnlyMissing, HeldSets
  <2> QED BY <1>2, <2>1, <2>3, <2>4, <2>5, <2>6, <2>7 DEF Next
<1> HIDE DEF States
<1> QED BY <1>1, <1>2, PTL DEF Spec

-----------------------------------------------------------------------------
(* A frame that arrived whole is not Damaged.                               *)

\* The unit knows of its last and of its first packet when it holds them.
Sees(au) ==
    \A p \in Frame(au.ts) : p.seq \in au.seqs =>
        /\ p.marker => au.marker
        /\ p.start => au.start

Lacks(o) == o.kind = "Damaged" => o.seqs # FrameSeqs(o.ts)

LEMMA SeenWholeIsWhole ==
  ASSUME WellFramed, SentInOrder, NEW au \in AuWithinFrame, Sees(au)
  PROVE  Lacks(Outcome(au, Verdict(au)))
<1>0. /\ au \in Au /\ au.seqs \in SUBSET SeqNo /\ au.seqs # {} /\ au.seqs \subseteq FrameSeqs(au.ts)
  BY DEF AuWithinFrame, Au
<1>1. ASSUME au.seqs = FrameSeqs(au.ts) PROVE Verdict(au) # "Damaged"
  <2>1. PICK p \in Packets : p.ts = au.ts
    BY <1>0 DEF FrameSeqs, Frame
  <2>2. PICK s \in Frame(au.ts), m \in Frame(au.ts) : s.start /\ m.marker
    BY <2>1 DEF SentInOrder
  <2>3. au.start /\ au.marker
    BY <1>1, <2>2 DEF Sees, FrameSeqs
  <2>4. PICK first \in SeqNo, n \in 0 .. Half - 1 : FrameSeqs(au.ts) = {q \in SeqNo : WSub(q, first) <= n}
    BY <2>1 DEF WellFramed
  <2>5. \A q \in au.seqs : WSub(q, first) <= n
    BY <1>1, <2>4
  <2>6. \A q \in Missing(au.seqs) : q \in au.seqs
    BY <1>0, <1>1, <2>4, <2>5, MissingInArc
  <2>7. Missing(au.seqs) = {}
    BY <2>6 DEF Missing
  <2>8. Whole(au) /\ au.start
    BY <2>3, <2>7 DEF Whole, Holed
  <2> QED BY <2>8 DEF Verdict
<1>2. /\ Outcome(au, Verdict(au)).kind = Verdict(au)
      /\ Outcome(au, Verdict(au)).seqs = au.seqs /\ Outcome(au, Verdict(au)).ts = au.ts
  BY DEF Outcome
<1> QED BY <1>0, <1>1, <1>2 DEF Lacks

\* The outcomes of q come in the order of the queue; the frames of D had one before.
Tss(q) == {q[i].ts : i \in DOMAIN q}

Proper(q, D) ==
    \A i \in DOMAIN q :
        \/ q[i].ts \in D
        \/ \E j \in 1 .. i - 1 : q[j].ts = q[i].ts
        \/ Lacks(q[i])

LEMMA ProperAppend ==
  ASSUME NEW D, NEW q \in Seq(OutcomeType), Proper(q, D), NEW o \in OutcomeType,
         o.ts \in D \cup Tss(q) \/ Lacks(o)
  PROVE  Proper(Append(q, o), D) /\ Tss(Append(q, o)) = Tss(q) \cup {o.ts}
<1> DEFINE s == Append(q, o)
<1>0. /\ s \in Seq(OutcomeType) /\ Len(s) = Len(q) + 1 /\ Len(q) \in Nat
      /\ \A i \in 1 .. Len(q) : s[i] = q[i]
      /\ s[Len(q) + 1] = o
  BY AppendProperties
<1>1. DOMAIN s = 1 .. Len(q) + 1 /\ DOMAIN q = 1 .. Len(q)
  BY <1>0
<1> HIDE DEF s
<1>2. Tss(s) = Tss(q) \cup {o.ts}
  <2>1. \A i \in DOMAIN s : s[i].ts \in Tss(q) \cup {o.ts}
    BY <1>0, <1>1 DEF Tss
  <2>2. \A i \in DOMAIN q : q[i].ts \in Tss(s)
    BY <1>0, <1>1 DEF Tss
  <2>3. o.ts \in Tss(s)
    BY <1>0, <1>1 DEF Tss
  <2> QED BY <2>1, <2>2, <2>3 DEF Tss
<1>3. ASSUME NEW i \in DOMAIN s
      PROVE  s[i].ts \in D \/ (\E j \in 1 .. i - 1 : s[j].ts = s[i].ts) \/ Lacks(s[i])
  <2>1. CASE i \in 1 .. Len(q)
    <3>1. s[i] = q[i] /\ \A j \in 1 .. i - 1 : s[j] = q[j]
      BY <1>0, <2>1
    <3>2. q[i].ts \in D \/ (\E j \in 1 .. i - 1 : q[j].ts = q[i].ts) \/ Lacks(q[i])
      BY <1>1, <2>1 DEF Proper
    <3> QED BY <3>1, <3>2
  <2>2. CASE i = Len(q) + 1
    <3>1. s[i] = o /\ 1 .. i - 1 = 1 .. Len(q)
      BY <1>0, <2>2
    <3>2. o.ts \in Tss(q) => \E j \in 1 .. Len(q) : s[j].ts = o.ts
      BY <1>0, <1>1 DEF Tss
    <3> QED BY <3>1, <3>2
  <2> QED BY <1>0, <1>1, <2>1, <2>2
<1>4. Proper(s, D)
  BY <1>3 DEF Proper
<1> QED BY <1>2, <1>4 DEF s

LEMMA ProperFront ==
  ASSUME NEW D, NEW q \in Seq(OutcomeType), Tss(q) \subseteq D, NEW o \in OutcomeType,
         o.ts \in D \/ Lacks(o)
  PROVE  Proper(<<o>> \o q, D) /\ Tss(<<o>> \o q) = Tss(q) \cup {o.ts}
<1> DEFINE s == <<o>> \o q
<1>0. <<o>> \in Seq(OutcomeType) /\ Len(<<o>>) = 1 /\ <<o>>[1] = o /\ Len(q) \in Nat
  OBVIOUS
<1>1. /\ s \in Seq(OutcomeType) /\ Len(s) = 1 + Len(q)
      /\ \A i \in 1 .. 1 + Len(q) : s[i] = IF i <= 1 THEN <<o>>[i] ELSE q[i - 1]
  BY <1>0, ConcatProperties
<1>2. DOMAIN s = 1 .. 1 + Len(q) /\ DOMAIN q = 1 .. Len(q)
  BY <1>0, <1>1
<1> HIDE DEF s
<1>3. s[1] = o /\ \A i \in 1 .. Len(q) : i + 1 \in DOMAIN s /\ s[i + 1] = q[i]
  BY <1>0, <1>1, <1>2
<1>4. \A i \in DOMAIN s : i = 1 \/ (i - 1 \in DOMAIN q /\ s[i] = q[i - 1])
  BY <1>0, <1>1, <1>2
<1>5. Tss(s) = Tss(q) \cup {o.ts}
  <2>1. \A i \in DOMAIN s : s[i].ts \in Tss(q) \cup {o.ts}
    BY <1>3, <1>4 DEF Tss
  <2>2. \A i \in DOMAIN q : q[i].ts \in Tss(s)
    BY <1>2, <1>3 DEF Tss
  <2>3. o.ts \in Tss(s)
    BY <1>0, <1>2, <1>3 DEF Tss
  <2> QED BY <2>1, <2>2, <2>3 DEF Tss
<1>6. ASSUME NEW i \in DOMAIN s PROVE s[i].ts \in D \/ Lacks(s[i])
  BY <1>3, <1>4 DEF Tss
<1>7. Proper(s, D)
  BY <1>6 DEF Proper
<1> QED BY <1>5, <1>7 DEF s

LEMMA Rejoined ==
  ASSUME NEW S, NEW q \in Seq(S), NEW h \in Seq(S), NEW t \in Seq(S)
  PROVE  /\ q # <<>> /\ Len(h) = 1 /\ h[1] = q[1]
         /\ Len(t) = Len(q) - 1 /\ \A i \in 1 .. Len(t) : t[i] = q[i + 1]
         => h \o t = q
<1>1. /\ h \o t \in Seq(S)
      /\ Len(h \o t) = Len(h) + Len(t)
      /\ \A i \in 1 .. Len(h) + Len(t) : (h \o t)[i] = IF i <= Len(h) THEN h[i] ELSE t[i - Len(h)]
  BY ConcatProperties
<1> SUFFICES ASSUME q # <<>>, Len(h) = 1, h[1] = q[1],
                    Len(t) = Len(q) - 1, \A i \in 1 .. Len(t) : t[i] = q[i + 1]
             PROVE  h \o t = q
  OBVIOUS
<1>2. Len(q) \in Nat /\ Len(q) >= 1
  OBVIOUS
<1> DEFINE s == h \o t
<1>3. s \in Seq(S) /\ Len(s) = Len(q) /\ \A i \in 1 .. Len(q) : s[i] = IF i <= 1 THEN h[i] ELSE t[i - 1]
  BY <1>1, <1>2
<1> HIDE DEF s
<1>4. ASSUME NEW i \in 1 .. Len(q) PROVE s[i] = q[i]
  <2>1. CASE i = 1
    BY <1>2, <1>3, <2>1
  <2>2. CASE i > 1
    <3>1. i - 1 \in 1 .. Len(t) /\ ~(i <= 1) /\ (i - 1) + 1 = i
      BY <1>2, <2>2
    <3> QED BY <1>3, <3>1
  <2> QED BY <1>2, <2>1, <2>2
<1>5. s = q
  BY <1>3, <1>4, SeqEqual
<1> QED BY <1>5 DEF s

\* Handing out the first of the queue, or nothing, keeps the line.
CallQueue(r) == r.out \o r.asm.queue

LEMMA PollQueue ==
  ASSUME NEW U, NEW G, NEW a \in AssemblerOver(U, OutcomeType, G)
  PROVE  CallQueue(PollOutcome(a)) = a.queue
<1>0. a.queue \in Seq(OutcomeType)
  BY DEF AssemblerOver
<1>1. CASE a.parked = None /\ a.queue # <<>>
  <2>1. PollOutcome(a).out = <<Head(a.queue)>> /\ PollOutcome(a).asm.queue = Tail(a.queue)
    BY <1>1 DEF PollOutcome, AssemblerOver
  <2>2. /\ Head(a.queue) \in OutcomeType
        /\ Tail(a.queue) \in Seq(OutcomeType) /\ Len(Tail(a.queue)) = Len(a.queue) - 1
        /\ \A i \in 1 .. Len(Tail(a.queue)) : Tail(a.queue)[i] = a.queue[i + 1]
    BY <1>0, <1>1, HeadTailProperties
  <2>3. <<Head(a.queue)>> \in Seq(OutcomeType) /\ Len(<<Head(a.queue)>>) = 1
    BY <2>2
  <2>4. <<Head(a.queue)>>[1] = a.queue[1]
    BY <1>0, <1>1
  <2>5. <<Head(a.queue)>> \o Tail(a.queue) = a.queue
    BY <1>0, <1>1, <2>2, <2>3, <2>4, Rejoined
  <2> QED BY <2>1, <2>5 DEF CallQueue
<1>2. CASE ~(a.parked = None /\ a.queue # <<>>)
  <2>1. PollOutcome(a).out = <<>> /\ PollOutcome(a).asm = a
    BY <1>2 DEF PollOutcome
  <2>2. <<>> \o a.queue = a.queue
    BY <1>0
  <2> QED BY <2>1, <2>2 DEF CallQueue
<1> QED BY <1>1, <1>2

\* No two packets of the console share their number.
LEMMA OnePacketEach ==
  ASSUME SentInOrder, NEW p \in Packets, NEW q \in Packets, p.seq = q.seq
  PROVE  p = q
<1>1. PICK i \in DOMAIN Stream : Stream[i] = p
  BY StreamAssumption
<1>2. PICK j \in DOMAIN Stream : Stream[j] = q
  BY StreamAssumption
<1> QED BY <1>1, <1>2 DEF SentInOrder

\* The first packet of a frame is never between two that are held.
LEMMA FirstIsNotMissing ==
  ASSUME NEW s \in SUBSET SeqNo, s # {}, NEW f \in SeqNo, NEW n \in 0 .. Half - 1,
         \A q \in s : WSub(q, f) <= n
  PROVE  f \notin Missing(s)
<1> SUFFICES ASSUME f \notin s PROVE f \notin Missing(s)
  BY DEF Missing
<1> DEFINE next == WAdd(f, 1)
<1>0. Half \in Nat /\ 2 * Half <= SeqSize /\ 1 \in SeqNo
  BY SeqSizeAssumption DEF Half, SeqNo
<1>1. next \in SeqNo /\ next = IF f + 1 < SeqSize THEN f + 1 ELSE f + 1 - SeqSize
  BY <1>0, WAddValue
<1> HIDE DEF next
<1>2. ASSUME NEW q \in SeqNo, q # f PROVE WSub(q, f) \in Nat /\ WSub(q, f) >= 1 /\ WSub(q, next) = WSub(q, f) - 1
  <2>1. /\ WSub(q, f) = IF q >= f THEN q - f ELSE q - f + SeqSize
        /\ WSub(q, next) = IF q >= next THEN q - next ELSE q - next + SeqSize
    BY <1>1, <1>2, WSubValue
  <2> QED BY <1>1, <1>2, <2>1, SeqSizeAssumption DEF SeqNo
<1>3. WSub(f, next) = SeqSize - 1
  <2>1. WSub(f, next) = IF f >= next THEN f - next ELSE f - next + SeqSize
    BY <1>1, WSubValue
  <2> QED BY <1>1, <2>1, SeqSizeAssumption DEF SeqNo
<1>4. n - 1 \in 0 .. Half - 1 /\ n - 1 < SeqSize - 1
  <2>1. PICK q \in s : TRUE
    OBVIOUS
  <2>2. q \in SeqNo /\ q # f /\ WSub(q, f) <= n
    OBVIOUS
  <2> QED BY <1>0, <1>2, <2>2, SeqSizeAssumption
<1>5. \A q \in s : WSub(q, next) <= n - 1
  BY <1>2
<1>6. \A q \in Missing(s) : WSub(q, next) <= n - 1
  BY <1>1, <1>4, <1>5, MissingInArc
<1> QED BY <1>0, <1>3, <1>4, <1>6, SeqSizeAssumption

\* The frame of a start packet is the arc above it.
LEMMA StartOpensFrame ==
  ASSUME WellFramed, NEW p \in Packets, p.start
  PROVE  /\ p.seq \in SeqNo
         /\ \E n \in 0 .. Half - 1 : FrameSeqs(p.ts) = {x \in SeqNo : WSub(x, p.seq) <= n}
<1>1. p \in Frame(p.ts) /\ p.seq \in SeqNo
  BY PacketType DEF Frame, Packet
<1>2. PICK first \in SeqNo, n \in 0 .. Half - 1 :
         /\ FrameSeqs(p.ts) = {x \in SeqNo : WSub(x, first) <= n}
         /\ \A q \in Frame(p.ts) : q.start => q.seq = first
  BY DEF WellFramed
<1> QED BY <1>1, <1>2

\* The ranges of a unit do not name the start of a frame.
LEMMA HolesNameNoStart ==
  ASSUME WellFramed, OneFrameEach, NEW au \in AuWithinFrame, NEW r \in MissingRanges(au.seqs),
         NEW p \in Packets, p.seq \in Covered(r)
  PROVE  ~p.start
<1> SUFFICES ASSUME p.start PROVE FALSE
  OBVIOUS
<1>1. au.seqs \in SUBSET SeqNo /\ au.seqs # {} /\ au.seqs \subseteq FrameSeqs(au.ts)
  BY DEF AuWithinFrame, Au
<1>2. p.seq \in Missing(au.seqs)
  BY <1>1, RangesNameMissing
<1>3. p.ts = au.ts
  BY AskedAreOfFrame DEF OneFrameEach
<1>4. PICK n \in 0 .. Half - 1 : FrameSeqs(au.ts) = {x \in SeqNo : WSub(x, p.seq) <= n}
  BY <1>3, StartOpensFrame
<1>5. \A x \in au.seqs : WSub(x, p.seq) <= n
  BY <1>1, <1>4
<1>6. p.seq \in SeqNo
  BY StartOpensFrame
<1> QED BY <1>1, <1>2, <1>5, <1>6, FirstIsNotMissing

\* An arc has as many numbers as it is long.
LEMMA ArcCardinality ==
  ASSUME NEW f \in SeqNo, NEW n \in 0 .. Half - 1
  PROVE  Cardinality({x \in SeqNo : WSub(x, f) <= n}) <= n + 1
<1> DEFINE arc == {x \in SeqNo : WSub(x, f) <= n}
           g == [x \in arc |-> WSub(x, f)]
<1>1. \A x \in arc : WSub(x, f) \in 0 .. n
  <2>1. \A x \in arc : WSub(x, f) \in SeqNo
    BY WSubValue
  <2> QED BY <2>1, SeqSizeAssumption DEF SeqNo
<1>2. g \in Injection(arc, 0 .. n)
  <2>1. g \in [arc -> 0 .. n]
    BY <1>1
  <2>2. \A x, y \in arc : g[x] = g[y] => x = y
    BY WSubInjective
  <2> QED BY <2>1, <2>2 DEF Injection, IsInjective
<1>3. n \in Int /\ 0 \in Int /\ ~(0 > n)
  BY SeqSizeAssumption DEF Half
<1>4. IsFiniteSet(0 .. n) /\ Cardinality(0 .. n) = n + 1
  BY <1>3, FS_Interval
<1> HIDE DEF g
<1> QED BY <1>2, <1>4, FS_Injection

\* What is asked for before a unit names no start but that of its own frame.
LEMMA LeadNamesOwnStart ==
  ASSUME WellFramed, OneFrameEach, LeadsAreShort, NEW au \in AuWithinFrame, NEW expect \in SeqNo,
         WSub(FirstSeq(au.seqs), expect) \in 1 .. MaxLead,
         NEW p \in Packets, p.start, p.seq \in Covered(<<expect, WSub(FirstSeq(au.seqs), 1)>>)
  PROVE  p.ts = au.ts /\ p.seq \notin au.seqs /\ WSub(p.seq, expect) < Half
<1> DEFINE f == FirstSeq(au.seqs)
           last == WSub(f, 1)
<1>1. au.seqs \in SUBSET SeqNo /\ au.seqs # {} /\ au.seqs \subseteq FrameSeqs(au.ts)
  BY DEF AuWithinFrame, Au
<1>2. f \in au.seqs /\ f \in SeqNo /\ 1 \in SeqNo /\ p.seq \in SeqNo
  BY <1>1, EndsAreMembers, SeqSizeAssumption, StartOpensFrame DEF SeqNo
<1>3. p.seq \notin au.seqs
  BY LeadIsRepair DEF Repairs
<1>4. WSub(f, expect) \in 1 .. MaxLead /\ WSub(p.seq, expect) <= WSub(last, expect)
  BY DEF Covered
<1> HIDE DEF f
<1>5. last \in SeqNo /\ last = IF f >= 1 THEN f - 1 ELSE f - 1 + SeqSize
  BY <1>2, WSubValue
<1> HIDE DEF last
<1>6. /\ WSub(p.seq, expect) = IF p.seq >= expect THEN p.seq - expect ELSE p.seq - expect + SeqSize
      /\ WSub(last, expect) = IF last >= expect THEN last - expect ELSE last - expect + SeqSize
      /\ WSub(f, expect) = IF f >= expect THEN f - expect ELSE f - expect + SeqSize
      /\ WSub(f, p.seq) = IF f >= p.seq THEN f - p.seq ELSE f - p.seq + SeqSize
  BY <1>2, <1>5, WSubValue
<1>7. MaxLead \in Nat /\ MaxLead <= Half /\ Half \in Nat /\ 2 * Half <= SeqSize
  BY TimingAssumption, SeqSizeAssumption DEF Half
<1>8. WSub(last, expect) = WSub(f, expect) - 1
  BY <1>2, <1>4, <1>5, <1>6, <1>7, SeqSizeAssumption DEF SeqNo
<1>9. WSub(p.seq, expect) < Half /\ WSub(f, p.seq) <= MaxLead
  BY <1>2, <1>4, <1>6, <1>7, <1>8, SeqSizeAssumption DEF SeqNo
<1>10. PICK n \in 0 .. Half - 1 : FrameSeqs(p.ts) = {x \in SeqNo : WSub(x, p.seq) <= n}
  BY StartOpensFrame
<1>11. MaxLead <= n
  <2>1. Cardinality(FrameSeqs(p.ts)) > MaxLead
    BY DEF LeadsAreShort
  <2>2. Cardinality(FrameSeqs(p.ts)) <= n + 1
    BY <1>2, <1>10, ArcCardinality
  <2>3. Cardinality(FrameSeqs(p.ts)) \in Nat
    BY <1>10, SeqSetsFinite
  <2> QED BY <1>7, <2>1, <2>2, <2>3
<1>12. f \in FrameSeqs(p.ts)
  <2>1. WSub(f, p.seq) \in Int
    BY <1>2, <1>6, SeqSizeAssumption DEF SeqNo
  <2>2. WSub(f, p.seq) <= n
    BY <1>7, <1>9, <1>11, <2>1
  <2> QED BY <1>2, <1>10, <2>2
<1>13. p.ts = au.ts
  <2>1. f \in FrameSeqs(au.ts)
    BY <1>1, <1>2
  <2>2. PICK x \in Packets : x.ts = p.ts /\ x.seq = f
    BY <1>12 DEF FrameSeqs, Frame
  <2>3. PICK y \in Packets : y.ts = au.ts /\ y.seq = f
    BY <2>1 DEF FrameSeqs, Frame
  <2> QED BY <2>2, <2>3 DEF OneFrameEach
<1> QED BY <1>3, <1>9, <1>13

\* The start of the frame is below the packet after the last one held.
LEMMA StartIsBelowNext ==
  ASSUME WellFramed, NEW au \in AuWithinFrame, NEW first \in SeqNo,
         NEW p \in Packets, p.start, p.ts = au.ts, WSub(p.seq, first) < Half
  PROVE  WSub(p.seq, first) <= WSub(WAdd(LastSeq(au.seqs), 1), first)
<1> DEFINE last == LastSeq(au.seqs)
           next == WAdd(last, 1)
<1>1. au.seqs \in SUBSET SeqNo /\ au.seqs # {} /\ au.seqs \subseteq FrameSeqs(au.ts)
  BY DEF AuWithinFrame, Au
<1>2. last \in au.seqs /\ last \in SeqNo /\ 1 \in SeqNo /\ p.seq \in SeqNo
  BY <1>1, EndsAreMembers, SeqSizeAssumption, StartOpensFrame DEF SeqNo
<1>3. PICK n \in 0 .. Half - 1 : FrameSeqs(au.ts) = {x \in SeqNo : WSub(x, p.seq) <= n}
  BY StartOpensFrame
<1>4. WSub(last, p.seq) <= n
  BY <1>1, <1>2, <1>3
<1> HIDE DEF last
<1>5. next \in SeqNo /\ next = IF last + 1 < SeqSize THEN last + 1 ELSE last + 1 - SeqSize
  BY <1>2, WAddValue
<1> HIDE DEF next
<1>6. /\ WSub(last, p.seq) = IF last >= p.seq THEN last - p.seq ELSE last - p.seq + SeqSize
      /\ WSub(p.seq, first) = IF p.seq >= first THEN p.seq - first ELSE p.seq - first + SeqSize
      /\ WSub(next, first) = IF next >= first THEN next - first ELSE next - first + SeqSize
  BY <1>2, <1>5, WSubValue
<1>7. Half \in Nat /\ 2 * Half <= SeqSize
  BY SeqSizeAssumption DEF Half
<1>8. WSub(p.seq, first) <= WSub(next, first)
  BY <1>2, <1>4, <1>5, <1>6, <1>7, SeqSizeAssumption DEF SeqNo
<1> QED BY <1>8 DEF next, last

-----------------------------------------------------------------------------
(* A repair that would find its unit too late, or the open one in its place, *)
(* is a start only if its frame had an outcome before.  E holds the frames   *)
(* with an outcome or one in the queue, H the numbers sent so far, W those    *)
(* asked for and not yet repeated.                                           *)

\* The slot holds the unit that the start packet completes below.
AwaitedBy(slot, p) ==
    /\ slot # None
    /\ slot.au.ts = p.ts
    /\ p.seq \notin slot.au.seqs
    /\ WSub(p.seq, slot.first) < Half

FineUnit(au, E, H) == (au.ts \in E \/ Sees(au)) /\ au.seqs \subseteq H

AsksFor(nacks, p) == \E r \in nacks : p.seq \in Covered(r)

\* Every start that is asked for is one of the frames of E.
StartsIn(nacks, W, E) ==
    \A p \in Packets : p.start /\ (p.seq \in W \/ AsksFor(nacks, p)) => p.ts \in E

Minds(cur, parked, nacks, E, H, W) ==
    /\ cur # None => FineUnit(cur, E, H)
    /\ parked # None => FineUnit(parked.au, E, H)
    /\ \A p \in Packets : p.start /\ (p.seq \in W \/ AsksFor(nacks, p)) =>
          p.ts \in E \/ AwaitedBy(parked, p)

\* Before and after a call; D holds the frames with an outcome before it.
Tended(a, D, H, W) ==
    /\ Proper(a.queue, D)
    /\ Minds(a.cur, a.parked, a.nacks, D \cup Tss(a.queue), H, W)

CallTended(r, D, H, W) ==
    /\ Proper(CallQueue(r), D)
    /\ Minds(r.asm.cur, r.asm.parked, r.asm.nacks, D \cup Tss(CallQueue(r)), H, W)

LEMMA MindsMore ==
  ASSUME NEW cur, NEW parked, NEW nacks, NEW D, NEW E, NEW H, NEW I, NEW V, NEW W,
         Minds(cur, parked, nacks, D, H, W), D \subseteq E, H \subseteq I, V \subseteq W
  PROVE  Minds(cur, parked, nacks, E, I, V)
<1>1. \A au : FineUnit(au, D, H) => FineUnit(au, E, I)
  BY DEF FineUnit
<1> QED BY <1>1 DEF Minds

LEMMA SilentTended ==
  ASSUME NEW U, NEW G, NEW a \in AssemblerOver(U, OutcomeType, G), NEW D, NEW H, NEW W,
         Tended(a, D, H, W)
  PROVE  CallTended(Silent(a), D, H, W)
<1>1. <<>> \o a.queue = a.queue
  BY DEF AssemblerOver
<1>2. Silent(a).asm = a /\ CallQueue(Silent(a)) = a.queue
  BY <1>1 DEF Silent, CallQueue
<1> QED BY <1>2 DEF Tended, CallTended

LEMMA PollTended ==
  ASSUME NEW U, NEW G, G \subseteq BOOLEAN, NEW a \in AssemblerOver(U, OutcomeType, G),
         NEW D, NEW H, NEW W, Tended(a, D, H, W)
  PROVE  CallTended(PollOutcome(a), D, H, W)
<1>1. a \in AssemblerOver(U, OutcomeType, BOOLEAN)
  BY DEF AssemblerOver
<1>2. /\ PollOutcome(a).asm.cur = a.cur
      /\ PollOutcome(a).asm.parked = a.parked
      /\ PollOutcome(a).asm.nacks = a.nacks
  BY <1>1, PollKeepsUnits
<1>3. CallQueue(PollOutcome(a)) = a.queue
  BY PollQueue
<1> QED BY <1>2, <1>3 DEF Tended, CallTended

LEMMA Releases ==
  ASSUME NEW U, NEW G, NEW a \in AssemblerOver(U, OutcomeType, G), NEW au
  PROVE  /\ ReleaseParked(a, au).cur = a.cur
         /\ ReleaseParked(a, au).parked = None
         /\ ReleaseParked(a, au).nacks = a.nacks
BY DEF ReleaseParked, AssemblerOver

LEMMA ReleasesFirst ==
  ASSUME NEW U, NEW G, NEW a \in AssemblerOver(U, OutcomeType, G), NEW au
  PROVE  ReleaseParked(a, au).queue = <<Outcome(au, Verdict(au))>> \o a.queue
BY DEF ReleaseParked, AssemblerOver

LEMMA ReleaseTended ==
  ASSUME WellFramed, SentInOrder, NEW U, U \subseteq AuWithinFrame, NEW G,
         Closed(U, OutcomeType),
         NEW a \in AssemblerOver(U, OutcomeType, G), NEW au \in U, NEW D, NEW H, NEW W,
         Tss(a.queue) \subseteq D, FineUnit(au, D, H),
         a.cur # None => FineUnit(a.cur, D, H),
         StartsIn(a.nacks, W, D \cup {au.ts})
  PROVE  /\ Tended(ReleaseParked(a, au), D, H, W)
         /\ au.ts \in D \cup Tss(ReleaseParked(a, au).queue)
<1> DEFINE o == Outcome(au, Verdict(au))
           b == ReleaseParked(a, au)
<1>0. o \in OutcomeType /\ o.ts = au.ts
  BY DEF Closed, Outcome
<1>1. b.queue = <<o>> \o a.queue /\ b.cur = a.cur /\ b.parked = None /\ b.nacks = a.nacks
  BY Releases, ReleasesFirst
<1>2. o.ts \in D \/ Lacks(o)
  BY <1>0, SeenWholeIsWhole DEF FineUnit
<1>3. a.queue \in Seq(OutcomeType)
  BY DEF AssemblerOver
<1> HIDE DEF o, b
<1>4. Proper(b.queue, D) /\ Tss(b.queue) = Tss(a.queue) \cup {au.ts}
  <2>1. Proper(<<o>> \o a.queue, D) /\ Tss(<<o>> \o a.queue) = Tss(a.queue) \cup {o.ts}
    BY <1>0, <1>2, <1>3, ProperFront
  <2> QED BY <1>0, <1>1, <2>1
<1>5. Minds(b.cur, b.parked, b.nacks, D \cup Tss(b.queue), H, W)
  BY <1>1, <1>4 DEF Minds, FineUnit, StartsIn
<1> QED BY <1>4, <1>5 DEF Tended, b

LEMMA ExpireTended ==
  ASSUME WellFramed, SentInOrder, NEW U, U \subseteq AuWithinFrame, NEW G,
         Closed(U, OutcomeType),
         NEW a \in AssemblerOver(U, OutcomeType, G), NEW D, NEW H, NEW W,
         Tended(a, D, H, W), Tss(a.queue) \subseteq D
  PROVE  /\ Tended(ExpireIfDue(a), D, H, W)
         /\ ExpireIfDue(a).cur = a.cur /\ ExpireIfDue(a).nacks = a.nacks
         /\ \/ ExpireIfDue(a) = a
            \/ /\ a.parked # None /\ ExpireIfDue(a).parked = None
               /\ a.parked.au.ts \in D \cup Tss(ExpireIfDue(a).queue)
<1>1. CASE ~(a.parked # None /\ a.parked.left = 0)
  BY <1>1 DEF ExpireIfDue
<1>2. CASE a.parked # None /\ a.parked.left = 0
  <2> DEFINE au == a.parked.au
  <2>1. ExpireIfDue(a) = ReleaseParked(a, au)
    BY <1>2 DEF ExpireIfDue
  <2>2. au \in U
    BY <1>2 DEF AssemblerOver
  <2>3. D \cup Tss(a.queue) = D
    OBVIOUS
  <2>4. Minds(a.cur, a.parked, a.nacks, D, H, W)
    BY <2>3 DEF Tended
  <2>5. StartsIn(a.nacks, W, D \cup {au.ts})
    BY <2>4 DEF Minds, AwaitedBy, StartsIn
  <2>6. FineUnit(au, D, H) /\ (a.cur # None => FineUnit(a.cur, D, H))
    BY <1>2, <2>4 DEF Minds
  <2> HIDE DEF au
  <2>7. Tended(ReleaseParked(a, au), D, H, W) /\ au.ts \in D \cup Tss(ReleaseParked(a, au).queue)
    BY <2>2, <2>5, <2>6, ReleaseTended
  <2>8. /\ ReleaseParked(a, au).cur = a.cur
        /\ ReleaseParked(a, au).parked = None
        /\ ReleaseParked(a, au).nacks = a.nacks
    BY Releases
  <2> QED BY <1>2, <2>1, <2>7, <2>8 DEF au
<1> QED BY <1>1, <1>2

\* A repair tells the parked unit which end it is.
LEMMA RepairSees ==
  ASSUME SentInOrder, NEW au \in Au, NEW p \in Packets, p.ts = au.ts
  PROVE  /\ RepairedAu(au, p).ts = au.ts /\ RepairedAu(au, p).seqs = au.seqs \cup {p.seq}
         /\ Sees(au) => Sees(RepairedAu(au, p))
<1> DEFINE b == Absorb(au, p)
           c == RepairedAu(au, p)
<1>1. /\ b \in Au /\ b.seqs = au.seqs \cup {p.seq} /\ b.ts = au.ts
      /\ b.marker = au.marker /\ b.start = au.start
  <2>1. p \in Packet
    BY PacketType
  <2>2. /\ au.seqs \cup {p.seq} \in (SUBSET SeqNo) \ {{}} /\ au.size + p.size \in Nat
        /\ (au.idr \/ p.idr) \in BOOLEAN /\ (au.good /\ p.good) \in BOOLEAN
    BY <2>1 DEF Packet, Au
  <2> QED BY <2>2 DEF Absorb, Au
<1>2. c = [b EXCEPT !.marker = @ \/ p.marker, !.start = @ \/ p.start,
                    !.age = IF p.marker THEN 0 ELSE @]
  BY DEF RepairedAu
<1> HIDE DEF b, c
<1>3. /\ c.seqs = au.seqs \cup {p.seq} /\ c.ts = au.ts
      /\ c.marker = (au.marker \/ p.marker) /\ c.start = (au.start \/ p.start)
  BY <1>1, <1>2 DEF Au
<1>4. ASSUME Sees(au) PROVE Sees(c)
  <2> SUFFICES ASSUME NEW q \in Frame(c.ts), q.seq \in c.seqs
               PROVE  (q.marker => c.marker) /\ (q.start => c.start)
    BY DEF Sees
  <2>1. CASE q.seq \in au.seqs
    BY <1>3, <1>4, <2>1 DEF Sees
  <2>2. CASE q.seq = p.seq
    <3>1. q = p
      BY <2>2, OnePacketEach DEF Frame
    <3> QED BY <1>3, <3>1
  <2> QED BY <1>3, <2>1, <2>2
<1> QED BY <1>3, <1>4 DEF c

LEMMA CloseTended ==
  ASSUME WellFramed, SentInOrder, NEW U, U \subseteq AuWithinFrame, NEW G,
         Closed(U, OutcomeType),
         NEW a \in AssemblerOver(U, OutcomeType, G), a.cur # None, NEW D, NEW H, NEW W,
         Tended(a, D, H, W)
  PROVE  Tended(CloseAu(a), D, H, W)
<1> DEFINE au == a.cur
           o == Outcome(au, Verdict(au))
           b == CloseAu(a)
<1>1. au \in U /\ FineUnit(au, D \cup Tss(a.queue), H)
  BY DEF AssemblerOver, Tended, Minds
<1>2. o \in OutcomeType /\ o.ts = au.ts
  BY <1>1 DEF Closed, Outcome
<1>3. o.ts \in D \cup Tss(a.queue) \/ Lacks(o)
  BY <1>1, <1>2, SeenWholeIsWhole DEF FineUnit
<1>4. a.queue \in Seq(OutcomeType) /\ Proper(a.queue, D)
  BY DEF AssemblerOver, Tended
<1>5. b = [a EXCEPT !.cur = None, !.lastClosed = LastSeq(au.seqs), !.lastTs = au.ts,
                    !.queue = Append(a.queue, o)]
  BY DEF CloseAu
<1> HIDE DEF o, b, au
<1>6. b.queue = Append(a.queue, o) /\ b.cur = None /\ b.parked = a.parked /\ b.nacks = a.nacks
  BY <1>5 DEF AssemblerOver
<1>7. Proper(b.queue, D) /\ Tss(a.queue) \subseteq Tss(b.queue)
  <2>1. Proper(Append(a.queue, o), D) /\ Tss(Append(a.queue, o)) = Tss(a.queue) \cup {o.ts}
    BY <1>2, <1>3, <1>4, ProperAppend
  <2> QED BY <1>6, <2>1
<1>8. Minds(a.cur, b.parked, b.nacks, D \cup Tss(b.queue), H, W)
  BY <1>6, <1>7, MindsMore DEF Tended
<1>9. Minds(b.cur, b.parked, b.nacks, D \cup Tss(b.queue), H, W)
  BY <1>6, <1>8 DEF Minds
<1> QED BY <1>7, <1>9 DEF Tended, b

LEMMA Parks ==
  ASSUME NEW U, U \subseteq Au, NEW G, NEW a \in AssemblerOver(U, OutcomeType, G), NEW au \in U,
         NEW first \in SeqNo
  PROVE  /\ Park(a, au, first).cur = None
         /\ Park(a, au, first).parked # None
         /\ Park(a, au, first).parked.au = au
         /\ Park(a, au, first).parked.first = first
         /\ Park(a, au, first).nacks = a.nacks
         /\ Park(a, au, first).queue = a.queue
<1> DEFINE slot == [au |-> au, left |-> GraceBudget, first |-> first]
<1>1. slot.au = au /\ slot.first = first
  OBVIOUS
<1>2. slot # None
  <2>1. slot \in Slot
    BY TimingAssumption DEF Slot
  <2> QED BY <2>1, NoneAssumption
<1>3. Park(a, au, first) = [a EXCEPT !.cur = None, !.parked = slot]
  BY DEF Park
<1> HIDE DEF slot
<1> QED BY <1>1, <1>2, <1>3 DEF AssemblerOver

\* The slot takes the unit, and with it the starts that complete it below.
LEMMA ParkTended ==
  ASSUME NEW U, U \subseteq Au, NEW G,
         NEW a \in AssemblerOver(U, OutcomeType, G), NEW au \in U, NEW first \in SeqNo,
         NEW D, NEW H, NEW W, Proper(a.queue, D), FineUnit(au, D \cup Tss(a.queue), H),
         \A p \in Packets : p.start /\ (p.seq \in W \/ AsksFor(a.nacks, p)) =>
            \/ p.ts \in D \cup Tss(a.queue)
            \/ au.ts = p.ts /\ p.seq \notin au.seqs /\ WSub(p.seq, first) < Half
  PROVE  Tended(Park(a, au, first), D, H, W)
<1> DEFINE b == Park(a, au, first)
<1>1. /\ b.cur = None /\ b.parked # None /\ b.parked.au = au /\ b.parked.first = first
      /\ b.nacks = a.nacks /\ b.queue = a.queue
  BY Parks
<1> HIDE DEF b
<1>2. Minds(b.cur, b.parked, b.nacks, D \cup Tss(b.queue), H, W)
  BY <1>1 DEF Minds, AwaitedBy
<1> QED BY <1>1, <1>2 DEF Tended, b

LEMMA ForceOutTended ==
  ASSUME WellFramed, SentInOrder, OneFrameEach, NEW U, U \subseteq AuWithinFrame, NEW G,
         Closed(U, OutcomeType),
         NEW a \in AssemblerOver(U, OutcomeType, G), a.cur # None, NEW D, NEW H, NEW W,
         Tended(a, D, H, W)
  PROVE  Tended(ForceOut(a), D, H, W)
<1> DEFINE tail == MarkerlessTail(a.cur)
           b == [a EXCEPT !.nacks = IF tail THEN @ \cup MissingRanges(a.cur.seqs) ELSE @]
           au == [a.cur EXCEPT !.reported = @ \/ tail]
           first == FirstSeq(a.cur.seqs)
<1>1. a.cur \in U /\ U \subseteq Au
  BY DEF AssemblerOver, Closed
<1>2. first \in SeqNo /\ MissingRanges(a.cur.seqs) \subseteq SeqNo \X SeqNo
  BY <1>1, UnitEnds
<1>3. (a.cur.reported \/ tail) \in BOOLEAN
  OBVIOUS
<1>4. au \in U
  BY <1>1, <1>3 DEF Closed
<1>5. b \in AssemblerOver(U, OutcomeType, G)
  BY <1>2 DEF AssemblerOver
<1>6. CASE SlotFree(a) /\ (GraceEligible(a.cur) \/ tail)
  <2>1. ForceOut(a) = Park(b, au, first)
    BY <1>6 DEF ForceOut
  <2>2. a.parked = None
    BY <1>6 DEF SlotFree
  <2>3. /\ au.ts = a.cur.ts /\ au.seqs = a.cur.seqs /\ au.marker = a.cur.marker /\ au.start = a.cur.start
    BY <1>1 DEF Au
  <2>4. b.queue = a.queue /\ b.nacks \subseteq a.nacks \cup MissingRanges(a.cur.seqs)
    BY DEF AssemblerOver
  <2> HIDE DEF b, au, first, tail
  <2>5. FineUnit(a.cur, D \cup Tss(a.queue), H) /\ Proper(b.queue, D)
    BY <2>4 DEF Tended, Minds
  <2>6. FineUnit(au, D \cup Tss(b.queue), H)
    BY <2>3, <2>4, <2>5 DEF FineUnit, Sees
  <2>7. ASSUME NEW p \in Packets, p.start, p.seq \in W \/ AsksFor(b.nacks, p)
        PROVE  p.ts \in D \cup Tss(b.queue)
    <3>1. a.cur \in AuWithinFrame
      BY <1>1
    <3>2. \A r \in MissingRanges(a.cur.seqs) : p.seq \notin Covered(r)
      BY <2>7, <3>1, HolesNameNoStart
    <3>3. p.seq \in W \/ AsksFor(a.nacks, p)
      BY <2>4, <2>7, <3>2 DEF AsksFor
    <3> QED BY <2>2, <2>4, <2>7, <3>3 DEF Tended, Minds, AwaitedBy
  <2>8. Tended(Park(b, au, first), D, H, W)
    BY <1>1, <1>2, <1>4, <1>5, <2>5, <2>6, <2>7, ParkTended
  <2> QED BY <2>1, <2>8
<1>7. CASE ~(SlotFree(a) /\ (GraceEligible(a.cur) \/ tail))
  <2>1. ForceOut(a) = CloseAu(a)
    BY <1>7 DEF ForceOut
  <2> QED BY <2>1, CloseTended
<1> QED BY <1>6, <1>7

LEMMA FillTended ==
  ASSUME WellFramed, SentInOrder, NEW U, U \subseteq AuWithinFrame, NEW G,
         Closed(U, OutcomeType),
         NEW a \in AssemblerOver(U, OutcomeType, G), NEW D, NEW H, NEW W,
         Tended(a, D, H, W), Tss(a.queue) \subseteq D, a.nacks = {},
         NEW p \in Packets, FillsParked(a, p), p.seq \in H, p.start => p.seq \notin W
  PROVE  Tended(FillParked(a, p), D, H, W)
<1> DEFINE old == a.parked.au
           au == RepairedAu(a.parked.au, p)
<1>1. /\ a.parked # None /\ a.parked \in [au : U, left : 0 .. GraceBudget, first : SeqNo]
      /\ p.ts = old.ts /\ p.seq \notin old.seqs
  BY DEF FillsParked, AssemblerOver
<1>2. old \in U /\ au \in U /\ old \in Au
  BY <1>1 DEF Closed
<1>3. D \cup Tss(a.queue) = D
  OBVIOUS
<1>4. Minds(a.cur, a.parked, a.nacks, D, H, W) /\ Proper(a.queue, D)
  BY <1>3 DEF Tended
<1>5. /\ au.ts = old.ts /\ au.seqs = old.seqs \cup {p.seq}
      /\ Sees(old) => Sees(au)
  BY <1>1, <1>2, RepairSees
<1>6. FineUnit(au, D, H)
  <2>1. FineUnit(old, D, H)
    BY <1>1, <1>4 DEF Minds
  <2> QED BY <1>5, <2>1 DEF FineUnit
<1>7. CASE Whole(au)
  <2>1. FillParked(a, p) = ReleaseParked(a, au)
    BY <1>7 DEF FillParked
  <2> HIDE DEF old, au
  <2>2. StartsIn(a.nacks, W, D \cup {au.ts})
    BY <1>1, <1>4, <1>5 DEF StartsIn, Minds, AwaitedBy, old
  <2>3. a.cur # None => FineUnit(a.cur, D, H)
    BY <1>4 DEF Minds
  <2>4. Tended(ReleaseParked(a, au), D, H, W)
    BY <1>2, <1>6, <2>2, <2>3, ReleaseTended
  <2> QED BY <2>1, <2>4
<1>8. CASE ~Whole(au)
  <2> DEFINE b == [a EXCEPT !.parked.au = au]
  <2>1. FillParked(a, p) = b
    BY <1>8 DEF FillParked
  <2> HIDE DEF au
  <2>2. /\ b.cur = a.cur /\ b.nacks = a.nacks /\ b.queue = a.queue
        /\ b.parked = [a.parked EXCEPT !.au = au]
    BY DEF AssemblerOver
  <2> HIDE DEF b
  <2>3. b.parked.au = au /\ b.parked.first = a.parked.first
    BY <1>1, <2>2
  <2>4. b.parked # None
    <3>1. b.parked \in Slot
      BY <1>1, <1>2, <2>2 DEF Slot, Closed
    <3> QED BY <3>1, NoneAssumption
  <2>5. ASSUME NEW q \in Packets, q.start, q.seq \in W \/ AsksFor(b.nacks, q)
        PROVE  q.ts \in D \/ AwaitedBy(b.parked, q)
    <3>1. q.seq \in W
      BY <2>2, <2>5 DEF AsksFor
    <3>2. q.ts \in D \/ AwaitedBy(a.parked, q)
      BY <1>4, <2>5, <3>1 DEF Minds
    <3>3. q.seq # p.seq
      BY <2>5, <3>1, OnePacketEach
    <3> QED BY <1>5, <2>3, <2>4, <3>2, <3>3 DEF AwaitedBy, old
  <2>6. Minds(b.cur, b.parked, b.nacks, D, H, W)
    BY <1>4, <1>6, <2>2, <2>3, <2>4, <2>5 DEF Minds
  <2>7. Tended(b, D, H, W)
    BY <1>3, <1>4, <2>2, <2>6 DEF Tended
  <2> QED BY <2>1, <2>7
<1> QED BY <1>7, <1>8

\* Only the packet that opens a unit may be a start.
InTurn(a, p) == a.cur # None /\ a.cur.ts = p.ts /\ p.seq \notin a.cur.seqs => ~p.start

LEMMA GrownSees ==
  ASSUME SentInOrder, NEW U, NEW O, NEW G, Closed(U, O), NEW a \in AssemblerOver(U, O, G),
         NEW p \in Packets, Joins(a, p), a.cur # None => Sees(a.cur), InTurn(a, p)
  PROVE  Sees(Grown(a, p).cur)
<1> DEFINE c == Collect(a, p)
<1>1. c \in AssemblerOver(U, O, G) /\ c.cur \in U /\ c.cur.ts = p.ts /\ p.seq \in c.cur.seqs
  BY CollectOver
<1>2. \A q \in Frame(c.cur.ts) : q.seq \in c.cur.seqs =>
          /\ q.marker => c.cur.marker \/ p.marker
          /\ q.start => c.cur.start
  <2>1. \A q \in Packets : q.seq = p.seq => q = p
    BY OnePacketEach
  <2>2. CASE a.cur = None
    <3>1. c = [a EXCEPT !.prevClose = a.lastClosed, !.lastClosed = p.seq, !.cur = NewAu(p)]
      BY <2>2 DEF Collect
    <3>2. c.cur.seqs = {p.seq} /\ c.cur.marker = p.marker /\ c.cur.start = p.start
      <4>1. NewAu(p).seqs = {p.seq} /\ NewAu(p).marker = p.marker /\ NewAu(p).start = p.start
        BY DEF NewAu
      <4> HIDE DEF NewAu
      <4> QED BY <3>1, <4>1 DEF AssemblerOver
    <3> HIDE DEF c
    <3> QED BY <2>1, <3>2 DEF Frame
  <2>3. CASE a.cur # None /\ p.seq \notin a.cur.seqs
    <3>1. c = [a EXCEPT !.cur = Absorb(a.cur, p)]
      BY <2>3 DEF Collect
    <3>2. a.cur \in Au
      BY <2>3 DEF AssemblerOver, Closed
    <3>3. /\ Absorb(a.cur, p).seqs = a.cur.seqs \cup {p.seq} /\ Absorb(a.cur, p).ts = a.cur.ts
          /\ Absorb(a.cur, p).marker = a.cur.marker /\ Absorb(a.cur, p).start = a.cur.start
      BY <3>2 DEF Absorb, Au
    <3>4. c.cur = Absorb(a.cur, p)
      BY <3>1 DEF AssemblerOver
    <3>5. a.cur.ts = p.ts
      BY <1>1, <3>3, <3>4
    <3> HIDE DEF c
    <3> QED BY <2>1, <2>3, <3>3, <3>4, <3>5 DEF Sees, InTurn, Frame
  <2>4. CASE a.cur # None /\ p.seq \in a.cur.seqs
    <3>1. c = a
      BY <2>4 DEF Collect
    <3> HIDE DEF c
    <3> QED BY <2>4, <3>1 DEF Sees
  <2> QED BY <2>2, <2>3, <2>4
<1>3. Grown(a, p) = SeeMarker(c, p)
  BY DEF Grown
<1> HIDE DEF c
<1>4. CASE ~p.marker
  BY <1>2, <1>3, <1>4 DEF SeeMarker, Sees
<1>5. CASE p.marker
  <2> DEFINE au == Marked(c.cur)
             ask == Holed(au) /\ ~au.reported
             e == [au EXCEPT !.reported = @ \/ ask]
  <2>0. c.cur \in Au
    BY <1>1 DEF Closed
  <2>1. /\ au \in [ts : Ts, seqs : (SUBSET SeqNo) \ {{}}, marker : BOOLEAN, age : {0} \cup (0 .. FillWindow + 1),
                    start : BOOLEAN, idr : BOOLEAN, good : BOOLEAN, size : Nat, reported : BOOLEAN]
        /\ au.seqs = c.cur.seqs /\ au.ts = c.cur.ts /\ au.start = c.cur.start /\ au.marker = TRUE
    BY <2>0 DEF Marked, Au
  <2>2. SeeMarker(c, p) = [c EXCEPT !.cur = e, !.nacks = IF ask THEN @ \cup MissingRanges(au.seqs) ELSE @]
    BY <1>5 DEF SeeMarker, Marked
  <2> HIDE DEF au, ask
  <2>3. e.seqs = c.cur.seqs /\ e.ts = c.cur.ts /\ e.start = c.cur.start /\ e.marker = TRUE
    BY <2>1
  <2> HIDE DEF e
  <2>4. SeeMarker(c, p).cur = e
    BY <1>1, <2>2 DEF AssemblerOver
  <2> QED BY <1>2, <1>3, <2>3, <2>4 DEF Sees
<1> QED BY <1>4, <1>5

LEMMA GrownTended ==
  ASSUME WellFramed, SentInOrder, OneFrameEach, NEW U, U \subseteq AuWithinFrame,
         NEW G, G \subseteq BOOLEAN, Closed(U, OutcomeType),
         NEW a \in AssemblerOver(U, OutcomeType, G), NEW D, NEW H, NEW W,
         Tended(a, D, H, W),
         NEW p \in Packets, Joins(a, p), p.seq \in H,
         InTurn(a, p) \/ p.ts \in D \cup Tss(a.queue)
  PROVE  Tended(Grown(a, p), D, H, W)
<1> DEFINE d == Grown(a, p)
           E == D \cup Tss(a.queue)
<1>0. a \in AssemblerOver(U, OutcomeType, BOOLEAN)
  BY DEF AssemblerOver
<1>1. d.cur \in U /\ GrownTo(d, a, p)
  BY <1>0, GrownUnit
<1>2. Minds(a.cur, a.parked, a.nacks, E, H, W) /\ Proper(a.queue, D)
  BY DEF Tended
<1>3. p.ts \in E \/ Sees(d.cur)
  <2>1. ASSUME p.ts \notin E PROVE Sees(d.cur)
    <3>1. a.cur # None => Sees(a.cur)
      BY <1>2, <2>1 DEF Minds, FineUnit, Joins
    <3>2. InTurn(a, p)
      BY <2>1
    <3> QED BY <1>0, <3>1, <3>2, GrownSees
  <2> QED BY <2>1
<1> HIDE DEF d
<1>4. /\ d.queue = a.queue /\ d.parked = a.parked /\ d.cur.ts = p.ts
      /\ a.cur = None => d.cur.seqs = {p.seq}
      /\ a.cur # None => d.cur.seqs = a.cur.seqs \cup {p.seq}
      /\ d.nacks \subseteq a.nacks \cup MissingRanges(d.cur.seqs)
  BY <1>1 DEF GrownTo, Keeps, AsksIfNew
<1>5. FineUnit(d.cur, E, H)
  BY <1>2, <1>3, <1>4 DEF Minds, FineUnit
<1>6. ASSUME NEW q \in Packets, q.start, q.seq \in W \/ AsksFor(d.nacks, q)
      PROVE  q.ts \in E \/ AwaitedBy(d.parked, q)
  <2>1. d.cur \in AuWithinFrame
    BY <1>1
  <2>2. \A r \in MissingRanges(d.cur.seqs) : q.seq \notin Covered(r)
    BY <1>6, <2>1, HolesNameNoStart
  <2>3. q.seq \in W \/ AsksFor(a.nacks, q)
    BY <1>4, <1>6, <2>2 DEF AsksFor
  <2> QED BY <1>2, <1>4, <1>6, <2>3 DEF Minds
<1>7. Minds(d.cur, d.parked, d.nacks, E, H, W)
  BY <1>2, <1>4, <1>5, <1>6 DEF Minds
<1> QED BY <1>2, <1>4, <1>7 DEF Tended, d

LEMMA SettleTended ==
  ASSUME WellFramed, SentInOrder, OneFrameEach, NEW U, U \subseteq AuWithinFrame,
         NEW G, G \subseteq BOOLEAN, Closed(U, OutcomeType), TRUE \in G => LeadsAreShort,
         \A au \in U : au.size <= MaxAuSize,
         NEW a \in AssemblerOver(U, OutcomeType, G), a.cur \in U, NEW D, NEW H, NEW W,
         Tended(a, D, H, W), NEW p \in Packets
  PROVE  CallTended(Settle(a, p), D, H, W)
<1>0. U \subseteq Au /\ a.cur # None
  BY NoneAssumption DEF Closed
<1>1. CASE Whole(a.cur) /\ p.marker /\ LeadingLoss(a)
  <2> DEFINE expect == WAdd(a.prevClose, 1)
             last == WSub(FirstSeq(a.cur.seqs), 1)
             b == [a EXCEPT !.nacks = @ \cup {<<expect, last>>}]
             au == [a.cur EXCEPT !.reported = TRUE]
  <2>1. Settle(a, p) = Silent(Park(b, au, expect))
    BY <1>1 DEF Settle, ParkLeadingLoss
  <2>2. 1 \in SeqNo
    BY SeqSizeAssumption DEF SeqNo
  <2>3. expect \in SeqNo /\ last \in SeqNo
    BY <1>0, <2>2, WAddValue, WSubValue, UnitEnds DEF AssemblerOver
  <2>4. WSub(FirstSeq(a.cur.seqs), expect) \in 1 .. MaxLead /\ a.parked = None /\ a.graceEnabled
    BY <1>1 DEF LeadingLoss, Lead, SlotFree
  <2>5. LeadsAreShort
    BY <2>4 DEF AssemblerOver
  <2>6. au \in U
    BY DEF Closed
  <2>7. /\ au.ts = a.cur.ts /\ au.seqs = a.cur.seqs /\ au.marker = a.cur.marker /\ au.start = a.cur.start
    BY <1>0 DEF Au
  <2>8. b \in AssemblerOver(U, OutcomeType, G)
    <3> HIDE DEF expect, last
    <3> QED BY <2>3 DEF AssemblerOver
  <2>9. b.queue = a.queue /\ b.nacks = a.nacks \cup {<<expect, last>>}
    BY DEF AssemblerOver
  <2> HIDE DEF b, au, expect
  <2>10. FineUnit(a.cur, D \cup Tss(a.queue), H) /\ Proper(b.queue, D)
    BY <1>0, <2>9 DEF Tended, Minds
  <2>11. FineUnit(au, D \cup Tss(b.queue), H)
    BY <2>7, <2>9, <2>10 DEF FineUnit, Sees
  <2>12. ASSUME NEW q \in Packets, q.start, q.seq \in W \/ AsksFor(b.nacks, q)
         PROVE  \/ q.ts \in D \cup Tss(b.queue)
                \/ au.ts = q.ts /\ q.seq \notin au.seqs /\ WSub(q.seq, expect) < Half
    <3>1. CASE q.seq \in W \/ AsksFor(a.nacks, q)
      BY <2>4, <2>9, <2>12, <3>1 DEF Tended, Minds, AwaitedBy
    <3>2. CASE q.seq \in Covered(<<expect, last>>)
      <4>1. a.cur \in AuWithinFrame
        OBVIOUS
      <4>2. q.ts = a.cur.ts /\ q.seq \notin a.cur.seqs /\ WSub(q.seq, expect) < Half
        BY <2>3, <2>4, <2>5, <2>12, <3>2, <4>1, LeadNamesOwnStart DEF last
      <4> QED BY <2>7, <4>2
    <3> QED BY <2>9, <2>12, <3>1, <3>2 DEF AsksFor
  <2>13. Tended(Park(b, au, expect), D, H, W)
    BY <1>0, <2>3, <2>6, <2>8, <2>10, <2>11, <2>12, ParkTended
  <2>14. Park(b, au, expect) \in AssemblerOver(U, OutcomeType, G)
    BY <2>3, <2>6, <2>8, ParkOver
  <2> QED BY <2>1, <2>13, <2>14, SilentTended
<1>2. CASE Whole(a.cur) /\ ~(p.marker /\ LeadingLoss(a))
  <2>1. Settle(a, p) = PollOutcome(CloseAu(a))
    BY <1>2 DEF Settle
  <2>2. CloseAu(a) \in AssemblerOver(U, OutcomeType, G)
    BY <1>0, CloseAuOver
  <2>3. Tended(CloseAu(a), D, H, W)
    BY <1>0, CloseTended
  <2> QED BY <2>1, <2>2, <2>3, PollTended
<1>3. CASE ~Whole(a.cur)
  <2>1. ~(a.cur.size > MaxAuSize)
    <3>1. a.cur.size \in Nat /\ a.cur.size <= MaxAuSize
      BY <1>0 DEF Au
    <3> QED BY <3>1, TimingAssumption
  <2>2. Settle(a, p) = PollOutcome(a)
    BY <1>3, <2>1, Zenon DEF Settle
  <2> QED BY <2>2, PollTended
<1> QED BY <1>1, <1>2, <1>3

\* A start that reaches the assembler was awaited, comes after its frame's first
\* outcome, or is the first packet of its frame.
Timely(a, p, D, W) ==
    p.start =>
        \/ p.seq \notin W /\ (p.ts \in D \/ AwaitedBy(a.parked, p))
        \/ /\ a.cur # None => a.cur.ts # p.ts
           /\ a.parked # None => a.parked.au.ts # p.ts

LEMMA PushTended ==
  ASSUME WellFramed, SentInOrder, OneFrameEach, NEW U, U \subseteq AuWithinFrame,
         NEW G, G \subseteq BOOLEAN, Closed(U, OutcomeType), TRUE \in G => LeadsAreShort,
         \A au \in U : au.size <= MaxAuSize,
         NEW before \in AssemblerOver(U, OutcomeType, G), NEW D, NEW H, NEW W,
         Tended(before, D, H, W), Tss(before.queue) \subseteq D, before.nacks = {},
         NEW p \in Packets, p.seq \in H, Timely(before, p, D, W)
  PROVE  CallTended(PushPacket(before, p), D, H, W)
<1> DEFINE a == ExpireIfDue(before)
<1>0. None \notin U
  BY NoneAssumption DEF Closed
<1>1. a \in AssemblerOver(U, OutcomeType, G)
  BY ExpireIfDueOver
<1>2. /\ Tended(a, D, H, W)
      /\ a.cur = before.cur /\ a.nacks = {}
      /\ \/ a = before
         \/ /\ before.parked # None /\ a.parked = None
            /\ before.parked.au.ts \in D \cup Tss(a.queue)
  BY ExpireTended
<1>3. CASE FillsParked(a, p)
  <2>1. PushPacket(before, p) = PollOutcome(FillParked(a, p))
    BY <1>3 DEF PushPacket
  <2> HIDE DEF a
  <2>2. a = before /\ before.parked # None /\ before.parked.au.ts = p.ts
    BY <1>2, <1>3 DEF FillsParked
  <2>3. p.start => p.seq \notin W
    BY <2>2 DEF Timely
  <2>4. Tended(FillParked(a, p), D, H, W)
    BY <1>1, <1>2, <1>3, <2>2, <2>3, FillTended
  <2>5. FillParked(a, p) \in AssemblerOver(U, OutcomeType, G)
    BY <1>1, <1>3, FillParkedOver
  <2> QED BY <2>1, <2>4, <2>5, PollTended
<1>4. CASE ~FillsParked(a, p) /\ TooLate(a, p)
  <2>1. PushPacket(before, p) = Silent(a)
    BY <1>4 DEF PushPacket
  <2> HIDE DEF a
  <2> QED BY <1>1, <1>2, <2>1, SilentTended
<1>5. CASE ~FillsParked(a, p) /\ ~TooLate(a, p)
  <2> DEFINE b == IF a.cur # None /\ a.cur.ts # p.ts THEN ForceOut(a) ELSE a
             d == Grown(b, p)
  <2>1. PushPacket(before, p) = Settle(d, p)
    BY <1>5 DEF PushPacket, Grown
  <2> HIDE DEF a
  <2>2. b \in AssemblerOver(U, OutcomeType, G) /\ Joins(b, p)
    BY <1>1, ForceOutOver DEF Joins
  <2>3. Tended(b, D, H, W)
    BY <1>1, <1>2, ForceOutTended
  <2>4. InTurn(b, p) \/ p.ts \in D \cup Tss(b.queue)
    <3>1. CASE a.cur # None /\ a.cur.ts # p.ts
      <4>1. b.cur = None
        BY <1>1, <3>1, ForceOutOver
      <4> QED BY <4>1 DEF InTurn
    <3>2. CASE a.cur = None
      BY <3>2 DEF InTurn
    <3>3. CASE a.cur # None /\ a.cur.ts = p.ts
      <4>1. b = a
        BY <3>3
      <4> HIDE DEF b
      <4>2. CASE ~p.start \/ p.ts \in D
        BY <4>2 DEF InTurn
      <4>3. CASE p.start /\ p.ts \notin D
        <5>1. AwaitedBy(before.parked, p)
          BY <1>2, <3>3, <4>3 DEF Timely
        <5>2. before.parked # None /\ before.parked.au.ts = p.ts /\ p.seq \notin before.parked.au.seqs
              /\ WSub(p.seq, before.parked.first) < Half
          BY <5>1 DEF AwaitedBy
        <5>3. before.parked.au \in AuWithinFrame /\ before.parked.first \in SeqNo
          BY <5>2 DEF AssemblerOver
        <5>4. WSub(p.seq, before.parked.first) <= WSub(WAdd(LastSeq(before.parked.au.seqs), 1), before.parked.first)
          BY <4>3, <5>2, <5>3, StartIsBelowNext
        <5>5. a # before
          BY <1>5, <5>2, <5>4 DEF FillsParked
        <5>6. p.ts \in D \cup Tss(a.queue)
          BY <1>2, <5>2, <5>5
        <5> QED BY <4>1, <5>6
      <4> QED BY <4>2, <4>3
    <3> QED BY <3>1, <3>2, <3>3
  <2> HIDE DEF b
  <2>5. b \in AssemblerOver(U, OutcomeType, BOOLEAN)
    BY <2>2 DEF AssemblerOver
  <2>6. d.cur \in U
    BY <2>2, <2>5, GrownUnit
  <2>7. d \in AssemblerOver(U, OutcomeType, G)
    <3>1. /\ Collect(b, p) \in AssemblerOver(U, OutcomeType, G) /\ Collect(b, p).cur \in U
          /\ Collect(b, p).cur.ts = p.ts /\ p.seq \in Collect(b, p).cur.seqs
      BY <2>2, CollectOver
    <3> QED BY <3>1, SeeMarkerOver DEF Grown
  <2>8. Tended(d, D, H, W)
    BY <2>2, <2>3, <2>4, GrownTended
  <2> HIDE DEF d
  <2> QED BY <2>1, <2>6, <2>7, <2>8, SettleTended
<1> QED BY <1>3, <1>4, <1>5

LEMMA FlushTended ==
  ASSUME WellFramed, SentInOrder, OneFrameEach, NEW U, U \subseteq AuWithinFrame,
         NEW G, G \subseteq BOOLEAN, Closed(U, OutcomeType),
         NEW before \in AssemblerOver(U, OutcomeType, G), NEW D, NEW H, NEW W,
         Tended(before, D, H, W), Tss(before.queue) \subseteq D, before.nacks = {}
  PROVE  CallTended(FlushDue(before), D, H, W)
<1> DEFINE a == ExpireIfDue(before)
           due == a.cur # None /\ a.cur.marker /\ a.cur.age > FillWindow
           park == GraceEligible(a.cur) /\ SlotFree(a)
<1>1. a \in AssemblerOver(U, OutcomeType, G)
  BY ExpireIfDueOver
<1>2. Tended(a, D, H, W) /\ a.nacks = {}
  BY ExpireTended
<1>3. CASE ~due
  <2>1. FlushDue(before) = Silent(a)
    BY <1>3 DEF FlushDue
  <2> HIDE DEF a
  <2> QED BY <1>1, <1>2, <2>1, SilentTended
<1>4. CASE due /\ park
  <2> DEFINE au == a.cur
             first == FirstSeq(a.cur.seqs)
  <2>1. FlushDue(before) = Silent(Park(a, au, first))
    BY <1>4 DEF FlushDue
  <2>2. a.parked = None /\ a.cur # None
    BY <1>4 DEF SlotFree
  <2> HIDE DEF a, park, due
  <2>3. au \in U
    BY <1>1, <2>2 DEF AssemblerOver
  <2>4. first \in SeqNo /\ U \subseteq Au
    BY <2>3, UnitEnds DEF Closed
  <2>5. Proper(a.queue, D) /\ FineUnit(au, D \cup Tss(a.queue), H)
    BY <1>2, <2>2 DEF Tended, Minds
  <2>6. \A p \in Packets : p.start /\ (p.seq \in W \/ AsksFor(a.nacks, p)) => p.ts \in D \cup Tss(a.queue)
    BY <1>2, <2>2 DEF Tended, Minds, AwaitedBy
  <2> HIDE DEF au, first
  <2>7. Tended(Park(a, au, first), D, H, W)
    BY <1>1, <2>3, <2>4, <2>5, <2>6, ParkTended
  <2>8. Park(a, au, first) \in AssemblerOver(U, OutcomeType, G)
    BY <1>1, <2>3, <2>4, ParkOver
  <2> QED BY <2>1, <2>7, <2>8, SilentTended
<1>5. CASE due /\ ~park
  <2>1. FlushDue(before) = PollOutcome(CloseAu(a)) /\ a.cur # None
    BY <1>5 DEF FlushDue
  <2> HIDE DEF a, park, due
  <2>2. CloseAu(a) \in AssemblerOver(U, OutcomeType, G)
    BY <1>1, <2>1, CloseAuOver
  <2>3. Tended(CloseAu(a), D, H, W)
    BY <1>1, <1>2, <2>1, CloseTended
  <2> QED BY <2>1, <2>2, <2>3, PollTended
<1> QED BY <1>3, <1>4, <1>5

-----------------------------------------------------------------------------
(* The link keeps it: what the receiver asked for and has not been sent again. *)

SentSeqs == {Stream[i].seq : i \in 1 .. sent}

OwesSent == requested \ answered

\* With the slot the leads must be short, without it there are none.
LeadsFine == ~asm.graceEnabled \/ LeadsAreShort

LinkTended ==
    LeadsFine => /\ Tss(asm.queue) \subseteq resolved
                 /\ Minds(asm.cur, asm.parked, asm.nacks, resolved, SentSeqs, OwesSent)

LinkFit(U) == StatesOver(U, OutcomeType, BOOLEAN) /\ sent \in Nat /\ asm.nacks = {}

StepProper == LeadsFine => Proper(out' \o asm'.queue, resolved)

\* The constructor chose, and no method chooses again.
LEMMA SlotStays ==
  ASSUME NEW U, Closed(U, OutcomeType), LinkFit(U), [LinkNext]_linkVars
  PROVE  asm'.graceEnabled = asm.graceEnabled
<1> DEFINE G == {asm.graceEnabled}
<1>0. StatesOver(U, OutcomeType, BOOLEAN) /\ sent \in Nat
  BY DEF LinkFit
<1>1. StatesOver(U, OutcomeType, G)
  BY <1>0 DEF StatesOver, AssemblerOver
<1>2. StatesOver(U, OutcomeType, {TRUE}) => StatesOver(U, OutcomeType, {TRUE})'
  BY <1>0, LinkOver
<1>3. StatesOver(U, OutcomeType, {FALSE}) => StatesOver(U, OutcomeType, {FALSE})'
  BY <1>0, LinkOver
<1>4. asm.graceEnabled \in BOOLEAN
  BY <1>0 DEF StatesOver, AssemblerOver
<1>5. StatesOver(U, OutcomeType, {TRUE})' => asm'.graceEnabled = TRUE
  BY DEF StatesOver, AssemblerOver
<1>6. StatesOver(U, OutcomeType, {FALSE})' => asm'.graceEnabled = FALSE
  BY DEF StatesOver, AssemblerOver
<1>7. CASE asm.graceEnabled = TRUE
  BY <1>1, <1>2, <1>5, <1>7
<1>8. CASE asm.graceEnabled = FALSE
  BY <1>1, <1>3, <1>6, <1>8
<1> QED BY <1>4, <1>7, <1>8

LEMMA TssOfBoth ==
  ASSUME NEW S, NEW h \in Seq(S), NEW t \in Seq(S)
  PROVE  Tss(h \o t) = Tss(h) \cup Tss(t)
<1>1. /\ h \o t \in Seq(S)
      /\ Len(h \o t) = Len(h) + Len(t)
      /\ \A i \in 1 .. Len(h) + Len(t) : (h \o t)[i] = IF i <= Len(h) THEN h[i] ELSE t[i - Len(h)]
  BY ConcatProperties
<1> DEFINE s == h \o t
<1>2. /\ DOMAIN s = 1 .. Len(h) + Len(t) /\ DOMAIN h = 1 .. Len(h) /\ DOMAIN t = 1 .. Len(t)
      /\ Len(h) \in Nat /\ Len(t) \in Nat
  BY <1>1
<1>3. \A i \in DOMAIN s : s[i] = IF i <= Len(h) THEN h[i] ELSE t[i - Len(h)]
  BY <1>1, <1>2
<1> HIDE DEF s
<1>4. ASSUME NEW i \in DOMAIN s PROVE s[i].ts \in Tss(h) \cup Tss(t)
  <2>1. CASE i <= Len(h)
    BY <1>2, <1>3, <2>1 DEF Tss
  <2>2. CASE ~(i <= Len(h))
    <3>1. i - Len(h) \in DOMAIN t /\ s[i] = t[i - Len(h)]
      BY <1>2, <1>3, <2>2
    <3> QED BY <3>1 DEF Tss
  <2> QED BY <2>1, <2>2
<1>5. ASSUME NEW i \in DOMAIN h PROVE h[i].ts \in Tss(s)
  <2>1. i \in DOMAIN s /\ s[i] = h[i]
    BY <1>2, <1>3
  <2> QED BY <2>1 DEF Tss
<1>6. ASSUME NEW i \in DOMAIN t PROVE t[i].ts \in Tss(s)
  <2>1. i + Len(h) \in DOMAIN s /\ ~(i + Len(h) <= Len(h)) /\ (i + Len(h)) - Len(h) = i
    BY <1>2
  <2>2. s[i + Len(h)] = t[i]
    BY <1>3, <2>1
  <2> QED BY <2>1, <2>2 DEF Tss
<1> QED BY <1>4, <1>5, <1>6 DEF Tss, s

\* What is owed after the call was owed before, or is asked for now.
OwedBy(V, W, nacks) == \A q \in V : q \in W \/ \E n \in nacks : q \in Covered(n)

\* The call returns, and the receiver takes the ranges.
LEMMA TakenTended ==
  ASSUME NEW r, r.asm.queue \in Seq(OutcomeType), r.out \in Seq(OutcomeType),
         NEW D, NEW H, NEW W, CallTended(r, D, H, W),
         NEW b, b.queue = r.asm.queue, b.cur = r.asm.cur, b.parked = r.asm.parked, b.nacks = {},
         NEW E, E = D \cup Tss(r.out) \cup Tss(b.queue),
         NEW V, OwedBy(V, W, r.asm.nacks)
  PROVE  Tss(b.queue) \subseteq E /\ Minds(b.cur, b.parked, b.nacks, E, H, V)
<1>1. E = D \cup Tss(CallQueue(r))
  BY TssOfBoth DEF CallQueue
<1>2. Minds(b.cur, b.parked, r.asm.nacks, E, H, W)
  BY <1>1 DEF CallTended
<1>3. Minds(b.cur, b.parked, b.nacks, E, H, V)
  BY <1>2 DEF Minds, AsksFor, OwedBy
<1> QED BY <1>3

LEMMA CallStep ==
  ASSUME NEW U, Closed(U, OutcomeType), LinkFit(U), LinkNext, Resolves,
         NEW r, Returns(r), r.asm \in AssemblerOver(U, OutcomeType, BOOLEAN),
         r.out \in {<<>>} \cup {<<o>> : o \in OutcomeType},
         NEW W, LeadsFine => CallTended(r, resolved, SentSeqs', W),
         OwesSent' \subseteq W \cup AskedSeqs'
  PROVE  LinkTended' /\ StepProper
<1>1. asm' = [r.asm EXCEPT !.nacks = {}] /\ asked' = r.asm.nacks /\ out' = r.out
  BY DEF Returns, TakeNackRanges
<1>2. r.out \in Seq(OutcomeType)
  <2>1. CASE r.out = <<>>
    BY <2>1
  <2>2. ASSUME NEW o \in OutcomeType, r.out = <<o>> PROVE r.out \in Seq(OutcomeType)
    BY <2>2
  <2> QED BY <2>1, <2>2
<1>3. resolved' = resolved \cup Tss(r.out) \cup Tss(asm'.queue)
  BY <1>1 DEF Resolves, Outcomes, Tss
<1>4. OwedBy(OwesSent', W, r.asm.nacks)
  BY <1>1 DEF AskedSeqs, OwedBy
<1>5. LeadsFine' = LeadsFine
  BY SlotStays DEF LeadsFine
<1>6. CASE LeadsFine
  <2>1. /\ Proper(r.out \o asm'.queue, resolved)
        /\ Tss(asm'.queue) \subseteq resolved'
        /\ Minds(asm'.cur, asm'.parked, asm'.nacks, resolved', SentSeqs', OwesSent')
    <3> DEFINE b == asm'
               E == resolved'
               H == SentSeqs'
               V == OwesSent'
    <3>1. CallTended(r, resolved, H, W) /\ OwedBy(V, W, r.asm.nacks)
      BY <1>4, <1>6
    <3>2. /\ b.queue = r.asm.queue /\ b.cur = r.asm.cur /\ b.parked = r.asm.parked /\ b.nacks = {}
          /\ r.asm.queue \in Seq(OutcomeType)
      BY <1>1 DEF AssemblerOver
    <3>3. E = resolved \cup Tss(r.out) \cup Tss(b.queue)
      BY <1>1, <1>3
    <3> HIDE DEF b, E, H, V
    <3>4. Proper(r.out \o b.queue, resolved)
      BY <3>1, <3>2 DEF CallTended, CallQueue
    <3>5. Tss(b.queue) \subseteq E /\ Minds(b.cur, b.parked, b.nacks, E, H, V)
      BY <1>2, <3>1, <3>2, <3>3, TakenTended
    <3> QED BY <3>4, <3>5 DEF b, E, H, V
  <2> QED BY <1>1, <2>1 DEF LinkTended, StepProper
<1> QED BY <1>5, <1>6 DEF LinkTended, StepProper

\* Nothing is called, or the clock goes on.
LEMMA IdleStep ==
  ASSUME NEW U, Closed(U, OutcomeType), LinkFit(U), LinkTended, LinkNext,
         out' = <<>>, resolved' = resolved, asm' \in {asm, AssemblerTick(asm)},
         OwesSent' \subseteq OwesSent, SentSeqs \subseteq SentSeqs'
  PROVE  LinkTended' /\ StepProper
<1>0. asm \in AssemblerOver(U, OutcomeType, BOOLEAN) /\ U \subseteq Au
  BY DEF LinkFit, StatesOver, Closed
<1>1. /\ asm'.queue = asm.queue /\ asm'.nacks = asm.nacks
      /\ asm.cur = None <=> asm'.cur = None
      /\ asm.cur # None => asm'.cur \in {asm.cur, Older(asm.cur)}
      /\ asm.parked = None <=> asm'.parked = None
      /\ asm.parked # None => asm'.parked \in {asm.parked, CountDown(asm.parked)}
  <2>1. CASE asm' = asm
    BY <2>1
  <2>2. CASE asm' = AssemblerTick(asm)
    <3>1. asm.cur # None => Older(asm.cur) # None
      <4>1. asm.cur # None => asm.cur \in U /\ Older(asm.cur) \in U
        BY <1>0 DEF AssemblerOver, Closed
      <4> QED BY <4>1, NoneAssumption DEF Closed
    <3>2. asm.parked # None => CountDown(asm.parked) # None
      <4>1. asm.parked # None => asm.parked \in Slot
        BY <1>0 DEF AssemblerOver, Slot
      <4>2. asm.parked # None => CountDown(asm.parked) \in Slot
        BY <4>1, TimingAssumption DEF CountDown, Slot
      <4> QED BY <4>2, NoneAssumption
    <3> QED BY <1>0, <2>2, <3>1, <3>2 DEF AssemblerTick, AssemblerOver
  <2> QED BY <2>1, <2>2
<1>2. \A au \in Au : /\ Older(au).ts = au.ts /\ Older(au).seqs = au.seqs
                     /\ Older(au).marker = au.marker /\ Older(au).start = au.start
  BY DEF Older, Au
<1>3. asm.parked # None =>
         /\ CountDown(asm.parked).au = asm.parked.au
         /\ CountDown(asm.parked).first = asm.parked.first
  BY <1>0 DEF CountDown, AssemblerOver
<1>4. LeadsFine' = LeadsFine
  BY SlotStays DEF LeadsFine
<1>5. CASE LeadsFine
  <2>1. /\ Tss(asm.queue) \subseteq resolved
        /\ Minds(asm.cur, asm.parked, asm.nacks, resolved, SentSeqs, OwesSent)
    BY <1>5 DEF LinkTended
  <2>2. Minds(asm.cur, asm.parked, asm.nacks, resolved, SentSeqs', OwesSent')
    BY <2>1, MindsMore
  <2>3. asm.cur # None => FineUnit(asm'.cur, resolved, SentSeqs')
    <3>1. asm.cur # None => asm.cur \in Au
      BY <1>0 DEF AssemblerOver
    <3> QED BY <1>1, <1>2, <2>2, <3>1 DEF Minds, FineUnit, Sees
  <2>4. asm.parked # None =>
           /\ asm'.parked.au = asm.parked.au /\ asm'.parked.first = asm.parked.first
    BY <1>1, <1>3
  <2>5. \A p : AwaitedBy(asm.parked, p) => AwaitedBy(asm'.parked, p)
    BY <1>1, <2>4 DEF AwaitedBy
  <2>6. Minds(asm'.cur, asm'.parked, asm'.nacks, resolved, SentSeqs', OwesSent')
    BY <1>1, <2>2, <2>3, <2>4, <2>5 DEF Minds
  <2>7. Proper(asm'.queue, resolved)
    BY <1>1, <2>1 DEF Proper, Tss
  <2>8. <<>> \o asm'.queue = asm'.queue
    BY <1>0, <1>1 DEF AssemblerOver
  <2> QED BY <1>1, <2>1, <2>6, <2>7, <2>8 DEF LinkTended, StepProper
<1> QED BY <1>4, <1>5 DEF LinkTended, StepProper

\* The packet sent next is no start of a frame that a unit holds packets of already.
LEMMA NextOpens ==
  ASSUME SentInOrder, OneFrameEach, sent \in Nat, sent < Len(Stream),
         NEW au \in AuWithinFrame, au.seqs \subseteq SentSeqs, Stream[sent + 1].start
  PROVE  au.ts # Stream[sent + 1].ts
<1>0. /\ sent + 1 \in DOMAIN Stream
      /\ \A i \in 1 .. sent : i \in DOMAIN Stream /\ i < sent + 1
  BY StreamAssumption
<1> SUFFICES ASSUME au.ts = Stream[sent + 1].ts PROVE FALSE
  OBVIOUS
<1>1. PICK q \in au.seqs : TRUE
  BY DEF AuWithinFrame, Au
<1>2. PICK p \in Packets : p.ts = au.ts /\ p.seq = q
  BY <1>1 DEF AuWithinFrame, FrameSeqs, Frame
<1>3. PICK i \in 1 .. sent : Stream[i].seq = q
  BY <1>1 DEF SentSeqs
<1>4. i \in DOMAIN Stream /\ i < sent + 1
  BY <1>0
<1>5. Stream[i].ts = Stream[sent + 1].ts
  BY <1>2, <1>3, <1>4, InStream DEF OneFrameEach
<1> QED BY <1>0, <1>4, <1>5 DEF SentInOrder

LEMMA SentGrows ==
  ASSUME sent \in Nat, LinkNext
  PROVE  sent' \in Nat /\ SentSeqs \subseteq SentSeqs'
<1>1. sent' = sent \/ sent' = sent + 1
  BY DEF LinkNext, Deliver, Lose, Retransmit, LoseRetransmit, PumpFlush, PumpPoll, PumpTick
<1>2. 1 .. sent \subseteq 1 .. sent' /\ sent' \in Nat
  BY <1>1
<1> QED BY <1>2 DEF SentSeqs

LEMMA TendedStep ==
  ASSUME WellFramed, SentInOrder, OneFrameEach,
         NEW U, U \subseteq AuWithinFrame, Closed(U, OutcomeType), \A au \in U : au.size <= MaxAuSize,
         LinkFit(U), LinkTended, LinkNext
  PROVE  LinkTended' /\ StepProper
<1> DEFINE G == {asm.graceEnabled}
<1>0. /\ asm \in AssemblerOver(U, OutcomeType, BOOLEAN) /\ sent \in Nat /\ asm.nacks = {}
      /\ None \notin U
  BY NoneAssumption DEF LinkFit, StatesOver, Closed
<1>1. asm \in AssemblerOver(U, OutcomeType, G) /\ G \subseteq BOOLEAN /\ (LeadsFine => (TRUE \in G => LeadsAreShort))
  BY <1>0 DEF AssemblerOver, LeadsFine
<1> HIDE DEF G
<1>2. sent' \in Nat /\ SentSeqs \subseteq SentSeqs'
  BY <1>0, SentGrows
<1>4. ASSUME NEW W, W \subseteq OwesSent, LeadsFine
      PROVE  /\ Tended(asm, resolved, SentSeqs', W)
             /\ Tss(asm.queue) \subseteq resolved
  <2>1. /\ Tss(asm.queue) \subseteq resolved
        /\ Minds(asm.cur, asm.parked, asm.nacks, resolved, SentSeqs, OwesSent)
    BY <1>4 DEF LinkTended
  <2>2. resolved \cup Tss(asm.queue) = resolved
    BY <2>1
  <2>3. Minds(asm.cur, asm.parked, asm.nacks, resolved, SentSeqs', W)
    BY <1>2, <1>4, <2>1, MindsMore
  <2>4. Proper(asm.queue, resolved)
    BY <2>1 DEF Proper, Tss
  <2> QED BY <2>1, <2>2, <2>3, <2>4 DEF Tended
<1>5. ASSUME NEW p \in Packets, Push(p), Resolves, p.seq \in SentSeqs',
             NEW W, W \subseteq OwesSent, OwesSent' \subseteq W \cup AskedSeqs',
             LeadsFine => Timely(asm, p, resolved, W)
      PROVE  LinkTended' /\ StepProper
  <2> DEFINE r == PushPacket(asm, p)
  <2>1. Returns(r)
    BY <1>5 DEF Push
  <2>2. r \in CallOver(U, OutcomeType, BOOLEAN)
    BY <1>0, PushPacketOver
  <2>3. LeadsFine => CallTended(r, resolved, SentSeqs', W)
    <3> SUFFICES ASSUME LeadsFine PROVE CallTended(r, resolved, SentSeqs', W)
      OBVIOUS
    <3> DEFINE D == resolved
               H == SentSeqs'
    <3>1. Tended(asm, D, H, W) /\ Tss(asm.queue) \subseteq D
      BY <1>4, <1>5
    <3>2. Timely(asm, p, D, W) /\ p.seq \in H
      BY <1>5
    <3> HIDE DEF D, H
    <3>3. CallTended(PushPacket(asm, p), D, H, W)
      BY <1>0, <1>1, <3>1, <3>2, PushTended
    <3> QED BY <3>3 DEF D, H
  <2> HIDE DEF r
  <2>4. r.asm \in AssemblerOver(U, OutcomeType, BOOLEAN) /\ r.out \in {<<>>} \cup {<<o>> : o \in OutcomeType}
    BY <2>2 DEF CallOver
  <2> QED BY <1>5, <2>1, <2>3, <2>4, CallStep
<1>6. CASE Deliver
  <2> DEFINE p == Stream[sent + 1]
  <2>1. /\ sent + 1 \in DOMAIN Stream /\ sent' = sent + 1 /\ sent < Len(Stream) /\ Push(p) /\ Resolves
        /\ requested' = requested \cup AskedSeqs' /\ answered' = answered
    BY <1>0, <1>6, StreamAssumption DEF Deliver
  <2>2. p \in Packets
    BY <2>1, InStream
  <2>3. p.seq \in SentSeqs'
    BY <1>0, <2>1 DEF SentSeqs
  <2>4. OwesSent' \subseteq OwesSent \cup AskedSeqs'
    BY <2>1 DEF OwesSent
  <2>5. LeadsFine => Timely(asm, p, resolved, OwesSent)
    <3> SUFFICES ASSUME LeadsFine, p.start
                 PROVE  /\ asm.cur # None => asm.cur.ts # p.ts
                        /\ asm.parked # None => asm.parked.au.ts # p.ts
      BY DEF Timely
    <3>1. Minds(asm.cur, asm.parked, asm.nacks, resolved, SentSeqs, OwesSent)
      BY DEF LinkTended
    <3>2. /\ asm.cur # None => asm.cur \in AuWithinFrame /\ asm.cur.seqs \subseteq SentSeqs
          /\ asm.parked # None => asm.parked.au \in AuWithinFrame /\ asm.parked.au.seqs \subseteq SentSeqs
      BY <1>0, <3>1 DEF Minds, FineUnit, AssemblerOver
    <3> QED BY <1>0, <2>1, <3>2, NextOpens
  <2> HIDE DEF p
  <2> QED BY <1>5, <2>1, <2>2, <2>3, <2>4, <2>5
<1>7. ASSUME NEW i \in DOMAIN Stream, Retransmit(i) PROVE LinkTended' /\ StepProper
  <2> DEFINE p == Stream[i]
             W == OwesSent \ {p.seq}
  <2>1. /\ i \in 1 .. sent' /\ p.seq \in OwesSent /\ Push(p) /\ Resolves /\ p \in Packets
        /\ requested' = requested \cup AskedSeqs' /\ answered' = answered \cup {p.seq}
    BY <1>7, InStream DEF Retransmit, CanRepeat, OwesSent
  <2>2. p.seq \in SentSeqs'
    BY <2>1 DEF SentSeqs
  <2>3. OwesSent' \subseteq W \cup AskedSeqs'
    BY <2>1 DEF OwesSent
  <2>4. W \subseteq OwesSent /\ p.seq \notin W
    OBVIOUS
  <2>5. LeadsFine => Timely(asm, p, resolved, W)
    <3> SUFFICES ASSUME LeadsFine, p.start
                 PROVE  p.seq \notin W /\ (p.ts \in resolved \/ AwaitedBy(asm.parked, p))
      BY DEF Timely
    <3>1. Minds(asm.cur, asm.parked, asm.nacks, resolved, SentSeqs, OwesSent)
      BY DEF LinkTended
    <3> QED BY <2>1, <2>4, <3>1 DEF Minds
  <2> HIDE DEF p, W
  <2> QED BY <1>5, <2>1, <2>2, <2>3, <2>4, <2>5
<1>8. ASSUME Lose \/ (\E i \in DOMAIN Stream : LoseRetransmit(i)) PROVE LinkTended' /\ StepProper
  <2>1. asm' = asm /\ out' = <<>> /\ resolved' = resolved
    BY <1>8 DEF Lose, LoseRetransmit, Quiet
  <2>2. OwesSent' \subseteq OwesSent
    BY <1>8 DEF Lose, LoseRetransmit, OwesSent
  <2> QED BY <1>2, <2>1, <2>2, IdleStep
<1>9. CASE PumpFlush
  <2> DEFINE r == FlushDue(asm)
  <2>1. Returns(r) /\ Resolves /\ OwesSent' = OwesSent
    BY <1>9 DEF PumpFlush, Flush, OwesSent
  <2>2. r \in CallOver(U, OutcomeType, BOOLEAN)
    BY <1>0, FlushDueOver
  <2>3. LeadsFine => CallTended(r, resolved, SentSeqs', OwesSent)
    <3> SUFFICES ASSUME LeadsFine PROVE CallTended(r, resolved, SentSeqs', OwesSent)
      OBVIOUS
    <3> DEFINE D == resolved
               H == SentSeqs'
               W == OwesSent
    <3>1. Tended(asm, D, H, W) /\ Tss(asm.queue) \subseteq D
      BY <1>4
    <3> HIDE DEF D, H, W
    <3>2. CallTended(FlushDue(asm), D, H, W)
      BY <1>0, <1>1, <3>1, FlushTended
    <3> QED BY <3>2 DEF D, H, W
  <2> HIDE DEF r
  <2>4. r.asm \in AssemblerOver(U, OutcomeType, BOOLEAN) /\ r.out \in {<<>>} \cup {<<o>> : o \in OutcomeType}
    BY <2>2 DEF CallOver
  <2> QED BY <2>1, <2>3, <2>4, CallStep
<1>10. CASE PumpPoll
  <2> DEFINE r == PollOutcome(asm)
  <2>1. Returns(r) /\ Resolves /\ OwesSent' = OwesSent
    BY <1>10 DEF PumpPoll, Poll, OwesSent
  <2>2. r \in CallOver(U, OutcomeType, BOOLEAN)
    BY <1>0, PollOutcomeOver
  <2>3. LeadsFine => CallTended(r, resolved, SentSeqs', OwesSent)
    <3> SUFFICES ASSUME LeadsFine PROVE CallTended(r, resolved, SentSeqs', OwesSent)
      OBVIOUS
    <3> DEFINE D == resolved
               H == SentSeqs'
               W == OwesSent
    <3>1. Tended(asm, D, H, W)
      BY <1>4
    <3> HIDE DEF D, H, W
    <3>2. CallTended(PollOutcome(asm), D, H, W)
      BY <1>1, <3>1, PollTended
    <3> QED BY <3>2 DEF D, H, W
  <2> HIDE DEF r
  <2>4. r.asm \in AssemblerOver(U, OutcomeType, BOOLEAN) /\ r.out \in {<<>>} \cup {<<o>> : o \in OutcomeType}
    BY <2>2 DEF CallOver
  <2> QED BY <2>1, <2>3, <2>4, CallStep
<1>11. CASE PumpTick
  <2>1. asm' = AssemblerTick(asm) /\ out' = <<>> /\ resolved' = resolved /\ OwesSent' = OwesSent
    BY <1>11 DEF PumpTick, Tick, OwesSent
  <2> QED BY <1>2, <2>1, IdleStep
<1> QED BY <1>6, <1>7, <1>8, <1>9, <1>10, <1>11 DEF LinkNext

\* A frame whose first outcome is Damaged lacks a packet, through any loss and any
\* retransmission: without the slot on any orderly stream, with it when every frame
\* has more packets than a leading loss may count.
THEOREM DamagedLacksPackets ==
  ASSUME OrderlyStream, SentInOrder
  PROVE  LinkSpec => DamagedIsIncomplete
<1> PICK most \in 0 .. MaxAuSize : \A p \in Packets :
        p.size <= most /\ Cardinality(FrameSeqs(p.ts)) * most <= MaxAuSize
  BY DEF OrderlyStream, FramesFit
<1> most \in Nat
  BY TimingAssumption
<1> DEFINE U == FitUnits(most)
<1>1. Closed(U, OutcomeType) /\ (\A au \in U : au.size <= MaxAuSize) /\ U \subseteq AuWithinFrame
  BY FitClosed, FitUnitsFit DEF FitUnits
<1> HIDE DEF U
<1>2. LinkInit => LinkFit(U) /\ LinkTended
  <2> SUFFICES ASSUME LinkInit PROVE LinkFit(U) /\ LinkTended
    OBVIOUS
  <2>1. /\ asm.nacks = {} /\ asm.parked = None /\ asm.queue = <<>> /\ asm.cur = None
        /\ requested = {} /\ sent \in Nat
    BY DEF LinkInit, Init, NewAssembler
  <2>2. StatesOver(U, OutcomeType, BOOLEAN)
    BY InitOver DEF LinkInit
  <2> QED BY <2>1, <2>2 DEF LinkFit, LinkTended, Minds, AsksFor, OwesSent, Tss
<1>3. LinkFit(U) /\ LinkTended /\ [LinkNext]_linkVars => LinkFit(U)' /\ LinkTended'
  <2> SUFFICES ASSUME LinkFit(U), LinkTended, [LinkNext]_linkVars
               PROVE  LinkFit(U)' /\ LinkTended'
    OBVIOUS
  <2>1. LinkFit(U)'
    BY <1>1, LinkOver DEF LinkFit
  <2>2. CASE LinkNext
    BY <1>1, <2>1, <2>2, TendedStep DEF OrderlyStream
  <2>3. CASE UNCHANGED linkVars
    BY <2>1, <2>3 DEF linkVars, LinkTended, LeadsFine, SentSeqs, OwesSent
  <2> QED BY <2>2, <2>3
<1>4. LinkFit(U) /\ LinkTended /\ LinkNext
        => LET s == out' \o asm'.queue
           IN  \A i \in DOMAIN s :
                  /\ s[i].kind = "Damaged" /\ FirstOfFrame(s, i)
                  /\ ~asm.graceEnabled \/ LeadsAreShort
                  => s[i].seqs # FrameSeqs(s[i].ts)
  <2> DEFINE s == out' \o asm'.queue
  <2> SUFFICES ASSUME LinkFit(U), LinkTended, LinkNext, LeadsFine,
                      NEW i \in DOMAIN s, s[i].kind = "Damaged", FirstOfFrame(s, i)
               PROVE  s[i].seqs # FrameSeqs(s[i].ts)
    BY DEF LeadsFine
  <2>1. StepProper
    BY <1>1, TendedStep DEF OrderlyStream
  <2>2. Proper(s, resolved)
    BY <2>1 DEF StepProper
  <2> HIDE DEF s
  <2>3. Lacks(s[i])
    BY <2>2 DEF Proper, FirstOfFrame
  <2> QED BY <2>3 DEF Lacks
<1>5. LinkFit(U) /\ LinkTended /\ [LinkNext]_linkVars
        => [LET s == out' \o asm'.queue
            IN  \A i \in DOMAIN s :
                   /\ s[i].kind = "Damaged" /\ FirstOfFrame(s, i)
                   /\ ~asm.graceEnabled \/ LeadsAreShort
                   => s[i].seqs # FrameSeqs(s[i].ts)]_linkVars
  BY <1>4
<1> QED BY <1>2, <1>3, <1>5, PTL DEF LinkSpec, DamagedIsIncomplete
=============================================================================
