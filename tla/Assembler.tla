------------------------------ MODULE Assembler ------------------------------
(***************************************************************************)
(* The assembler between a network that may deliver any packet of the       *)
(* stream at any time, any number of times or never (loss, reordering,      *)
(* duplication and retransmission are all of that shape), and a receiver    *)
(* that polls it and calls flush_due on its pump.                           *)
(***************************************************************************)
EXTENDS AccessUnits

CONSTANT MaxQueue   \* bound: outcomes waiting behind a parked unit

VARIABLES
    asm,        \* AccessUnitAssembler
    out,        \* what the last call returned: no outcome or one
    asked,      \* the ranges take_nack_ranges drained after it
    lastOut,    \* history: the last outcome handed out while the slot was unused, its
                \* timestamp and whether its position is odd
    slotUsed    \* history: a unit was parked

vars == <<asm, out, asked, lastOut, slotUsed>>

Init ==
    /\ \E graceEnabled \in BOOLEAN : asm = NewAssembler(graceEnabled)
    /\ out = <<>>
    /\ asked = {}
    /\ lastOut = [ts |-> None, odd |-> FALSE]
    /\ slotUsed = FALSE

\* The receiver drains the ranges to ask for after every push; only a push
\* finds any.
Returns(call) ==
    /\ asm' = TakeNackRanges(call.asm).asm
    /\ asked' = TakeNackRanges(call.asm).ranges
    /\ out' = call.out
    /\ slotUsed' = (slotUsed \/ call.asm.parked # None)
    /\ lastOut' = IF call.out = <<>> \/ slotUsed' THEN lastOut
                  ELSE [ts |-> call.out[1].ts, odd |-> ~lastOut.odd]

\* "Callers must drain until None after each push": nothing else is called
\* while poll_outcome would answer.
Drained == asm.parked # None \/ asm.queue = <<>>

Push(p) == Drained /\ Len(asm.queue) < MaxQueue /\ Returns(PushPacket(asm, p))

Flush == Drained /\ Returns(FlushDue(asm))

Poll == ~Drained /\ Returns(PollOutcome(asm))

Tick ==
    /\ Drained
    /\ asm' = AssemblerTick(asm)
    /\ out' = <<>>
    /\ asked' = {}
    /\ UNCHANGED <<lastOut, slotUsed>>

Next ==
    \/ \E p \in Packets : Push(p)
    \/ Flush
    \/ Poll
    \/ Tick

Spec == Init /\ [][Next]_vars

-----------------------------------------------------------------------------
\* Every field stays in its type: ages within the fill window, the countdown
\* within the budget, at least one packet in every unit.
TypeOK ==
    /\ asm \in AssemblerType
    /\ out \in Seq(OutcomeType) /\ Len(out) <= 1
    /\ asked \subseteq SeqNo \X SeqNo
    /\ lastOut \in [ts : Ts \cup {None}, odd : BOOLEAN]
    /\ slotUsed \in BOOLEAN

-----------------------------------------------------------------------------
(* The frames behind the packets.                                           *)

Frame(t) == {p \in Packets : p.ts = t}

FrameSeqs(t) == {p.seq : p \in Frame(t)}

\* Frames as an encoder of one slice per frame packetizes them: consecutive
\* sequence numbers, of which only the first starts a NAL and only the last
\* carries the marker.
WellFramed ==
    \A t \in {p.ts : p \in Packets} : \E first \in SeqNo, n \in 0 .. Half - 1 :
        /\ FrameSeqs(t) = {q \in SeqNo : WSub(q, first) <= n}
        /\ \A p \in Frame(t) : /\ p.start => p.seq = first
                               /\ p.marker => WSub(p.seq, first) = n

\* Timestamps within half a turn of each other, as those of six hours are: newer
\* is a total order on them.
WithinHalfTurn ==
    \E base \in Ts : \A p \in Packets : (p.ts - base) % TsSize < TsSize \div 2

\* No sequence number is used by two frames.
OneFrameEach == \A p, q \in Packets : p.seq = q.seq => p.ts = q.ts

\* As many packets as a frame has, each of the largest size, stay below the limit
\* of an access unit.
FramesFit ==
    \E most \in 0 .. MaxAuSize : \A p \in Packets :
        p.size <= most /\ Cardinality(FrameSeqs(p.ts)) * most <= MaxAuSize

\* The stream as the console sends it within some hours.
OrderlyStream == WellFramed /\ WithinHalfTurn /\ OneFrameEach /\ FramesFit

Outcomes == {asm.queue[i] : i \in DOMAIN asm.queue} \cup {out[i] : i \in DOMAIN out}

\* A unit is handed to the decoder as Complete only with every packet its
\* frame was sent in (rule 2 of push, the repairs of grace_try_fill_parked and
\* the contiguity count of compute_holes together).
CompleteIsWholeFrame ==
    \A o \in Outcomes : o.kind = "Complete" => o.seqs = FrameSeqs(o.ts)

\* What the units hold that the last call left, or handed out.
HeldSets ==
    {au.seqs : au \in {asm.cur} \ {None}}
        \cup {slot.au.seqs : slot \in {asm.parked} \ {None}}
        \cup {out[i].seqs : i \in DOMAIN out}

\* Every range asked for ends just below a packet of a unit that lacks all of the
\* range: queue_nacks is fed the holes of the unit just collected or just parked,
\* and what a whole one may lack before its first packet.
NackNamesOnlyMissing ==
    \A r \in asked : \E s \in HeldSets : WAdd(r[2], 1) \in s /\ Covered(r) \cap s = {}

===========================================================================
