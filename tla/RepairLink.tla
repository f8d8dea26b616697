----------------------------- MODULE RepairLink -----------------------------
(***************************************************************************)
(* The assembler on the network it was written for: the packets of the      *)
(* stream arrive in order or are lost, and a packet the receiver asks for   *)
(* is retransmitted, arrives at any later time, or is lost again.           *)
(***************************************************************************)
EXTENDS Assembler

CONSTANT Stream     \* the packets in the order they are sent

ASSUME StreamAssumption ==
    Stream \in Seq(Packets) /\ {Stream[i] : i \in DOMAIN Stream} = Packets

VARIABLES
    sent,       \* how many packets of Stream have been delivered or lost
    requested,  \* sequence numbers asked for so far
    answered,   \* those among them retransmitted, or lost again
    got,        \* history: sequence numbers delivered
    resolved    \* history: timestamps of the frames that had an outcome

linkVars == <<asm, out, asked, lastOut, slotUsed, sent, requested, answered, got, resolved>>

LinkInit ==
    /\ Init
    /\ sent = 0
    /\ requested = {}
    /\ answered = {}
    /\ got = {}
    /\ resolved = {}

AskedSeqs == UNION {Covered(r) : r \in asked}

Resolves == resolved' = resolved \cup {o.ts : o \in Outcomes'}

Deliver ==
    /\ sent < Len(Stream)
    /\ Push(Stream[sent + 1])
    /\ sent' = sent + 1
    /\ got' = got \cup {Stream[sent + 1].seq}
    /\ requested' = requested \cup AskedSeqs'
    /\ UNCHANGED answered
    /\ Resolves

\* Nothing reaches the receiver.
Quiet == out' = <<>> /\ asked' = {} /\ UNCHANGED <<asm, lastOut, slotUsed, got, resolved>>

Lose ==
    /\ Drained
    /\ sent < Len(Stream)
    /\ sent' = sent + 1
    /\ Quiet
    /\ UNCHANGED <<requested, answered>>

\* Only what the console has sent can be sent again.
CanRepeat(i) == i \in 1 .. sent /\ Stream[i].seq \in requested \ answered

Retransmit(i) ==
    /\ CanRepeat(i)
    /\ Push(Stream[i])
    /\ got' = got \cup {Stream[i].seq}
    /\ requested' = requested \cup AskedSeqs'
    /\ answered' = answered \cup {Stream[i].seq}
    /\ UNCHANGED sent
    /\ Resolves

LoseRetransmit(i) ==
    /\ Drained
    /\ CanRepeat(i)
    /\ answered' = answered \cup {Stream[i].seq}
    /\ Quiet
    /\ UNCHANGED <<sent, requested>>

PumpFlush == Flush /\ Resolves /\ UNCHANGED <<sent, requested, answered, got>>

PumpPoll == Poll /\ Resolves /\ UNCHANGED <<sent, requested, answered, got>>

\* The pump turns faster than the clock of the model: what is due has been
\* resolved before time goes on.
NothingDue ==
    /\ asm.parked # None => asm.parked.left > 0
    /\ asm.cur # None => asm.cur.age <= FillWindow

PumpTick ==
    /\ NothingDue
    /\ Tick
    /\ UNCHANGED <<sent, requested, answered, got, resolved>>

LinkNext ==
    \/ Deliver
    \/ Lose
    \/ \E i \in DOMAIN Stream : Retransmit(i) \/ LoseRetransmit(i)
    \/ PumpFlush
    \/ PumpPoll
    \/ PumpTick

LinkSpec == LinkInit /\ [][LinkNext]_linkVars

\* The pump runs for ever; the network owes nothing.
FairLinkSpec ==
    /\ LinkSpec
    /\ WF_linkVars(PumpFlush)
    /\ WF_linkVars(PumpPoll)
    /\ WF_linkVars(PumpTick)

-----------------------------------------------------------------------------
\* A frame is sent from its start to its marker, each packet under a number of
\* its own.
SentInOrder ==
    /\ \A i, j \in DOMAIN Stream : Stream[i].seq = Stream[j].seq => i = j
    /\ \A i, j \in DOMAIN Stream : i < j /\ Stream[i].ts = Stream[j].ts => ~Stream[j].start
    /\ \A p \in Packets : \E s, m \in Frame(p.ts) : s.start /\ m.marker

\* Every frame has more packets than a leading loss may count, so that what is asked
\* for before a unit never reaches back to the start of the frame before it.
LeadsAreShort == \A p \in Packets : Cardinality(FrameSeqs(p.ts)) > MaxLead

\* The i-th outcome of s is the first one of its frame.
FirstOfFrame(s, i) == s[i].ts \notin resolved /\ \A j \in 1 .. i - 1 : s[j].ts # s[i].ts

\* The first outcome of a frame, in the order the receiver gets them, is Damaged
\* only if the unit lacks a packet: with the slot this takes short leads, as a start
\* packet asked for out of turn joins the open unit, where push does not look for a
\* start (RepairedAu does).
DamagedIsIncomplete ==
    [][LET s == out' \o asm'.queue
       IN  \A i \in DOMAIN s :
              /\ s[i].kind = "Damaged" /\ FirstOfFrame(s, i)
              /\ ~asm.graceEnabled \/ LeadsAreShort
              => s[i].seqs # FrameSeqs(s[i].ts)]_linkVars

\* What waits behind a parked unit is not older than the unit: poll_outcome says
\* "the parked AU is OLDER than any queued outcome".
ParkedIsOldest ==
    asm.parked # None =>
        \A i \in DOMAIN asm.queue : ~IsNewer(asm.parked.au.ts, asm.queue[i].ts)

\* No unit is held for ever, whatever else arrives: the fill window parks or
\* resolves a marked unit with holes, a parked unit is resolved, and what waits
\* behind the gate of a parked unit is handed out.
UnitsMoveOn ==
    /\ (asm.cur # None /\ asm.cur.marker) ~> (asm.cur = None \/ ~asm.cur.marker)
    /\ asm.parked # None ~> asm.parked = None
    /\ asm.queue # <<>> ~> asm.queue = <<>>

(* What holds until the first unit is parked, and for ever without the slot:  *)
(* a unit that leaves the slot does not consume its timestamp, and a straggler *)
(* may open its frame a second time.                                           *)

\* Nothing is asked for twice: report-once per unit, and one unit per frame.
AskedOnce == [][~slotUsed' => AskedSeqs' \cap requested = {}]_linkVars

\* Nothing is asked for that has arrived before.
NeverAsksForReceived == ~slotUsed => AskedSeqs \cap got = {}

\* The outcomes leave the assembler in the order of decoding, each frame once:
\* it implements AuOrder.
Order == INSTANCE AuOrder WITH last <- lastOut.ts, odd <- lastOut.odd

InOrder == Order!Spec
=============================================================================
