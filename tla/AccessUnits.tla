----------------------------- MODULE AccessUnits -----------------------------
(***************************************************************************)
(* The access-unit assembler of src/pipeline/media/assembler.rs as          *)
(* transformers of its state: one operator for every method, from the       *)
(* assembler before the call to the assembler after it and what the call    *)
(* returned (a sequence of at most one outcome).                            *)
(*                                                                          *)
(* A packet keeps what the assembler looks at: its sequence number and      *)
(* timestamp, the marker bit, whether its payload starts a NAL (`start`),   *)
(* belongs to an IDR, can be depacketized (`good`), and its length.         *)
(* A time stored by the code is an age or a countdown here, in ticks.       *)
(***************************************************************************)
EXTENDS SeqSpace, Sequences

CONSTANTS
    TsSize,          \* size of the timestamp circle (2^32)
    Packets,        \* the packets the console can send
    MaxAuSize,      \* MAX_AU_BYTES
    FillWindow,     \* MARKER_FILL_WINDOW_US in ticks
    GraceBudget,    \* GRACE_BUDGET_US in ticks
    MaxLead,        \* GRACE_MAX_LEADING_LOSS
    None

Ts == 0 .. TsSize - 1

Packet == [seq : SeqNo, ts : Ts, marker : BOOLEAN, start : BOOLEAN,
           idr : BOOLEAN, good : BOOLEAN, size : Nat]

ASSUME TimingAssumption ==
    /\ TsSize \in Nat /\ TsSize > 1
    /\ FillWindow \in Nat /\ GraceBudget \in Nat
    /\ MaxLead \in 0 .. Half /\ MaxAuSize \in Nat

ASSUME PacketAssumption == Packets \subseteq Packet

\* timestamp_is_newer: less than half a turn ahead.
IsNewer(candidate, reference) ==
    LET distance == (candidate - reference) % TsSize
    IN  distance # 0 /\ distance < TsSize \div 2

-----------------------------------------------------------------------------
(* The unit being collected (AuBuilder) and what becomes of it.             *)

NewAu(p) ==
    [ts |-> p.ts, seqs |-> {p.seq}, marker |-> p.marker, age |-> 0,
     start |-> p.start, idr |-> p.idr, good |-> p.good, size |-> p.size,
     reported |-> FALSE]

\* A packet the unit does not hold yet.
Absorb(au, p) ==
    [au EXCEPT !.seqs = @ \cup {p.seq}, !.size = @ + p.size,
               !.idr = @ \/ p.idr, !.good = @ /\ p.good]

Holed(au) == Missing(au.seqs) # {}

\* Rule 2: nothing missing below the marker.
Whole(au) == au.marker /\ ~Holed(au)

\* A variant that trusts the first packet held to be the first one sent.
VerdictWithoutStart(au) ==
    CASE ~Whole(au)                           -> "Damaged"
      [] Whole(au) /\ au.good
                   /\ au.size <= MaxAuSize    -> "Complete"
      [] OTHER                                -> "Discarded"

Verdict(au) ==
    CASE ~Whole(au) \/ ~au.start                -> "Damaged"
      [] Whole(au) /\ au.start /\ au.good
                   /\ au.size <= MaxAuSize      -> "Complete"
      [] OTHER                                  -> "Discarded"

Outcome(au, kind) ==
    [kind |-> kind, ts |-> au.ts, seqs |-> au.seqs, marker |-> au.marker,
     start |-> au.start, idr |-> au.idr]

-----------------------------------------------------------------------------
(* The assembler.                                                           *)

Au ==
    [ts : Ts, seqs : (SUBSET SeqNo) \ {{}}, marker : BOOLEAN, age : 0 .. FillWindow + 1,
     start : BOOLEAN, idr : BOOLEAN, good : BOOLEAN, size : Nat, reported : BOOLEAN]

OutcomeType ==
    [kind : {"Complete", "Damaged", "Discarded"}, ts : Ts,
     seqs : (SUBSET SeqNo) \ {{}}, marker : BOOLEAN, start : BOOLEAN, idr : BOOLEAN]

\* A unit that waits for its repairs, and the packet number it may start from (grace_parked).
Slot == [au : Au, left : 0 .. GraceBudget, first : SeqNo]

\* `None` stands for no unit, for no parked one and for no timestamp.
ASSUME NoneAssumption == None \notin Au /\ None \notin Slot /\ None \notin Ts

AssemblerType ==
    [cur : Au \cup {None}, queue : Seq(OutcomeType), lastClosed : SeqNo,
     prevClose : SeqNo, lastTs : Ts \cup {None},
     parked : Slot \cup {None},
     nacks : SUBSET (SeqNo \X SeqNo), graceEnabled : BOOLEAN]

\* new() has the slot for a parked unit, new_without_grace() has not.
NewAssembler(graceEnabled) ==
    [cur |-> None, queue |-> <<>>, lastClosed |-> 0, prevClose |-> 0,
     lastTs |-> None, parked |-> None, nacks |-> {}, graceEnabled |-> graceEnabled]

\* resolve_au_now and push_back: the unit consumes its timestamp.
CloseAu(a) ==
    [a EXCEPT !.cur = None,
              !.lastClosed = LastSeq(a.cur.seqs),
              !.lastTs = a.cur.ts,
              !.queue = Append(@, Outcome(a.cur, Verdict(a.cur)))]

\* resolve_au_now and push_front for the parked unit; the anchors stay.
ReleaseParked(a, au) ==
    [a EXCEPT !.parked = None, !.queue = <<Outcome(au, Verdict(au))>> \o @]

Park(a, au, first) ==
    [a EXCEPT !.cur = None,
              !.parked = [au |-> au, left |-> GraceBudget, first |-> first]]

SlotFree(a) == a.graceEnabled /\ a.parked = None

\* The tails of push and flush_due, and poll_outcome: nothing leaves the
\* queue while a unit is parked.
PollOutcome(a) ==
    IF a.parked = None /\ a.queue # <<>>
    THEN [asm |-> [a EXCEPT !.queue = Tail(@)], out |-> <<Head(a.queue)>>]
    ELSE [asm |-> a, out |-> <<>>]

Silent(a) == [asm |-> a, out |-> <<>>]

-----------------------------------------------------------------------------
(* The parked unit.                                                         *)

ExpireIfDue(a) ==
    IF a.parked # None /\ a.parked.left = 0
    THEN ReleaseParked(a, a.parked.au)
    ELSE a

\* The same timestamp, a sequence number from the expected first one to the
\* one after the highest held, and not held yet.
FillsParked(a, p) ==
    /\ a.parked # None
    /\ a.parked.au.ts = p.ts
    /\ WSub(p.seq, a.parked.first)
          <= WSub(WAdd(LastSeq(a.parked.au.seqs), 1), a.parked.first)
    /\ p.seq \notin a.parked.au.seqs

\* A variant that treats the start like a packet of the open unit does.
RepairedAuStartless(au, p) ==
    [Absorb(au, p) EXCEPT !.marker = @ \/ p.marker, !.age = IF p.marker THEN 0 ELSE @]

\* Unlike a packet of the open unit, it may prove the start of the unit.
RepairedAu(au, p) ==
    [Absorb(au, p) EXCEPT !.marker = @ \/ p.marker, !.start = @ \/ p.start,
                          !.age = IF p.marker THEN 0 ELSE @]

FillParked(a, p) ==
    LET au == RepairedAu(a.parked.au, p)
    IN  IF Whole(au) THEN ReleaseParked(a, au)
                     ELSE [a EXCEPT !.parked.au = au]

-----------------------------------------------------------------------------
(* The open unit.                                                           *)

\* A variant that forgets the timestamps already resolved.
TooLateForOpenUnit(a, p) == a.cur # None /\ p.ts # a.cur.ts /\ ~IsNewer(p.ts, a.cur.ts)

\* Rule 4, and the packet older than the unit in flight.
TooLate(a, p) ==
    \/ a.lastTs # None /\ ~IsNewer(p.ts, a.lastTs)
    \/ a.cur # None /\ p.ts # a.cur.ts /\ ~IsNewer(p.ts, a.cur.ts)

\* A unit that lost its tail, marker included, seen when the next one starts.
MarkerlessTail(au) == ~au.marker /\ Holed(au)

GraceEligible(au) == au.marker /\ au.reported /\ Holed(au)

\* A newer timestamp ends the open unit: it is parked or resolved.
ForceOut(a) ==
    LET au   == a.cur
        tail == MarkerlessTail(au)
    IN  IF SlotFree(a) /\ (GraceEligible(au) \/ tail)
        THEN Park([a EXCEPT !.nacks = IF tail THEN @ \cup MissingRanges(au.seqs) ELSE @],
                  [au EXCEPT !.reported = @ \/ tail],
                  FirstSeq(au.seqs))
        ELSE CloseAu(a)

Collect(a, p) ==
    CASE a.cur = None ->
             [a EXCEPT !.prevClose = a.lastClosed, !.lastClosed = p.seq, !.cur = NewAu(p)]
      [] a.cur # None /\ p.seq \notin a.cur.seqs ->
             [a EXCEPT !.cur = Absorb(@, p)]
      [] OTHER -> a

\* A variant that reports the holes on every packet after the marker.
SeeMarkerAgain(a, p) ==
    LET au  == [a.cur EXCEPT !.marker = @ \/ p.marker, !.age = IF p.marker THEN 0 ELSE @]
        ask == au.marker /\ Holed(au)
    IN  [a EXCEPT !.cur = [au EXCEPT !.reported = @ \/ ask],
                  !.nacks = IF ask THEN @ \cup MissingRanges(au.seqs) ELSE @]

\* The marker starts the fill window, and the holes it reveals are asked for
\* once.
SeeMarker(a, p) ==
    IF ~p.marker THEN a
    ELSE LET au  == [a.cur EXCEPT !.marker = TRUE, !.age = 0]
             ask == Holed(au) /\ ~au.reported
         IN  [a EXCEPT !.cur = [au EXCEPT !.reported = @ \/ ask],
                       !.nacks = IF ask THEN @ \cup MissingRanges(au.seqs) ELSE @]

\* How many sequence numbers lie between the previous unit and this one.
Lead(a) == WSub(FirstSeq(a.cur.seqs), WAdd(a.prevClose, 1))

LeadingLoss(a) ==
    /\ SlotFree(a)
    /\ Lead(a) \in 1 .. MaxLead
    /\ ~a.cur.start
    /\ ~a.cur.reported

\* A variant whose range includes the first packet held.
ParkLeadingLossInclusive(a) ==
    LET expect == WAdd(a.prevClose, 1)
    IN  Park([a EXCEPT !.nacks = @ \cup {<<expect, FirstSeq(a.cur.seqs)>>}],
             [a.cur EXCEPT !.reported = TRUE],
             expect)

ParkLeadingLoss(a) ==
    LET expect == WAdd(a.prevClose, 1)
    IN  Park([a EXCEPT !.nacks = @ \cup {<<expect, WSub(FirstSeq(a.cur.seqs), 1)>>}],
             [a.cur EXCEPT !.reported = TRUE],
             expect)

\* What the packet just collected makes of the open unit.
Settle(a, p) ==
    CASE Whole(a.cur) /\ p.marker /\ LeadingLoss(a) -> Silent(ParkLeadingLoss(a))
      [] Whole(a.cur) /\ ~(p.marker /\ LeadingLoss(a)) -> PollOutcome(CloseAu(a))
      [] ~Whole(a.cur) /\ a.cur.size > MaxAuSize ->
             [asm |-> [a EXCEPT !.cur = None], out |-> <<Outcome(a.cur, "Discarded")>>]
      [] OTHER -> PollOutcome(a)

-----------------------------------------------------------------------------
(* The methods the receiver calls.                                          *)

PushPacket(before, p) ==
    LET a == ExpireIfDue(before)
    IN  CASE FillsParked(a, p) -> PollOutcome(FillParked(a, p))
          [] ~FillsParked(a, p) /\ TooLate(a, p) -> Silent(a)
          [] OTHER ->
                 LET b == IF a.cur # None /\ a.cur.ts # p.ts THEN ForceOut(a) ELSE a
                 IN  Settle(SeeMarker(Collect(b, p), p), p)

\* A variant that leaves the parked unit to the next packet.
FlushDueKeepingParked(a) ==
    LET due == a.cur # None /\ a.cur.marker /\ a.cur.age > FillWindow
    IN  CASE ~due -> Silent(a)
          [] due /\ GraceEligible(a.cur) /\ SlotFree(a) ->
                 Silent(Park(a, a.cur, FirstSeq(a.cur.seqs)))
          [] OTHER -> PollOutcome(CloseAu(a))

FlushDue(before) ==
    LET a   == ExpireIfDue(before)
        due == a.cur # None /\ a.cur.marker /\ a.cur.age > FillWindow
    IN  CASE ~due -> Silent(a)
          [] due /\ GraceEligible(a.cur) /\ SlotFree(a) ->
                 Silent(Park(a, a.cur, FirstSeq(a.cur.seqs)))
          [] OTHER -> PollOutcome(CloseAu(a))

TakeNackRanges(a) == [asm |-> [a EXCEPT !.nacks = {}], ranges |-> a.nacks]

\* One tick of the clock the deadlines are measured on.
Older(au) == [au EXCEPT !.age = IF au.marker /\ @ <= FillWindow THEN @ + 1 ELSE @]

CountDown(parked) == [parked EXCEPT !.left = IF @ > 0 THEN @ - 1 ELSE 0]

AssemblerTick(a) ==
    [a EXCEPT !.cur = IF a.cur = None THEN None ELSE Older(a.cur),
              !.parked = IF a.parked = None THEN None ELSE CountDown(a.parked)]
=============================================================================
