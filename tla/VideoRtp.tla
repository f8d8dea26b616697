------------------------------ MODULE VideoRtp ------------------------------
(***************************************************************************)
(* The video receiver: VideoRtp (src/api/streaming/rtc/rtp.rs) on top of    *)
(* the assembler, between a network that loses packets and repeats those a  *)
(* NACK names, and the queue of the decode worker.                          *)
(*                                                                          *)
(* receive, receive_rtx and flush_expired run to completion on the pump     *)
(* thread.  A call first works on the assembler, then hands its outcomes to *)
(* dispatch_new_authority one after the other; between two of them only the *)
(* decode thread moves, taking an access unit out of the queue (it drops    *)
(* one whose generation is over).                                           *)
(***************************************************************************)
EXTENDS AccessUnits, SequencesExt

CONSTANTS
    Stream,         \* the packets in the order they are sent
    Resolution,     \* what the SPS of a frame says, by timestamp
    Policies,       \* what DAMAGE_POLICY may be: "LowLatency", "Balanced", "Quality"
    DamageLimit,    \* damage_limit at the frame rate of the stream
    PendingLimit,   \* access units the scheduler admits
    MaxPendingNacks, MaxPerNack,
    MaxQueue,       \* bound: outcomes behind a parked unit
    MaxErrors       \* bound: decoder failures

ASSUME ReceiverAssumption ==
    /\ Stream \in Seq(Packets)
    /\ Resolution \in [Ts -> {"none", "fits", "large"}]
    /\ Policies \subseteq {"LowLatency", "Balanced", "Quality"}
    /\ DamageLimit \in 1 .. 8 /\ PendingLimit \in 1 .. 8

VARIABLES
    policy,         \* DAMAGE_POLICY, set when the stream starts
    asm,            \* shadow: the assembler
    rtp,            \* the other fields of VideoRtp
    turn,           \* the call running: outcomes to dispatch, frame_was_damaged
    keyframeWanted, \* keyframe_requested of the pump turn
    nacks,          \* pending_nacks, oldest first
    decoder,        \* access units queued for decoding, and the generation
    sent, requested, \* the network: packets sent, sequence numbers NACKed
    errors,         \* decoder failures so far
    seen            \* history, see Witness

receiverVars == <<policy, rtp, keyframeWanted, decoder, seen>>
vars == <<policy, asm, rtp, turn, keyframeWanted, nacks, decoder, sent, requested, errors, seen>>

Init ==
    /\ policy \in Policies
    /\ asm = NewAssembler(TRUE)
    /\ rtp = [waiting |-> FALSE, tooLarge |-> FALSE, score |-> 0]
    /\ turn = [todo |-> <<>>, damaged |-> FALSE]
    /\ keyframeWanted = FALSE
    /\ nacks = <<>>
    /\ decoder = [queue |-> <<>>, generation |-> 0]
    /\ sent = 0
    /\ requested = {}
    /\ errors = 0
    /\ seen = [broken |-> FALSE, artefact |-> FALSE]

-----------------------------------------------------------------------------
(* One outcome (dispatch_new_authority).  The state it works on is r, the   *)
(* receiver during the call: `damaged` is the flag frame_was_damaged.       *)

Resync(r) == [r EXCEPT !.generation = @ + 1]

WaitForIdr(r) == [r EXCEPT !.waiting = TRUE]

AskKeyframe(r) == [r EXCEPT !.wanted = TRUE]

\* record_damage: too much of it ends in a resync.
RecordDamage(r) ==
    CASE r.waiting                         -> r
      [] ~r.waiting /\ r.score + 1 < DamageLimit -> [r EXCEPT !.score = @ + 1]
      [] OTHER                             -> [WaitForIdr(Resync(r)) EXCEPT !.score = 0]

Severe(o) == ~o.start \/ Cardinality(Missing(o.seqs)) > 1

\* A variant in which every policy tolerates light damage.
ShedsSevere(o) == policy \in {"Quality", "Balanced"} /\ Severe(o)

Sheds(o) == policy = "Quality" \/ (policy = "Balanced" /\ Severe(o))

\* submit_access_unit: refused when the queue is at its limit.
Submit(r, o) ==
    IF Len(r.queue) < PendingLimit
    THEN [r EXCEPT !.queue = Append(@, [ts |-> o.ts, generation |-> r.generation])]
    ELSE AskKeyframe(r)

\* A variant that refuses a large frame without waiting for an IDR.
FinishWithoutWait(r, o) ==
    LET size == Resolution[o.ts]
        fits == ~r.tooLarge \/ (size = "fits" /\ o.idr)
    IN  CASE size = "large" ->
                 [AskKeyframe(IF r.waiting THEN r ELSE Resync(r)) EXCEPT !.tooLarge = TRUE]
          [] size # "large" /\ ~fits -> WaitForIdr(AskKeyframe(r))
          [] size # "large" /\ fits /\ r.waiting /\ ~o.idr -> AskKeyframe(r)
          [] OTHER ->
                 Submit([r EXCEPT !.waiting = FALSE, !.tooLarge = FALSE,
                                  !.score = IF r.waiting THEN 0
                                            ELSE IF r.damaged \/ @ = 0 THEN @ ELSE @ - 1],
                        o)

\* finish_au from its size gates on.
Finish(r, o) ==
    LET size == Resolution[o.ts]
        fits == ~r.tooLarge \/ (size = "fits" /\ o.idr)
    IN  CASE size = "large" ->
                 [WaitForIdr(AskKeyframe(IF r.waiting THEN r ELSE Resync(r)))
                     EXCEPT !.tooLarge = TRUE]
          [] size # "large" /\ ~fits -> WaitForIdr(AskKeyframe(r))
          [] size # "large" /\ fits /\ r.waiting /\ ~o.idr -> AskKeyframe(r)
          [] OTHER ->
                 Submit([r EXCEPT !.waiting = FALSE, !.tooLarge = FALSE,
                                  !.score = IF r.waiting THEN 0
                                            ELSE IF r.damaged \/ @ = 0 THEN @ ELSE @ - 1],
                        o)

\* A variant that waits without ending the generation.
AbandonWithoutResync(r, o) ==
    LET d == [RecordDamage(AskKeyframe(r)) EXCEPT !.damaged = TRUE]
    IN  IF Sheds(o) /\ ~d.waiting THEN WaitForIdr(d) ELSE d

\* A variant that leaves the demand to the next frame.
AbandonSilently(r, o) ==
    LET d == [RecordDamage(r) EXCEPT !.damaged = TRUE]
    IN  IF Sheds(o) /\ ~d.waiting THEN WaitForIdr(Resync(d)) ELSE d

Abandon(r, o) ==
    LET d == [RecordDamage(AskKeyframe(r)) EXCEPT !.damaged = TRUE]
    IN  IF Sheds(o) /\ ~d.waiting THEN WaitForIdr(Resync(d)) ELSE d

\* A discarded unit is not a damaged frame.
Invalid(r) == RecordDamage(AskKeyframe(r))

Handle(r, o) ==
    CASE o.kind = "Complete"  -> Finish(r, o)
      [] o.kind = "Damaged"   -> Abandon(r, o)
      [] o.kind = "Discarded" -> Invalid(r)

\* History: whether a frame that is no IDR was queued after a damaged one with no
\* IDR queued in between.
Witness(h, before, after, o) ==
    LET queued == Len(after.queue) > Len(before.queue)
    IN  [broken   |-> IF queued /\ o.idr THEN FALSE ELSE h.broken \/ o.kind = "Damaged",
         artefact |-> h.artefact \/ (queued /\ ~o.idr /\ h.broken)]

\* The receiver as the code above sees it.
Receiver ==
    [waiting |-> rtp.waiting, tooLarge |-> rtp.tooLarge, score |-> rtp.score,
     wanted |-> keyframeWanted, damaged |-> turn.damaged,
     queue |-> decoder.queue, generation |-> decoder.generation]

Dispatch ==
    LET o == Head(turn.todo)
        r == Handle(Receiver, o)
    IN  /\ turn.todo # <<>>
        /\ turn' = [todo |-> Tail(turn.todo), damaged |-> r.damaged]
        /\ rtp' = [waiting |-> r.waiting, tooLarge |-> r.tooLarge, score |-> r.score]
        /\ keyframeWanted' = r.wanted
        /\ decoder' = [queue |-> r.queue, generation |-> r.generation]
        /\ seen' = Witness(seen, Receiver, r, o)
        /\ UNCHANGED <<policy, asm, nacks, sent, requested, errors>>

\* No call is running.
Idle == turn.todo = <<>>

Returned(outcomes) == turn' = [todo |-> outcomes, damaged |-> FALSE]

-----------------------------------------------------------------------------
(* NACKs.                                                                   *)

RangeLength(range) == WSub(range[2], range[1]) + 1

Total(ranges) == FoldLeft(LAMBDA n, range : n + RangeLength(range), 0, ranges)

\* The ranges of one unit, lowest first.
InOrderOf(ranges) ==
    LET starts == {range[1] : range \in ranges}
    IN  SetToSortSeq(ranges, LAMBDA x, y : WSub(x[1], FirstSeq(starts)) < WSub(y[1], FirstSeq(starts)))

\* queue_nacks: the oldest ranges go when there are too many numbers.
WithinBudget(ranges) ==
    LET fits == {k \in 1 .. Len(ranges) + 1 :
                    Total(SubSeq(ranges, k, Len(ranges))) <= MaxPendingNacks}
        from == CHOOSE k \in fits : \A j \in fits : k <= j
    IN  SubSeq(ranges, from, Len(ranges))

QueueNacks(ranges) == WithinBudget(nacks \o InOrderOf(ranges))

-----------------------------------------------------------------------------
(* The calls of the pump thread.                                            *)

\* `while let Some(outcome) = poll_outcome()`.
DrainAll(a) ==
    IF a.parked = None THEN [asm |-> [a EXCEPT !.queue = <<>>], out |-> a.queue]
                       ELSE Silent(a)

\* The authority block of receive and receive_rtx: what push returned is
\* dispatched after what it left in the queue.
AuthorityBlock(p) ==
    LET pushed  == PushPacket(asm, p)
        polled  == DrainAll(pushed.asm)
        flushed == FlushDue(polled.asm)
        rest    == DrainAll(flushed.asm)
        taken   == TakeNackRanges(rest.asm)
    IN  /\ Idle
        /\ Returned(polled.out \o pushed.out \o flushed.out \o rest.out)
        /\ asm' = taken.asm
        /\ nacks' = QueueNacks(taken.ranges)
        /\ UNCHANGED receiverVars

Receive ==
    /\ sent + 1 \in DOMAIN Stream
    /\ Len(asm.queue) < MaxQueue
    /\ sent' = sent + 1
    /\ AuthorityBlock(Stream[sent + 1])
    /\ UNCHANGED <<requested, errors>>

ReceiveRtx(i) ==
    /\ i <= sent /\ Stream[i].seq \in requested
    /\ Len(asm.queue) < MaxQueue
    /\ requested' = requested \ {Stream[i].seq}
    /\ AuthorityBlock(Stream[i])
    /\ UNCHANGED <<sent, errors>>

FlushExpired ==
    LET flushed == FlushDue(asm)
        rest    == DrainAll(flushed.asm)
    IN  /\ Idle
        /\ asm' = rest.asm
        /\ Returned(flushed.out \o rest.out)
        /\ UNCHANGED receiverVars
        /\ UNCHANGED <<nacks, sent, requested, errors>>

\* drain_decoder found a decode error: reset the decoder, wait for an IDR.
DecodeFailed ==
    /\ Idle
    /\ errors < MaxErrors
    /\ errors' = errors + 1
    /\ rtp' = [rtp EXCEPT !.waiting = TRUE]
    /\ keyframeWanted' = TRUE
    /\ decoder' = [decoder EXCEPT !.generation = @ + 1]
    /\ UNCHANGED <<policy, turn, asm, nacks, sent, requested, seen>>

\* The end of the turn hands the demand to request_keyframe (KeyframeGovernor).
TurnEnds ==
    /\ Idle
    /\ keyframeWanted
    /\ keyframeWanted' = FALSE
    /\ UNCHANGED <<policy, turn, asm, rtp, nacks, decoder, sent, requested, errors, seen>>

\* send_nack takes all the ranges; at most MaxPerNack numbers fit its packet.
SendNack ==
    /\ Idle
    /\ nacks # <<>>
    /\ nacks' = <<>>
    /\ requested' =
         LET all == FoldLeft(LAMBDA s, range : s \o [k \in 1 .. RangeLength(range) |-> WAdd(range[1], k - 1)],
                             <<>>, nacks)
         IN  requested \cup {all[k] : k \in DOMAIN all \cap 1 .. MaxPerNack}
    /\ UNCHANGED <<policy, turn, asm, decoder, rtp, keyframeWanted, sent, errors, seen>>

-----------------------------------------------------------------------------
(* The network, the decode thread and the clock.  Losses and time are not   *)
(* seen during a call.                                                      *)

LosePacket ==
    /\ Idle
    /\ sent + 1 \in DOMAIN Stream
    /\ sent' = sent + 1
    /\ UNCHANGED <<policy, turn, asm, rtp, keyframeWanted, nacks, decoder, requested, errors, seen>>

Decode ==
    /\ decoder.queue # <<>>
    /\ decoder' = [decoder EXCEPT !.queue = Tail(@)]
    /\ UNCHANGED <<policy, turn, asm, rtp, keyframeWanted, nacks, sent, requested, errors, seen>>

Tick ==
    /\ Idle
    /\ asm # AssemblerTick(asm)
    /\ asm' = AssemblerTick(asm)
    /\ UNCHANGED <<policy, turn, rtp, keyframeWanted, nacks, decoder, sent, requested, errors, seen>>

Next ==
    \/ Receive
    \/ Dispatch
    \/ \E i \in DOMAIN Stream : ReceiveRtx(i)
    \/ FlushExpired
    \/ DecodeFailed
    \/ TurnEnds
    \/ SendNack
    \/ LosePacket
    \/ Decode
    \/ Tick

Spec == Init /\ [][Next]_vars

-----------------------------------------------------------------------------
QueuedUnit == [ts : Ts, generation : Nat]

\* The fields keep their types and the damage score stays below its limit.
TypeOK ==
    /\ asm \in AssemblerType
    /\ rtp \in [waiting : BOOLEAN, tooLarge : BOOLEAN, score : 0 .. DamageLimit - 1]
    /\ turn \in [todo : Seq(OutcomeType), damaged : BOOLEAN]
    /\ keyframeWanted \in BOOLEAN
    /\ decoder \in [queue : Seq(QueuedUnit), generation : Nat]

\* While the receiver waits for an IDR nothing queued will be decoded: every
\* path that starts waiting ends the generation (finish_au, record_damage, the
\* damage policy, drain_decoder), and waiting lets nothing in.
WaitingIsFlushed ==
    rtp.waiting =>
        \A i \in DOMAIN decoder.queue : decoder.queue[i].generation < decoder.generation

\* A stream too large for the decoder is never fed to it: the size gate holds
\* until an IDR that fits.
TooLargeIsWaiting ==
    /\ rtp.tooLarge => rtp.waiting
    /\ \A i \in DOMAIN decoder.queue : Resolution[decoder.queue[i].ts] # "large"

\* A frame goes no further, or the receiver starts to hold frames back.
HoldsBack ==
    \/ Dispatch /\ decoder'.queue = decoder.queue
    \/ rtp'.waiting /\ ~rtp.waiting

\* No frame is dropped in silence: whatever dispatch_new_authority does with an
\* outcome, it queues a unit or leaves the turn asking for a keyframe; and the
\* receiver never starts to hold frames back without asking.
DropsAskForKeyframe == [][HoldsBack => keyframeWanted']_vars

\* The Quality policy promises a picture free of artefacts: no frame that
\* refers to a damaged one is queued before the next IDR.
ArtefactFree == policy = "Quality" => ~seen.artefact
=============================================================================
