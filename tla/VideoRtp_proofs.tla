--------------------------- MODULE VideoRtp_proofs ---------------------------
(***************************************************************************)
(* What the receiver promises the decoder, for every stream, policy, damage *)
(* limit and queue length: nothing queued survives while it waits for an    *)
(* IDR, and nothing too large is ever queued.  The argument follows the     *)
(* receiver through one outcome (Handle), on a single record; the calls of  *)
(* the pump only add outcomes, and the decode thread only removes units.    *)
(***************************************************************************)
EXTENDS VideoRtp, AccessUnits_proofs

ReceiverType ==
    [waiting : BOOLEAN, tooLarge : BOOLEAN, score : 0 .. DamageLimit - 1,
     wanted : BOOLEAN, damaged : BOOLEAN, queue : Seq(QueuedUnit), generation : Nat]

\* No unit is of a generation to come, and none is too large.
Sound(r) ==
    \A i \in DOMAIN r.queue :
        /\ r.queue[i].generation <= r.generation
        /\ Resolution[r.queue[i].ts] # "large"

Flushed(r) == \A i \in DOMAIN r.queue : r.queue[i].generation < r.generation

\* The inductive invariant, on the receiver as one record.
Good(r) ==
    /\ r \in ReceiverType
    /\ Sound(r)
    /\ r.waiting => Flushed(r)
    /\ r.tooLarge => r.waiting

-----------------------------------------------------------------------------
(* The pieces of the handlers.                                              *)

LEMMA ResyncGood ==
  ASSUME NEW r, Good(r)
  PROVE  /\ Good(Resync(r)) /\ Flushed(Resync(r))
         /\ Resync(r).waiting = r.waiting /\ Resync(r).wanted = r.wanted
<1>1. /\ r \in ReceiverType /\ r.generation \in Nat
      /\ \A i \in DOMAIN r.queue : r.queue[i].generation \in Nat
  <2>1. r \in ReceiverType /\ r.generation \in Nat /\ r.queue \in Seq(QueuedUnit)
    BY DEF Good, ReceiverType
  <2>2. \A i \in DOMAIN r.queue : r.queue[i] \in QueuedUnit
    BY <2>1
  <2> QED BY <2>1, <2>2 DEF QueuedUnit
<1>2. /\ Resync(r) \in ReceiverType
      /\ Resync(r).queue = r.queue /\ Resync(r).generation = r.generation + 1
      /\ Resync(r).waiting = r.waiting /\ Resync(r).wanted = r.wanted
      /\ Resync(r).tooLarge = r.tooLarge
  BY <1>1 DEF Resync, ReceiverType
<1>3. Flushed(Resync(r)) /\ Sound(Resync(r))
  BY <1>1, <1>2 DEF Good, Sound, Flushed
<1> QED BY <1>2, <1>3 DEF Good

LEMMA WaitForIdrGood ==
  ASSUME NEW r, Good(r), Flushed(r)
  PROVE  /\ Good(WaitForIdr(r)) /\ Flushed(WaitForIdr(r))
         /\ WaitForIdr(r).waiting /\ WaitForIdr(r).wanted = r.wanted
<1>1. /\ WaitForIdr(r) \in ReceiverType
      /\ WaitForIdr(r).queue = r.queue /\ WaitForIdr(r).generation = r.generation
      /\ WaitForIdr(r).waiting /\ WaitForIdr(r).wanted = r.wanted
  BY DEF Good, WaitForIdr, ReceiverType
<1> QED BY <1>1 DEF Good, Sound, Flushed

LEMMA AskKeyframeGood ==
  ASSUME NEW r, Good(r)
  PROVE  /\ Good(AskKeyframe(r)) /\ AskKeyframe(r).wanted
         /\ AskKeyframe(r).waiting = r.waiting
         /\ Flushed(r) => Flushed(AskKeyframe(r))
<1>1. /\ AskKeyframe(r) \in ReceiverType
      /\ AskKeyframe(r).queue = r.queue /\ AskKeyframe(r).generation = r.generation
      /\ AskKeyframe(r).wanted /\ AskKeyframe(r).waiting = r.waiting
      /\ AskKeyframe(r).tooLarge = r.tooLarge
  BY DEF Good, AskKeyframe, ReceiverType
<1> QED BY <1>1 DEF Good, Sound, Flushed

\* Only the counters and the flag of the call differ.
LEMMA CountersGood ==
  ASSUME NEW r, Good(r), NEW s \in ReceiverType,
         s.queue = r.queue, s.generation = r.generation,
         s.waiting = r.waiting, s.tooLarge = r.tooLarge
  PROVE  Good(s) /\ (Flushed(r) => Flushed(s))
BY DEF Good, Sound, Flushed

LEMMA RecordDamageGood ==
  ASSUME NEW r, Good(r)
  PROVE  /\ Good(RecordDamage(r))
         /\ RecordDamage(r).wanted = r.wanted
<1>1. CASE r.waiting
  BY <1>1 DEF RecordDamage
<1>2. CASE ~r.waiting /\ r.score + 1 < DamageLimit
  <2>1. RecordDamage(r) = [r EXCEPT !.score = r.score + 1]
    BY <1>2 DEF RecordDamage
  <2>2. [r EXCEPT !.score = r.score + 1] \in ReceiverType
    BY <1>2, ReceiverAssumption DEF Good, ReceiverType
  <2>3. r \in ReceiverType
    BY DEF Good
  <2> DEFINE s == [r EXCEPT !.score = r.score + 1]
  <2>4. /\ s.queue = r.queue /\ s.generation = r.generation /\ s.wanted = r.wanted
        /\ s.waiting = r.waiting /\ s.tooLarge = r.tooLarge
    BY <2>3 DEF ReceiverType
  <2> HIDE DEF s
  <2> QED BY <2>1, <2>2, <2>4, CountersGood DEF s
<1>3. CASE ~r.waiting /\ ~(r.score + 1 < DamageLimit)
  <2> DEFINE w == WaitForIdr(Resync(r))
             s == [w EXCEPT !.score = 0]
  <2>1. RecordDamage(r) = s
    BY <1>3 DEF RecordDamage
  <2>2. Good(w) /\ w.wanted = r.wanted
    BY ResyncGood, WaitForIdrGood
  <2> HIDE DEF w
  <2>3. w \in ReceiverType
    BY <2>2 DEF Good
  <2>4. 0 \in 0 .. DamageLimit - 1
    BY ReceiverAssumption
  <2>5. /\ s \in ReceiverType
        /\ s.queue = w.queue /\ s.generation = w.generation /\ s.wanted = w.wanted
        /\ s.waiting = w.waiting /\ s.tooLarge = w.tooLarge
    BY <2>3, <2>4 DEF ReceiverType
  <2> HIDE DEF s
  <2> QED BY <2>1, <2>2, <2>5, CountersGood
<1> QED BY <1>1, <1>2, <1>3

LEMMA SubmitGood ==
  ASSUME NEW r, Good(r), ~r.waiting, ~r.tooLarge,
         NEW o \in OutcomeType, Resolution[o.ts] # "large"
  PROVE  /\ Good(Submit(r, o)) /\ ~Submit(r, o).waiting
         /\ Submit(r, o).queue = r.queue => Submit(r, o).wanted
<1>1. CASE Len(r.queue) < PendingLimit
  <2> DEFINE u == [ts |-> o.ts, generation |-> r.generation]
             q == Append(r.queue, u)
  <2>1. r.queue \in Seq(QueuedUnit) /\ r.generation \in Nat /\ r \in ReceiverType
    BY DEF Good, ReceiverType
  <2>2. u \in QueuedUnit /\ u.ts = o.ts /\ u.generation = r.generation
    BY <2>1 DEF QueuedUnit, OutcomeType
  <2> HIDE DEF u
  <2>3. q \in Seq(QueuedUnit) /\ \A i \in DOMAIN q : q[i] = u \/ \E j \in DOMAIN r.queue : q[i] = r.queue[j]
    BY <2>1, <2>2
  <2>a. q # r.queue
    <3>1. Len(q) = Len(r.queue) + 1 /\ Len(r.queue) \in Nat
      BY <2>1, <2>2
    <3> QED BY <3>1
  <2> HIDE DEF q
  <2>4. Submit(r, o) = [r EXCEPT !.queue = q]
    BY <1>1 DEF Submit, q, u
  <2>5. /\ Submit(r, o) \in ReceiverType
        /\ Submit(r, o).queue = q /\ Submit(r, o).generation = r.generation
        /\ Submit(r, o).waiting = r.waiting /\ Submit(r, o).tooLarge = r.tooLarge
    BY <2>1, <2>3, <2>4 DEF ReceiverType
  <2>6. Sound(Submit(r, o))
    BY <2>1, <2>2, <2>3, <2>5 DEF Good, Sound
  <2> QED BY <2>a, <2>5, <2>6 DEF Good
<1>2. CASE ~(Len(r.queue) < PendingLimit)
  BY <1>2, AskKeyframeGood DEF Submit
<1> QED BY <1>1, <1>2

-----------------------------------------------------------------------------
(* The handlers of one outcome.                                             *)

\* Waiting never starts, and no unit is left out, without a demand for a
\* keyframe.
Asks(r, s) == (s.waiting /\ ~r.waiting) \/ s.queue = r.queue => s.wanted

LEMMA FinishGood ==
  ASSUME NEW r, Good(r), NEW o \in OutcomeType
  PROVE  Good(Finish(r, o)) /\ Asks(r, Finish(r, o))
<1> DEFINE size == Resolution[o.ts]
           fits == ~r.tooLarge \/ (size = "fits" /\ o.idr)
<1>0. r \in ReceiverType
  BY DEF Good
<1>1. CASE size = "large"
  <2> DEFINE b == IF r.waiting THEN r ELSE Resync(r)
             w == WaitForIdr(AskKeyframe(b))
  <2>1. Finish(r, o) = [w EXCEPT !.tooLarge = TRUE]
    BY <1>1 DEF Finish
  <2>2. Good(b) /\ Flushed(b)
    BY ResyncGood DEF Good
  <2> HIDE DEF b
  <2>3. Good(w) /\ w.waiting /\ w.wanted
    BY <2>2, AskKeyframeGood, WaitForIdrGood
  <2> HIDE DEF w
  <2>4. /\ Finish(r, o) \in ReceiverType
        /\ Finish(r, o).queue = w.queue /\ Finish(r, o).generation = w.generation
        /\ Finish(r, o).waiting = w.waiting /\ Finish(r, o).wanted = w.wanted
    BY <2>1, <2>3 DEF Good, ReceiverType
  <2> QED BY <2>3, <2>4 DEF Good, Sound, Flushed, Asks
<1>2. CASE size # "large" /\ ~fits
  <2>1. r.waiting /\ Flushed(r)
    BY <1>2 DEF Good
  <2>2. Finish(r, o) = WaitForIdr(AskKeyframe(r))
    BY <1>2 DEF Finish
  <2> QED BY <2>1, <2>2, AskKeyframeGood, WaitForIdrGood DEF Asks
<1>3. CASE size # "large" /\ fits /\ r.waiting /\ ~o.idr
  <2>1. Finish(r, o) = AskKeyframe(r)
    BY <1>3 DEF Finish
  <2> QED BY <2>1, AskKeyframeGood DEF Asks
<1>4. CASE size # "large" /\ fits /\ ~(r.waiting /\ ~o.idr)
  <2> DEFINE n == IF r.waiting THEN 0 ELSE IF r.damaged \/ r.score = 0 THEN r.score ELSE r.score - 1
             s == [r EXCEPT !.waiting = FALSE, !.tooLarge = FALSE, !.score = n]
  <2>1. Finish(r, o) = Submit(s, o)
    BY <1>4 DEF Finish
  <2>2. n \in 0 .. DamageLimit - 1
    BY <1>0, ReceiverAssumption DEF ReceiverType
  <2> HIDE DEF n
  <2>3. /\ s \in ReceiverType /\ ~s.waiting /\ ~s.tooLarge
        /\ s.queue = r.queue /\ s.generation = r.generation
    BY <1>0, <2>2 DEF ReceiverType
  <2> HIDE DEF s
  <2>4. Good(s)
    BY <2>3 DEF Good, Sound
  <2> QED BY <1>4, <2>1, <2>3, <2>4, SubmitGood DEF Asks
<1> QED BY <1>1, <1>2, <1>3, <1>4

LEMMA AbandonGood ==
  ASSUME NEW r, Good(r), NEW o \in OutcomeType
  PROVE  Good(Abandon(r, o)) /\ Asks(r, Abandon(r, o))
<1> DEFINE b == RecordDamage(AskKeyframe(r))
           d == [b EXCEPT !.damaged = TRUE]
<1>1. Good(b) /\ b.wanted
  BY AskKeyframeGood, RecordDamageGood
<1> HIDE DEF b
<1>2. /\ d \in ReceiverType
      /\ d.queue = b.queue /\ d.generation = b.generation /\ d.wanted = b.wanted
      /\ d.waiting = b.waiting /\ d.tooLarge = b.tooLarge
  BY <1>1 DEF Good, ReceiverType
<1>3. Abandon(r, o) = IF Sheds(o) /\ ~d.waiting THEN WaitForIdr(Resync(d)) ELSE d
  BY DEF Abandon, b
<1> HIDE DEF d
<1>4. Good(d) /\ d.wanted
  BY <1>1, <1>2, CountersGood
<1>5. Good(WaitForIdr(Resync(d))) /\ WaitForIdr(Resync(d)).wanted
  BY <1>4, ResyncGood, WaitForIdrGood
<1> QED BY <1>3, <1>4, <1>5 DEF Asks

LEMMA HandleGood ==
  ASSUME NEW r, Good(r), NEW o \in OutcomeType
  PROVE  Good(Handle(r, o)) /\ Asks(r, Handle(r, o))
<1>1. CASE o.kind = "Complete"
  BY <1>1, FinishGood DEF Handle
<1>2. CASE o.kind = "Damaged"
  BY <1>2, AbandonGood DEF Handle
<1>3. CASE o.kind = "Discarded"
  <2>1. Good(Invalid(r)) /\ Invalid(r).wanted
    BY AskKeyframeGood, RecordDamageGood DEF Invalid
  <2> QED BY <1>3, <2>1 DEF Handle, Asks
<1> QED BY <1>1, <1>2, <1>3 DEF OutcomeType

-----------------------------------------------------------------------------
(* The specification.                                                       *)

Inv ==
    /\ TypeOK
    /\ Good(Receiver)

LEMMA InitInv == Init => Inv
<1> SUFFICES ASSUME Init PROVE Inv
  OBVIOUS
<1>1. asm \in AssemblerType
  <2>1. AssemblerOver(Au, OutcomeType, BOOLEAN) = AssemblerType
    BY DEF AssemblerOver, AssemblerType, Slot
  <2> QED BY <2>1, NewAssemblerOver DEF Init
<1>2. 0 \in 0 .. DamageLimit - 1
  BY ReceiverAssumption
<1>3. TypeOK
  <2>1. turn \in [todo : Seq(OutcomeType), damaged : BOOLEAN]
    BY DEF Init
  <2>2. decoder \in [queue : Seq(QueuedUnit), generation : Nat]
    BY DEF Init
  <2> QED BY <1>1, <1>2, <2>1, <2>2 DEF Init, TypeOK
<1>4. Receiver = [waiting |-> FALSE, tooLarge |-> FALSE, score |-> 0, wanted |-> FALSE,
                  damaged |-> FALSE, queue |-> <<>>, generation |-> 0]
  BY DEF Init, Receiver
<1>5. Receiver \in ReceiverType
  BY <1>2, <1>4 DEF ReceiverType
<1> QED BY <1>3, <1>4, <1>5 DEF Inv, Good, Sound, Flushed

LEMMA DrainAllType ==
  ASSUME NEW a \in AssemblerType
  PROVE  /\ DrainAll(a).asm \in AssemblerType
         /\ DrainAll(a).out \in Seq(OutcomeType)
<1>1. CASE a.parked = None
  <2>1. <<>> \in Seq(OutcomeType)
    OBVIOUS
  <2>2. a.queue \in Seq(OutcomeType)
    BY DEF AssemblerType
  <2>3. \A q \in Seq(OutcomeType) : [a EXCEPT !.queue = q] \in AssemblerType
    BY DEF AssemblerType
  <2> QED BY <1>1, <2>1, <2>2, <2>3 DEF DrainAll
<1>2. CASE a.parked # None
  BY <1>2 DEF DrainAll, Silent
<1> QED BY <1>1, <1>2

\* The calls on the assembler, with the types of AccessUnits.
LEMMA CallTypes ==
  ASSUME NEW a \in AssemblerType
  PROVE  /\ \A p \in Packets : /\ PushPacket(a, p).asm \in AssemblerType
                               /\ PushPacket(a, p).out \in Seq(OutcomeType)
         /\ FlushDue(a).asm \in AssemblerType
         /\ FlushDue(a).out \in Seq(OutcomeType)
         /\ TakeNackRanges(a).asm \in AssemblerType
         /\ AssemblerTick(a) \in AssemblerType
<1>1. AssemblerOver(Au, OutcomeType, BOOLEAN) = AssemblerType
  BY DEF AssemblerOver, AssemblerType, Slot
<1>2. Closed(Au, OutcomeType) /\ None \notin Au
  BY AuClosed, NoneAssumption
<1>3. \A c \in CallOver(Au, OutcomeType, BOOLEAN) : c.asm \in AssemblerType /\ c.out \in Seq(OutcomeType)
  <2>1. (\A o \in OutcomeType : <<o>> \in Seq(OutcomeType)) /\ <<>> \in Seq(OutcomeType)
    OBVIOUS
  <2>2. ({<<>>} \cup {<<o>> : o \in OutcomeType}) \subseteq Seq(OutcomeType)
    BY <2>1
  <2>3. \A c \in CallOver(Au, OutcomeType, BOOLEAN) :
           c.asm \in AssemblerOver(Au, OutcomeType, BOOLEAN) /\ c.out \in {<<>>} \cup {<<o>> : o \in OutcomeType}
    BY DEF CallOver
  <2> QED BY <1>1, <2>2, <2>3
<1>4. \A p \in Packets : PushPacket(a, p) \in CallOver(Au, OutcomeType, BOOLEAN)
  BY <1>1, <1>2, PushPacketOver
<1>5. FlushDue(a) \in CallOver(Au, OutcomeType, BOOLEAN)
  BY <1>1, <1>2, FlushDueOver
<1>6. TakeNackRanges(a).asm \in AssemblerType
  BY <1>1, TakeNackRangesOver
<1>7. AssemblerTick(a) \in AssemblerType
  BY <1>1, <1>2, AssemblerTickOver
<1> QED BY <1>3, <1>4, <1>5, <1>6, <1>7

\* A call that only adds outcomes to dispatch.
LEMMA CallInv ==
  ASSUME Inv, asm' \in AssemblerType, UNCHANGED receiverVars,
         NEW outcomes \in Seq(OutcomeType), Returned(outcomes)
  PROVE  Inv'
<1>1. TypeOK'
  BY DEF Inv, TypeOK, receiverVars, Returned
<1>2. /\ Receiver' \in ReceiverType
      /\ Receiver'.queue = Receiver.queue /\ Receiver'.generation = Receiver.generation
      /\ Receiver'.waiting = Receiver.waiting /\ Receiver'.tooLarge = Receiver.tooLarge
  BY <1>1 DEF TypeOK, Receiver, ReceiverType, receiverVars
<1>3. Good(Receiver)
  BY DEF Inv
<1>4. Good(Receiver')
  BY <1>2, <1>3 DEF Good, Sound, Flushed
<1> QED BY <1>1, <1>4 DEF Inv

LEMMA AuthorityBlockInv ==
  ASSUME Inv, NEW p \in Packets, AuthorityBlock(p)
  PROVE  Inv'
<1> DEFINE pushed  == PushPacket(asm, p)
           polled  == DrainAll(pushed.asm)
           flushed == FlushDue(polled.asm)
           rest    == DrainAll(flushed.asm)
           taken   == TakeNackRanges(rest.asm)
           all     == polled.out \o pushed.out \o flushed.out \o rest.out
<1>1. asm' = taken.asm /\ Returned(all) /\ UNCHANGED receiverVars
  BY DEF AuthorityBlock
<1>2. pushed.asm \in AssemblerType /\ pushed.out \in Seq(OutcomeType)
  BY CallTypes DEF Inv, TypeOK
<1> HIDE DEF pushed
<1>3. polled.asm \in AssemblerType /\ polled.out \in Seq(OutcomeType)
  BY <1>2, DrainAllType
<1> HIDE DEF polled
<1>4. flushed.asm \in AssemblerType /\ flushed.out \in Seq(OutcomeType)
  BY <1>3, CallTypes
<1> HIDE DEF flushed
<1>5. rest.asm \in AssemblerType /\ rest.out \in Seq(OutcomeType)
  BY <1>4, DrainAllType
<1> HIDE DEF rest
<1>6. taken.asm \in AssemblerType
  BY <1>5, CallTypes
<1>7. all \in Seq(OutcomeType)
  BY <1>2, <1>3, <1>4, <1>5
<1> HIDE DEF taken, all
<1> QED BY <1>1, <1>6, <1>7, CallInv

LEMMA FlushExpiredInv ==
  ASSUME Inv, FlushExpired
  PROVE  Inv'
<1> DEFINE flushed == FlushDue(asm)
           rest    == DrainAll(flushed.asm)
           all     == flushed.out \o rest.out
<1>1. asm' = rest.asm /\ Returned(all) /\ UNCHANGED receiverVars
  BY DEF FlushExpired
<1>2. flushed.asm \in AssemblerType /\ flushed.out \in Seq(OutcomeType)
  BY CallTypes DEF Inv, TypeOK
<1> HIDE DEF flushed
<1>3. rest.asm \in AssemblerType /\ rest.out \in Seq(OutcomeType)
  BY <1>2, DrainAllType
<1> HIDE DEF rest
<1>4. all \in Seq(OutcomeType)
  BY <1>2, <1>3
<1> HIDE DEF all
<1> QED BY <1>1, <1>3, <1>4, CallInv

\* One outcome, handled as HandleGood says.
LEMMA DispatchInv ==
  ASSUME Inv, Dispatch
  PROVE  Inv' /\ Asks(Receiver, Receiver')
<1> DEFINE o == Head(turn.todo)
           r == Handle(Receiver, o)
<1>1. o \in OutcomeType /\ Tail(turn.todo) \in Seq(OutcomeType)
  BY DEF Dispatch, Inv, TypeOK
<1>2. Good(r) /\ Asks(Receiver, r)
  BY <1>1, HandleGood DEF Inv
<1>3. /\ asm' = asm
      /\ turn' = [todo |-> Tail(turn.todo), damaged |-> r.damaged]
      /\ rtp' = [waiting |-> r.waiting, tooLarge |-> r.tooLarge, score |-> r.score]
      /\ keyframeWanted' = r.wanted
      /\ decoder' = [queue |-> r.queue, generation |-> r.generation]
  BY DEF Dispatch
<1> HIDE DEF r
<1>4. TypeOK'
  BY <1>1, <1>2, <1>3 DEF Good, ReceiverType, Inv, TypeOK
<1>5. Receiver' = r
  BY <1>2, <1>3 DEF Receiver, Good, ReceiverType
<1> QED BY <1>2, <1>4, <1>5 DEF Inv

LEMMA DecodeFailedInv ==
  ASSUME Inv, DecodeFailed
  PROVE  Inv'
<1>1. TypeOK'
  <2>1. decoder \in [queue : Seq(QueuedUnit), generation : Nat]
    BY DEF Inv, TypeOK
  <2>2. decoder' \in [queue : Seq(QueuedUnit), generation : Nat]
    BY <2>1 DEF DecodeFailed
  <2>3. rtp' \in [waiting : BOOLEAN, tooLarge : BOOLEAN, score : 0 .. DamageLimit - 1]
    BY DEF Inv, TypeOK, DecodeFailed
  <2> QED BY <2>2, <2>3 DEF Inv, TypeOK, DecodeFailed
<1>2. /\ decoder \in [queue : Seq(QueuedUnit), generation : Nat]
      /\ decoder'.queue = decoder.queue /\ decoder'.generation = decoder.generation + 1
      /\ rtp'.waiting
  BY DEF Inv, TypeOK, DecodeFailed
<1>3. Receiver' \in ReceiverType
  BY <1>1 DEF TypeOK, Receiver, ReceiverType
<1>4. /\ Receiver'.queue = decoder.queue /\ Receiver'.generation = decoder.generation + 1
      /\ Receiver'.waiting
      /\ Receiver.queue = decoder.queue /\ Receiver.generation = decoder.generation
  BY <1>2 DEF Receiver
<1>5. \A i \in DOMAIN decoder.queue : decoder.queue[i].generation \in Nat
  <2>1. \A i \in DOMAIN decoder.queue : decoder.queue[i] \in QueuedUnit
    BY <1>2
  <2> QED BY <2>1 DEF QueuedUnit
<1>6. decoder.generation \in Nat
  BY <1>2
<1>7. Good(Receiver)
  BY DEF Inv
<1>8. Good(Receiver')
  BY <1>3, <1>4, <1>5, <1>6, <1>7 DEF Good, Sound, Flushed
<1> QED BY <1>1, <1>8 DEF Inv

LEMMA DecodeInv ==
  ASSUME Inv, Decode
  PROVE  Inv'
<1>1. /\ decoder \in [queue : Seq(QueuedUnit), generation : Nat]
      /\ decoder.queue # <<>>
      /\ decoder'.queue = Tail(decoder.queue) /\ decoder'.generation = decoder.generation
      /\ UNCHANGED <<turn, asm, rtp, keyframeWanted>>
  BY DEF Inv, TypeOK, Decode
<1>2. TypeOK'
  <2>1. decoder' \in [queue : Seq(QueuedUnit), generation : Nat]
    <3>1. Tail(decoder.queue) \in Seq(QueuedUnit)
      BY <1>1
    <3>2. decoder' = [decoder EXCEPT !.queue = Tail(decoder.queue)]
      BY DEF Decode
    <3> QED BY <1>1, <3>1, <3>2
  <2> QED BY <1>1, <2>1 DEF Inv, TypeOK
<1>3. Receiver' \in ReceiverType
  BY <1>2 DEF TypeOK, Receiver, ReceiverType
<1>4. \A i \in DOMAIN Tail(decoder.queue) :
         \E j \in DOMAIN decoder.queue : Tail(decoder.queue)[i] = decoder.queue[j]
  BY <1>1
<1>5. /\ Receiver'.queue = Tail(decoder.queue) /\ Receiver.queue = decoder.queue
      /\ Receiver'.generation = Receiver.generation
      /\ Receiver'.waiting = Receiver.waiting /\ Receiver'.tooLarge = Receiver.tooLarge
  BY <1>1 DEF Receiver
<1>6. Good(Receiver)
  BY DEF Inv
<1>7. Good(Receiver')
  BY <1>3, <1>4, <1>5, <1>6 DEF Good, Sound, Flushed
<1> QED BY <1>2, <1>7 DEF Inv

\* Steps that touch neither the receiver's flags nor the queue.
LEMMA ElsewhereInv ==
  ASSUME Inv, asm' \in AssemblerType, keyframeWanted' \in BOOLEAN, UNCHANGED <<rtp, turn, decoder>>
  PROVE  Inv'
<1>1. TypeOK'
  BY DEF Inv, TypeOK
<1>2. /\ Receiver' \in ReceiverType
      /\ Receiver'.queue = Receiver.queue /\ Receiver'.generation = Receiver.generation
      /\ Receiver'.waiting = Receiver.waiting /\ Receiver'.tooLarge = Receiver.tooLarge
  BY <1>1 DEF TypeOK, Receiver, ReceiverType
<1>3. Good(Receiver)
  BY DEF Inv
<1> QED BY <1>1, <1>2, <1>3, CountersGood DEF Inv

LEMMA NextInv == Inv /\ [Next]_vars => Inv'
<1> SUFFICES ASSUME Inv, [Next]_vars PROVE Inv'
  OBVIOUS
<1>0. asm \in AssemblerType /\ keyframeWanted \in BOOLEAN
  BY DEF Inv, TypeOK
<1>p. \A i \in DOMAIN Stream : Stream[i] \in Packets
  BY ReceiverAssumption
<1>1. CASE Receive
  <2>1. sent + 1 \in DOMAIN Stream /\ AuthorityBlock(Stream[sent + 1])
    BY <1>1 DEF Receive
  <2> QED BY <2>1, <1>p, AuthorityBlockInv
<1>2. CASE Dispatch
  BY <1>2, DispatchInv
<1>3. ASSUME NEW i \in DOMAIN Stream, ReceiveRtx(i) PROVE Inv'
  BY <1>3, <1>p, AuthorityBlockInv DEF ReceiveRtx
<1>4. CASE FlushExpired
  BY <1>4, FlushExpiredInv
<1>5. CASE DecodeFailed
  BY <1>5, DecodeFailedInv
<1>6. CASE TurnEnds
  BY <1>0, <1>6, ElsewhereInv DEF TurnEnds
<1>7. CASE SendNack
  BY <1>0, <1>7, ElsewhereInv DEF SendNack
<1>8. CASE LosePacket
  BY <1>0, <1>8, ElsewhereInv DEF LosePacket
<1>9. CASE Decode
  BY <1>9, DecodeInv
<1>10. CASE Tick
  <2>1. asm' \in AssemblerType
    BY <1>0, <1>10, CallTypes DEF Tick
  <2> QED BY <1>0, <1>10, <2>1, ElsewhereInv DEF Tick
<1>11. CASE UNCHANGED vars
  BY <1>0, <1>11, ElsewhereInv DEF vars
<1> QED BY <1>1, <1>2, <1>3, <1>4, <1>5, <1>6, <1>7, <1>8, <1>9, <1>10, <1>11 DEF Next

\* The receiver's flags, its damage score and the decode queue are of their
\* types, and the assembler under it too.
THEOREM TypeCorrect == Spec => []TypeOK
<1>1. Inv => TypeOK
  BY DEF Inv
<1> QED BY <1>1, InitInv, NextInv, PTL DEF Spec

\* While the receiver waits for an IDR, nothing in the decode queue is of the
\* generation the decode thread still accepts.
THEOREM WaitingHoldsNothing == Spec => []WaitingIsFlushed
<1>1. Inv => WaitingIsFlushed
  BY DEF Inv, Good, Flushed, Receiver, WaitingIsFlushed
<1> QED BY <1>1, InitInv, NextInv, PTL DEF Spec

\* A stream beyond the decoder's size never reaches it, and is waited out.
THEOREM TooLargeHeldBack == Spec => []TooLargeIsWaiting
<1>1. Inv => TooLargeIsWaiting
  BY DEF Inv, Good, Sound, Receiver, TooLargeIsWaiting
<1> QED BY <1>1, InitInv, NextInv, PTL DEF Spec

\* No step drops a frame, or starts holding frames back, without demanding a
\* keyframe in the same step.
THEOREM NoSilentDrop == Spec => DropsAskForKeyframe
<1>1. Inv /\ [Next]_vars => [HoldsBack => keyframeWanted']_vars
  <2> SUFFICES ASSUME Inv, Next, HoldsBack
               PROVE  keyframeWanted'
    OBVIOUS
  <2>1. CASE Dispatch
    <3>1. Asks(Receiver, Receiver')
      BY <2>1, DispatchInv
    <3> QED BY <2>1, <3>1 DEF Asks, Receiver, HoldsBack
  <2>2. CASE DecodeFailed
    BY <2>2 DEF DecodeFailed
  <2>3. CASE ~Dispatch /\ UNCHANGED rtp
    BY <2>3 DEF HoldsBack
  <2>4. Dispatch \/ DecodeFailed \/ UNCHANGED rtp
    BY DEF Next, Receive, ReceiveRtx, AuthorityBlock, receiverVars, FlushExpired, TurnEnds, SendNack,
           LosePacket, Decode, Tick
  <2> QED BY <2>1, <2>2, <2>3, <2>4
<1> QED BY <1>1, InitInv, NextInv, PTL DEF Spec, DropsAskForKeyframe

-----------------------------------------------------------------------------
(* The Quality policy: a broken chain is waited out.                        *)

\* The demands and the resyncs of a handler leave the queue alone.
LEMMA PiecesKeepQueue ==
  ASSUME NEW r, Good(r)
  PROVE  /\ Resync(r).queue = r.queue /\ AskKeyframe(r).queue = r.queue
         /\ WaitForIdr(r).queue = r.queue
         /\ RecordDamage(r).queue = r.queue
         /\ r.waiting => RecordDamage(r).waiting
<1>1. r \in ReceiverType
  BY DEF Good
<1>2. \A s \in ReceiverType : /\ Resync(s).queue = s.queue /\ AskKeyframe(s).queue = s.queue
                              /\ WaitForIdr(s).queue = s.queue
  BY DEF ReceiverType, Resync, AskKeyframe, WaitForIdr
<1>3. RecordDamage(r).queue = r.queue
  <2>1. CASE r.waiting
    BY <2>1 DEF RecordDamage
  <2>2. CASE ~r.waiting /\ r.score + 1 < DamageLimit
    <3>1. RecordDamage(r) = [r EXCEPT !.score = @ + 1]
      BY <2>2 DEF RecordDamage
    <3> QED BY <1>1, <3>1 DEF ReceiverType
  <2>3. CASE ~r.waiting /\ ~(r.score + 1 < DamageLimit)
    <3> DEFINE w == WaitForIdr(Resync(r))
    <3>1. RecordDamage(r) = [w EXCEPT !.score = 0]
      BY <2>3 DEF RecordDamage
    <3>2. Good(Resync(r)) /\ Good(w)
      BY ResyncGood, WaitForIdrGood
    <3>3. w.queue = r.queue
      BY <1>1, <1>2, <3>2 DEF Good
    <3> HIDE DEF w
    <3> QED BY <3>1, <3>2, <3>3 DEF Good, ReceiverType
  <2> QED BY <2>1, <2>2, <2>3
<1>4. r.waiting => RecordDamage(r).waiting
  BY DEF RecordDamage
<1> QED BY <1>1, <1>2, <1>3, <1>4

\* Nothing of the chain is queued, and a broken chain is still waited out.
HeldBack(r, s) == s.queue = r.queue /\ (r.waiting => s.waiting)

\* One unit more, which ends the wait only if it is an IDR.
Queued(r, s, o) == Len(s.queue) = Len(r.queue) + 1 /\ (r.waiting => o.idr)

\* With room in the queue a whole frame is held back or queued.
LEMMA FinishWithRoom ==
  ASSUME NEW r, Good(r), NEW o \in OutcomeType, Len(r.queue) < PendingLimit
  PROVE  HeldBack(r, Finish(r, o)) \/ Queued(r, Finish(r, o), o)
<1> DEFINE size == Resolution[o.ts]
           fits == ~r.tooLarge \/ (size = "fits" /\ o.idr)
<1>0. r \in ReceiverType
  BY DEF Good
<1>1. CASE size = "large"
  <2> DEFINE b == IF r.waiting THEN r ELSE Resync(r)
             w == WaitForIdr(AskKeyframe(b))
  <2>1. Finish(r, o) = [w EXCEPT !.tooLarge = TRUE]
    BY <1>1 DEF Finish
  <2>2. Good(b) /\ Flushed(b) /\ b.queue = r.queue
    BY ResyncGood, PiecesKeepQueue DEF Good
  <2> HIDE DEF b
  <2>3. Good(AskKeyframe(b)) /\ AskKeyframe(b).queue = r.queue /\ Flushed(AskKeyframe(b))
    BY <2>2, AskKeyframeGood, PiecesKeepQueue
  <2>4. Good(w) /\ w.waiting /\ w.queue = r.queue
    BY <2>3, WaitForIdrGood, PiecesKeepQueue
  <2> HIDE DEF w
  <2>5. Finish(r, o).queue = r.queue /\ Finish(r, o).waiting
    BY <2>1, <2>4 DEF Good, ReceiverType
  <2> QED BY <2>5 DEF HeldBack
<1>2. CASE size # "large" /\ ~fits
  <2>1. r.waiting /\ Flushed(r)
    BY <1>2 DEF Good
  <2>2. Finish(r, o) = WaitForIdr(AskKeyframe(r))
    BY <1>2 DEF Finish
  <2>3. Good(AskKeyframe(r)) /\ Flushed(AskKeyframe(r))
    BY <2>1, AskKeyframeGood
  <2> QED BY <2>2, <2>3, PiecesKeepQueue, WaitForIdrGood DEF HeldBack
<1>3. CASE size # "large" /\ fits /\ r.waiting /\ ~o.idr
  <2>1. Finish(r, o) = AskKeyframe(r)
    BY <1>3 DEF Finish
  <2> QED BY <2>1, AskKeyframeGood, PiecesKeepQueue DEF HeldBack
<1>4. CASE size # "large" /\ fits /\ ~(r.waiting /\ ~o.idr)
  <2> DEFINE n == IF r.waiting THEN 0 ELSE IF r.damaged \/ r.score = 0 THEN r.score ELSE r.score - 1
             s == [r EXCEPT !.waiting = FALSE, !.tooLarge = FALSE, !.score = n]
             u == [ts |-> o.ts, generation |-> r.generation]
  <2>1. Finish(r, o) = Submit(s, o)
    BY <1>4 DEF Finish
  <2> HIDE DEF n
  <2>2. s.queue = r.queue /\ s.generation = r.generation /\ DOMAIN s = DOMAIN r
    BY <1>0 DEF ReceiverType
  <2> HIDE DEF s
  <2>3. Submit(s, o) = [s EXCEPT !.queue = Append(s.queue, u)]
    BY <2>2 DEF Submit
  <2>4. Submit(s, o).queue = Append(r.queue, u)
    BY <1>0, <2>2, <2>3 DEF ReceiverType
  <2>5. r.queue \in Seq(QueuedUnit) /\ u \in QueuedUnit
    BY <1>0 DEF ReceiverType, QueuedUnit, OutcomeType
  <2> HIDE DEF u
  <2>6. Len(Append(r.queue, u)) = Len(r.queue) + 1
    BY <2>5
  <2> QED BY <1>4, <2>1, <2>4, <2>6 DEF Queued
<1> QED BY <1>1, <1>2, <1>3, <1>4

\* Quality sheds every damaged frame: from then on the receiver waits.
LEMMA AbandonWaits ==
  ASSUME NEW r, Good(r), NEW o \in OutcomeType, policy = "Quality"
  PROVE  Abandon(r, o).queue = r.queue /\ Abandon(r, o).waiting
<1> DEFINE b == RecordDamage(AskKeyframe(r))
           d == [b EXCEPT !.damaged = TRUE]
<1>1. Good(b) /\ b.queue = r.queue
  <2>1. Good(AskKeyframe(r)) /\ AskKeyframe(r).queue = r.queue
    BY AskKeyframeGood, PiecesKeepQueue
  <2> QED BY <2>1, RecordDamageGood, PiecesKeepQueue
<1>2. Abandon(r, o) = IF ~d.waiting THEN WaitForIdr(Resync(d)) ELSE d
  BY DEF Abandon, Sheds
<1> HIDE DEF b
<1>3. /\ d \in ReceiverType
      /\ d.queue = b.queue /\ d.generation = b.generation
      /\ d.waiting = b.waiting /\ d.tooLarge = b.tooLarge
  BY <1>1 DEF Good, ReceiverType
<1> HIDE DEF d
<1>4. Good(d)
  BY <1>1, <1>3, CountersGood
<1>5. Good(Resync(d)) /\ Flushed(Resync(d)) /\ Resync(d).queue = d.queue
  BY <1>4, ResyncGood, PiecesKeepQueue
<1>6. WaitForIdr(Resync(d)).waiting /\ WaitForIdr(Resync(d)).queue = d.queue
  BY <1>5, WaitForIdrGood, PiecesKeepQueue
<1> QED BY <1>1, <1>2, <1>3, <1>6

LEMMA InvalidHeldBack ==
  ASSUME NEW r, Good(r)
  PROVE  HeldBack(r, Invalid(r))
<1>1. /\ Good(AskKeyframe(r)) /\ AskKeyframe(r).queue = r.queue
      /\ AskKeyframe(r).waiting = r.waiting
  BY AskKeyframeGood, PiecesKeepQueue
<1> QED BY <1>1, PiecesKeepQueue DEF Invalid, HeldBack

LEMMA WitnessValue ==
  ASSUME NEW h, NEW before, NEW after, NEW o,
         NEW queued \in BOOLEAN, queued <=> Len(after.queue) > Len(before.queue)
  PROVE  /\ Witness(h, before, after, o).broken
               <=> ~(queued /\ o.idr) /\ (h.broken \/ o.kind = "Damaged")
         /\ Witness(h, before, after, o).artefact
               <=> h.artefact \/ (queued /\ ~o.idr /\ h.broken)
BY Zenon DEF Witness

\* The decode queue takes one unit more.
RoomLeft == Len(decoder.queue) < PendingLimit

ChainWaitedOut ==
    policy = "Quality" => ~seen.artefact /\ (seen.broken => rtp.waiting)

LEMMA DispatchKeepsChain ==
  ASSUME Inv, RoomLeft, ChainWaitedOut, Dispatch
  PROVE  ChainWaitedOut'
<1> DEFINE o == Head(turn.todo)
           r == Handle(Receiver, o)
<1> SUFFICES ASSUME policy = "Quality"
             PROVE  ~seen'.artefact /\ (seen'.broken => rtp'.waiting)
  BY DEF Dispatch, ChainWaitedOut
<1>1. o \in OutcomeType
  BY DEF Dispatch, Inv, TypeOK
<1>2. /\ Good(Receiver) /\ Len(Receiver.queue) < PendingLimit /\ Receiver.waiting = rtp.waiting
      /\ Len(Receiver.queue) \in Nat
  BY DEF Inv, TypeOK, RoomLeft, Receiver
<1>3. ~seen.artefact /\ (seen.broken => Receiver.waiting)
  BY <1>2 DEF ChainWaitedOut
<1>4. seen' = Witness(seen, Receiver, r, o) /\ rtp'.waiting = r.waiting
  BY DEF Dispatch
<1>5. CASE o.kind = "Complete"
  <2>1. HeldBack(Receiver, r) \/ Queued(Receiver, r, o)
    BY <1>1, <1>2, <1>5, FinishWithRoom DEF Handle
  <2> HIDE DEF r, o
  <2>2. CASE HeldBack(Receiver, r)
    <3>1. ~(Len(r.queue) > Len(Receiver.queue))
      BY <1>2, <2>2 DEF HeldBack
    <3>2. /\ seen'.broken <=> seen.broken
          /\ seen'.artefact <=> seen.artefact
      BY <1>4, <1>5, <3>1, WitnessValue
    <3> QED BY <1>3, <1>4, <2>2, <3>2 DEF HeldBack
  <2>3. CASE Queued(Receiver, r, o)
    <3>1. Len(r.queue) > Len(Receiver.queue) /\ (Receiver.waiting => o.idr)
      BY <1>2, <2>3 DEF Queued
    <3>2. /\ seen'.broken <=> ~o.idr /\ seen.broken
          /\ seen'.artefact <=> seen.artefact \/ (~o.idr /\ seen.broken)
      BY <1>4, <1>5, <3>1, WitnessValue
    <3> QED BY <1>3, <3>1, <3>2
  <2> QED BY <2>1, <2>2, <2>3
<1>6. CASE o.kind = "Damaged"
  <2>1. r.queue = Receiver.queue /\ r.waiting
    BY <1>1, <1>2, <1>6, AbandonWaits DEF Handle
  <2> HIDE DEF r, o
  <2>2. ~(Len(r.queue) > Len(Receiver.queue))
    BY <1>2, <2>1
  <2>3. seen'.artefact <=> seen.artefact
    BY <1>4, <2>2, WitnessValue
  <2> QED BY <1>3, <1>4, <2>1, <2>3
<1>7. CASE o.kind = "Discarded"
  <2>1. HeldBack(Receiver, r)
    BY <1>2, <1>7, InvalidHeldBack DEF Handle
  <2> HIDE DEF r, o
  <2>2. ~(Len(r.queue) > Len(Receiver.queue))
    BY <1>2, <2>1 DEF HeldBack
  <2>3. /\ seen'.broken <=> seen.broken
        /\ seen'.artefact <=> seen.artefact
    BY <1>4, <1>7, <2>2, WitnessValue
  <2> QED BY <1>3, <1>4, <2>1, <2>3 DEF HeldBack
<1> QED BY <1>1, <1>5, <1>6, <1>7 DEF OutcomeType

\* Under the Quality policy no frame that refers to a damaged one is queued before
\* the next IDR, for as long as the decode queue has room: a refused IDR ends the
\* wait all the same (the run video_full).
THEOREM QualityIsArtefactFree == Spec /\ []RoomLeft => []ArtefactFree
<1>1. Init => ChainWaitedOut
  BY DEF Init, ChainWaitedOut
<1>2. Inv /\ RoomLeft /\ ChainWaitedOut /\ [Next]_vars => ChainWaitedOut'
  <2> SUFFICES ASSUME Inv, RoomLeft, ChainWaitedOut, [Next]_vars PROVE ChainWaitedOut'
    OBVIOUS
  <2>1. CASE Dispatch
    BY <2>1, DispatchKeepsChain
  <2>2. CASE DecodeFailed
    BY <2>2 DEF DecodeFailed, ChainWaitedOut, Inv, TypeOK
  <2>3. CASE UNCHANGED <<policy, rtp, seen>>
    BY <2>3 DEF ChainWaitedOut
  <2> QED BY <2>1, <2>2, <2>3 DEF Next, Receive, ReceiveRtx, AuthorityBlock, FlushExpired, TurnEnds,
             SendNack, LosePacket, Decode, Tick, receiverVars, vars
<1>3. ChainWaitedOut => ArtefactFree
  BY DEF ChainWaitedOut, ArtefactFree
<1> QED BY <1>1, <1>2, <1>3, InitInv, NextInv, PTL DEF Spec
=============================================================================
