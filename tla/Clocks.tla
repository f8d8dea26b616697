------------------------------- MODULE Clocks -------------------------------
(***************************************************************************)
(* The queue-delay estimate: abs-send-time unwrapped (clock/send_time.rs), *)
(* anchored to the media clock (rtp.rs, receive), and the estimator with   *)
(* its ring of samples (clock/queue_delay.rs).  A step is one packet of a  *)
(* newer RTP timestamp, the only ones that reach the estimator.  All times *)
(* are in one unit and the two clocks of the console run at one rate; the  *)
(* scaling of both to microseconds (rtp.rs:467, send_time.rs) and its      *)
(* rounding are left out.                                                  *)
(***************************************************************************)
EXTENDS Integers, Sequences, SequencesExt, FiniteSetsExt

CONSTANTS Wrap, Ambig,     \* 64 s and 32 s
          MediaTurn,       \* 2^32 ticks of 90 kHz
          Group, Span,     \* 5 ms and 10 s
          RingSize,        \* 100
          SendGaps, Delays,   \* between packets; on the way
          AstLead,         \* the sender's clock at time 0
          MediaLead,       \* the RTP timestamp at time 0, which is random
          MaxPackets       \* bound

VARIABLES sent, arrived, packets,     \* true times of the last packet; how many
          began, stamped,             \* true times of the first packet and of the last annotated
          origin,                     \* stream_clock_anchor: where arrivals count from
          unwrapper,                  \* SendTimeUnwrapper
          switch,                     \* ast_active, ast_anchor_us, grad_anchor_us
          q,                          \* QueueDelayEstimator without its ring
          ring,                       \* RingBuf: data, len, head
          recent,                     \* the last RingSize samples within the span
          steady, shifted             \* nothing broke the sums; a wrapped ring was moved

vars == <<sent, arrived, packets, began, stamped, origin, unwrapper, switch, q, ring,
          recent, steady, shifted>>

Unset == -1

(* --------------------------- send time unwrapped ------------------------ *)

NewUnwrapper == [started |-> FALSE, anchor |-> Unset, high |-> 0]

Raw(t) == (t + AstLead) % Wrap

\* grad_us: the RTP timestamp as it is sent, which no one unwraps.
Media(t) == (t + MediaLead) % MediaTurn

(* push: the unwrapped time is `high` afterwards.  A step of more than half *)
(* a turn is ignored, and the packet after it sets a new anchor.           *)
Reanchored(raw) ==
  LET turn == (unwrapper.high \div Wrap) * Wrap + raw
  IN  IF turn < unwrapper.high THEN turn + Wrap ELSE turn

ForwardPlain(raw) == raw - unwrapper.anchor       \* without the turn
Forward(raw) == (raw - unwrapper.anchor) % Wrap

Unwrapped(raw) ==
  CASE ~ unwrapper.started -> [started |-> TRUE, anchor |-> raw, high |-> raw]
    [] unwrapper.started /\ unwrapper.anchor = Unset ->
         [unwrapper EXCEPT !.anchor = raw, !.high = Reanchored(raw)]
    [] unwrapper.started /\ unwrapper.anchor # Unset /\ Forward(raw) <= Ambig ->
         [unwrapper EXCEPT !.anchor = raw, !.high = @ + Forward(raw)]
    [] unwrapper.started /\ unwrapper.anchor # Unset /\ Forward(raw) > Ambig ->
         [unwrapper EXCEPT !.anchor = Unset]

(* The send time given to the estimator: the media clock for a packet that *)
(* carries no annotation, before the first one and after it; else the      *)
(* sender's clock, moved to where the media clock was at the first one.    *)
Switched(media, high) ==
  IF switch.active THEN switch
  ELSE [active |-> TRUE, ast |-> high, media |-> media]

(* ------------------------------- the ring ------------------------------- *)

NewRing == [data |-> [i \in 0 .. RingSize - 1 |-> [ts |-> 0, owd |-> 0]], len |-> 0, head |-> 0]

Push(r, s) ==
  [data |-> [r.data EXCEPT ![r.head] = s],
   head |-> (r.head + 1) % RingSize,
   len  |-> IF r.len < RingSize THEN r.len + 1 ELSE r.len]

First(r) == (r.head - r.len) % RingSize

Samples(r) == [i \in 1 .. r.len |-> r.data[(First(r) + i - 1) % RingSize]]

StaleCount(r, cutoff) ==
  Max({n \in 0 .. r.len : \A i \in 1 .. n : Samples(r)[i].ts < cutoff})

(* One kept sample moved to the front: the slot read is the next one that  *)
(* is not stale, the slot written is not looked at again by the writer.    *)
MoveOne(state, written) ==
  LET slot == CHOOSE p \in 0 .. RingSize - 1 :
                \E ahead \in 0 .. RingSize - 1 :
                  /\ p = (state.read + ahead) % RingSize
                  /\ state.data[p].ts >= state.cutoff
                  /\ \A a \in 0 .. ahead - 1 :
                       state.data[(state.read + a) % RingSize].ts < state.cutoff
  IN  [state EXCEPT !.data[written] = state.data[slot], !.read = (slot + 1) % RingSize]

(* evict: the samples kept are moved to the front one by one. *)
Evict(r, cutoff) ==
  LET gone == StaleCount(r, cutoff)
      kept == r.len - gone
      moved == FoldLeft(MoveOne, [data |-> r.data, read |-> First(r), cutoff |-> cutoff],
                        [i \in 1 .. kept |-> i - 1])
  IN  IF gone = 0 THEN r
      ELSE IF kept = 0 THEN [r EXCEPT !.len = 0, !.head = 0]
      ELSE [data |-> moved.data, len |-> kept, head |-> kept]

(* ----------------------------- the estimator ---------------------------- *)

SameGroup(send) == send - q.group \in - Group .. Group

Lowest(r) == Min({Samples(r)[i].owd : i \in 1 .. r.len})

(* A base that never rises again. *)
LowestEver(r) == Min({q.base, Lowest(r)})

(* recompute_base over what the ring holds. *)
Base(r) == Lowest(r)

Cutoff(arrival) == Max({0, arrival - Span})

(* QueueDelayEstimator::push. *)
Estimate(send, arrival) ==
  LET owd  == q.owd + (arrival - q.prevArrival) - (send - q.prevSend)
      full == Push(ring, [ts |-> arrival, owd |-> owd])
      kept == Evict(full, Cutoff(arrival))
  IN  IF ~ q.started
      THEN /\ q' = [started |-> TRUE, owd |-> 0, base |-> 0, group |-> send,
                    prevSend |-> send, prevArrival |-> arrival]
           /\ ring' = Push(ring, [ts |-> arrival, owd |-> 0])
           /\ UNCHANGED shifted
      ELSE IF SameGroup(send)
      THEN q' = [q EXCEPT !.prevSend = send, !.prevArrival = arrival] /\ UNCHANGED <<ring, shifted>>
      ELSE /\ ring' = kept
           /\ q' = [q EXCEPT !.owd = owd, !.base = Base(kept), !.group = send,
                             !.prevSend = send, !.prevArrival = arrival]
           /\ shifted' = (shifted \/ (kept # full /\ First(full) + full.len > RingSize))

Q == q.owd - q.base

(* The window the ring stands for: of the last RingSize samples those after *)
(* the last one that lies before the span.                                  *)
Remember(send, arrival) ==
  LET all  == Append(recent, [ts |-> arrival, delay |-> arrival - send])
      last == IF Len(all) > RingSize THEN Tail(all) ELSE all
      old  == {i \in DOMAIN last : last[i].ts < Cutoff(arrival)}
  IN  SubSeq(last, Max(old \cup {0}) + 1, Len(last))

(* What the steadiness of the send times asks of the packet sent at t: an  *)
(* annotated one within half a turn of the last annotated one; one timed   *)
(* by the media clock (it begins the stream, it changes the clocks, or its *)
(* annotation is missing) in the turn of that clock the stream began in.   *)
KeepsPace(t, annotates) ==
  IF annotates /\ switch.active THEN t - stamped <= Ambig
  ELSE packets = 0 \/ Media(t) - Media(began) = t - began

(* A packet of a newer timestamp, sent `gap` after the last, `delay` on    *)
(* the way, never overtaking, with the sender's stamp or without.          *)
Packet ==
  \E gap \in SendGaps, delay \in Delays, annotates \in BOOLEAN :
    /\ packets < MaxPackets /\ packets' = packets + 1
    /\ sent' = sent + gap
    /\ began' = IF packets = 0 THEN sent' ELSE began
    /\ stamped' = IF annotates THEN sent' ELSE stamped
    /\ arrived' = Max({arrived, sent' + delay})
    /\ origin' = IF origin = Unset THEN arrived' ELSE origin
    /\ unwrapper' = IF annotates THEN Unwrapped(Raw(sent')) ELSE unwrapper
    /\ switch' = IF annotates THEN Switched(Media(sent'), unwrapper'.high) ELSE switch
    /\ LET send == IF annotates THEN switch'.media + (unwrapper'.high - switch'.ast)
                   ELSE Media(sent')
       IN  /\ Estimate(send, arrived' - origin')
           /\ recent' = Remember(sent', arrived' - origin')
           /\ steady' = (/\ steady /\ (packets = 0 \/ gap > Group)
                         /\ KeepsPace(sent', annotates))

(* reset_lag_anchor, after a flush: arrivals count from the next packet.   *)
ResetAnchor ==
  /\ origin # Unset /\ origin' = Unset
  /\ steady' = FALSE
  /\ UNCHANGED <<sent, arrived, packets, began, stamped, unwrapper, switch, q, ring, recent, shifted>>

Init ==
  /\ sent = 0 /\ arrived = 0 /\ packets = 0 /\ began = 0 /\ stamped = 0 /\ origin = Unset
  /\ unwrapper = NewUnwrapper
  /\ switch = [active |-> FALSE, ast |-> 0, media |-> 0]
  /\ q = [started |-> FALSE, owd |-> 0, base |-> 0, group |-> 0, prevSend |-> 0, prevArrival |-> 0]
  /\ ring = NewRing
  /\ recent = <<>> /\ steady = TRUE /\ shifted = FALSE

Next == Packet \/ ResetAnchor

Spec == Init /\ [][Next]_vars

(* ----------------------------- what must hold --------------------------- *)

(* The time of the estimator's clock less the true one, set by the first   *)
(* packet.                                                                 *)
Offset == Media(began) - began

(* The unwrapped send time stays on the sender's clock: off by whole turns *)
(* only (send_time.rs:56).  While the stream keeps pace it is off by none, *)
(* so that moved to the media clock it goes on as that clock began,        *)
(* whichever packets carry the stamp and however often either clock wraps. *)
SendTimeIsTrue ==
  switch.active /\ unwrapper.anchor # Unset =>
    /\ (stamped + AstLead - unwrapper.high) % Wrap = 0
    /\ steady => switch.media + (unwrapper.high - switch.ast) - stamped = Offset

(* Q is how far the last packet's delay lies above the lowest one among    *)
(* the last RingSize samples of the span, through the change of clocks and *)
(* the packets whose annotation is missing.  Left out are the runs in      *)
(* which the code's send times themselves jump (steady): a stamp more than *)
(* half a turn after the last, a packet timed by the media clock after     *)
(* that clock has wrapped, arrivals counted anew after a flush; packets    *)
(* that share a group; and a ring moved while it was wrapped (shifted).    *)
QueueIsTheRise ==
  q.started /\ steady /\ ~ shifted =>
    Q = recent[Len(recent)].delay - Min({recent[i].delay : i \in DOMAIN recent})

=============================================================================
