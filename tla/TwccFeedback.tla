---------------------------- MODULE TwccFeedback ----------------------------
(***************************************************************************)
(* Transport-wide feedback and receiver reports: the socket stamps a video *)
(* datagram (rtp.rs, TWCC_ARRIVALS), the recorder unwraps its number and   *)
(* keeps its arrival (twcc/recorder.rs over ArrivalMap), send_twcc builds  *)
(* the packets the console reads back, reception_stats.rs counts losses.   *)
(*                                                                         *)
(* Time is counted in half delta steps (Scale = 2 stands for 250 us).  The *)
(* packet's transport-wide number and its RTP number advance together;     *)
(* a retransmission has RTP numbers of its own.                            *)
(***************************************************************************)
EXTENDS Integers, Sequences, SequencesExt, FiniteSetsExt

CONSTANTS MinCapacity, MaxPackets,   \* of the ring; numbers live mod 2 * MaxPackets
          Window,                    \* PACKET_WINDOW_MICROSECONDS
          RefUnit,                   \* 64 ms, the unit of a packet's reference time
          SmallMax, LargeMax,        \* largest one-byte and two-byte delta
          TwoBitCap, OneBitCap, RunCap,   \* symbols per kind of chunk
          FifoCap, EvictAhead,       \* TWCC_ARRIVALS: entries, and how old a head is evicted
          ShadowLead,                \* the two stamp clocks' constant distance
          RtpMod, RtxSeq,            \* RTP numbers, and the one retransmissions carry
          Jumps, Gaps,               \* how far the next number and time may lie
          MaxCaptured, MaxWire, MaxReports  \* bounds

\* arrival_time_map.rs: 128 slots, 1 << 15 numbers.
ASSUME RingAssumption ==
  MinCapacity \in Nat \ {0} /\ MaxPackets \in 2 .. 32768

\* recorder.rs: chunks of 7, 14 and 0x1fff symbols, deltas of one and two bytes, and a
\* reference time in units of 256 steps.
ASSUME ChunkAssumption ==
  /\ TwoBitCap \in Nat \ {0} /\ OneBitCap \in TwoBitCap + 1 .. 2 * TwoBitCap
  /\ RunCap \in Nat /\ OneBitCap <= RunCap
  /\ SmallMax \in Nat /\ LargeMax \in Nat /\ SmallMax <= LargeMax
  /\ RefUnit \in 1 .. 2 * LargeMax

ASSUME StampAssumption ==
  /\ Window \in Nat /\ FifoCap \in Nat \ {0} /\ EvictAhead \in Nat /\ ShadowLead \in Nat
  /\ RtpMod \in Nat \ {0} /\ RtxSeq \in 0 .. RtpMod - 1
  /\ Jumps \subseteq Int /\ Gaps \subseteq Nat

VARIABLES now, top, captured,        \* time, highest number sent, datagrams captured
          wire,                      \* captured datagrams the peer has not handed over
          fifo,                      \* TWCC_ARRIVALS
          map, last, start,          \* Recorder
          feedbacks,                 \* packets built so far (fb_pkt_cnt)
          rr,                        \* ReceptionStats
          heard,                     \* the packets VideoRtp was given, in order
          stamps                     \* own, excused (drop, reorder, overflow), or late

vars == <<now, top, captured, wire, fifo, map, last, start, feedbacks, rr,
          heard, stamps>>

Ring == INSTANCE ArrivalMap

Half   == MaxPackets
WideMod == 2 * MaxPackets
Scale  == 2

Wide(n) == n % WideMod          \* the transport-wide number of packet n
Rtp(n)  == n % RtpMod          \* the number in its RTP header

(* ------------------------------ the stamps ------------------------------ *)

Offer(seq, at) ==
  Append(IF Len(fifo) >= FifoCap THEN Tail(fifo) ELSE fifo, [seq |-> seq, at |-> at])

(* How many heads the search for `seq` evicts. *)
Evicted(seq) ==
  LET Stale(e) == (seq - e.seq) % RtpMod \in 1 .. EvictAhead
  IN  CHOOSE k \in 0 .. Len(fifo) :
        /\ \A i \in 1 .. k : Stale(fifo[i])
        /\ k < Len(fifo) => ~ Stale(fifo[k + 1])

Searched(seq) == SubSeq(fifo, Evicted(seq) + 1, Len(fifo))

Found(seq) == Searched(seq) # <<>> /\ Head(Searched(seq)).seq = seq

Taken(seq) == IF Found(seq) THEN Tail(Searched(seq)) ELSE Searched(seq)

Stamp(seq) == IF Found(seq) THEN Head(Searched(seq)).at ELSE now + ShadowLead

(* ----------------------------- the recorder ----------------------------- *)

Started == Ring!Capacity(map) > 0

(* SequenceUnwrapper: the number nearest to the last one. *)
Unwrap(seq) ==
  LET diff == seq - (last % WideMod)
  IN  IF ~ Started THEN seq
      ELSE IF diff > Half THEN last + diff - WideMod
      ELSE IF diff < -Half THEN last + diff + WideMod
      ELSE last + diff

Culled(n, t) ==
  IF Started /\ start >= map.end /\ t >= Window
  THEN Ring!RemoveOld(map, n, t - Window) ELSE map

Record(seq, t) ==
  LET n     == Unwrap(seq)
      kept  == Culled(n, t)
      from  == IF ~ Started \/ n < start THEN n ELSE start
      ring  == IF Ring!HasReceived(kept, n) THEN kept ELSE Ring!AddPacket(kept, n, t)
  IN  /\ last' = n
      /\ map' = ring
      /\ start' = IF Ring!HasReceived(kept, n) THEN from ELSE Max({from, ring.begin})

(* ------------------------------ the packets ----------------------------- *)

Mixed(c) == \E i \in DOMAIN c : c[i] # c[1]

CanAdd(c, s) ==
  \/ Len(c) < TwoBitCap
  \/ Len(c) < OneBitCap /\ ~ Contains(c, "large") /\ s # "large"
  \/ Len(c) < RunCap /\ ~ Mixed(c) /\ s = c[1]

(* Chunk::encode: how many symbols leave, and as which kind of chunk. *)
Encoded(c) ==
  CASE ~ Mixed(c)                          -> [kind |-> "run", syms |-> c]
    [] Mixed(c) /\ Len(c) = OneBitCap      -> [kind |-> "onebit", syms |-> c]
    [] Mixed(c) /\ Len(c) # OneBitCap      ->
         [kind |-> "twobit", syms |-> SubSeq(c, 1, Min({TwoBitCap, Len(c)}))]

RestForgotten(c) == <<>>

(* What encode leaves in the open chunk. *)
Rest(c) == SubSeq(c, Len(Encoded(c).syms) + 1, Len(c))

WriteOut(f) == [f EXCEPT !.chunks = Append(@, Encoded(f.open)), !.open = Rest(@)]

AddSymbol(f, s) ==
  LET g == IF CanAdd(f.open, s) THEN f ELSE WriteOut(f)
  IN  [g EXCEPT !.open = Append(@, s)]

NewFeedback(base, t) ==
  [base |-> Wide(base), ref |-> t \div RefUnit, lastTime |-> (t \div RefUnit) * RefUnit,
   next |-> Wide(base), count |-> 0, open |-> <<>>, chunks |-> <<>>, deltas |-> <<>>]

(* The delta in steps, rounded half away from zero. *)
Delta(f, t) ==
  LET d == t - f.lastTime
  IN  IF d >= 0 THEN (d + Scale \div 2) \div Scale ELSE - ((Scale \div 2 - d) \div Scale)

Fits(f, t) == Delta(f, t) \in - LargeMax - 1 .. LargeMax

AddReceived(f, seq, t) ==
  LET gap    == (seq - f.next) % WideMod
      d      == Delta(f, t)
      padded == FoldLeft(AddSymbol, f, [i \in 1 .. gap |-> "lost"])
      added  == AddSymbol(padded, IF d \in 0 .. SmallMax THEN "small" ELSE "large")
  IN  [added EXCEPT !.deltas = Append(@, d), !.lastTime = @ + d * Scale,
                    !.count = @ + gap + 1, !.next = (seq + 1) % WideMod]

(* get_rtcp: the open chunk is written out until nothing is left of it,    *)
(* each time at least one of its symbols.                                  *)
CloseOne(f, symbol) == IF f.open = <<>> THEN f ELSE WriteOut(f)
Closed(f) == FoldLeft(CloseOne, f, f.open)

Due == {n \in map.begin .. map.end - 1 : n >= start /\ Ring!HasReceived(map, n)}

(* The numbers of S in order. *)
Ascending(S) ==
  [k \in 1 .. Cardinality(S) |-> CHOOSE x \in S : Cardinality({y \in S : y < x}) = k - 1]

Unsent == Ascending(Due)

(* build_feedback_packet: a packet takes arrivals in order until a delta   *)
(* does not fit; the next packet begins after the last number named.       *)
Extend(fbs, n) ==
  LET t     == Ring!Get(map, n)
      from  == IF fbs = <<>> THEN start ELSE Last(fbs).upto
      base  == Max({from, n - (MaxPackets - 2)})
      fresh == [fb |-> AddReceived(NewFeedback(base, t), Wide(n), t), upto |-> n + 1]
  IN  IF fbs # <<>> /\ Fits(Last(fbs).fb, t)
      THEN [fbs EXCEPT ![Len(fbs)] =
              [fb |-> AddReceived(@.fb, Wide(n), t), upto |-> n + 1]]
      ELSE Append(fbs, fresh)

Built == LET fbs == FoldLeft(Extend, <<>>, Unsent)
         IN  [i \in DOMAIN fbs |-> Closed(fbs[i].fb)]

(* --------------------------- receiver reports --------------------------- *)

FirstOf(seq) == [started |-> TRUE, base |-> seq, max |-> seq, cycles |-> 0,
                 received |-> 1, expectedPrior |-> 1, receivedPrior |-> 1]

NewStats == [FirstOf(0) EXCEPT !.started = FALSE]

Newer(seq) == (seq - rr.max) % RtpMod \in 1 .. RtpMod \div 2 - 1

WrappedBelow(seq) == seq < rr.base    \* compares with the wrong number
Wrapped(seq) == seq < rr.max

OnPacket(seq) ==
  rr' = IF ~ rr.started THEN FirstOf(seq)
        ELSE [rr EXCEPT !.received = @ + 1,
                        !.max      = IF Newer(seq) THEN seq ELSE @,
                        !.cycles   = IF Newer(seq) /\ Wrapped(seq) THEN @ + RtpMod ELSE @]

Highest  == rr.cycles + rr.max
Expected == Highest - rr.base + 1
Lost     == Max({0, Expected - rr.received})

(* ------------------------------- the steps ------------------------------ *)

Init ==
  /\ now = 0 /\ top = RtpMod - 2 /\ captured = 0 /\ wire = <<>> /\ fifo = <<>>
  /\ map = Ring!EmptyMap /\ last = 0 /\ start = 0 /\ feedbacks = 0
  /\ rr = NewStats
  /\ heard = <<>> /\ stamps = "own"

Excuse(disturbed) == IF disturbed /\ stamps = "own" THEN "excused" ELSE stamps

(* The receive thread captured a datagram of a video payload type and the  *)
(* transport offers its stamp under the RTP number in its header.          *)
Capture(p, gap) ==
  /\ captured < MaxCaptured /\ Len(wire) < MaxWire
  /\ now' = now + gap /\ captured' = captured + 1
  /\ wire' = Append(wire, p)
  /\ fifo' = Offer(p.seq, now')

CapturePrimary ==
  \E d \in Jumps, gap \in Gaps :
    /\ top + d >= 0
    /\ Capture([kind |-> "primary", n |-> top + d, seq |-> Rtp(top + d)], gap)
    /\ top' = Max({top, top + d})
    /\ stamps' = Excuse(d < 1 \/ Len(fifo) >= FifoCap)
    /\ UNCHANGED <<map, last, start, feedbacks, rr, heard>>

CaptureRtx ==
  \E gap \in Gaps :
    /\ Capture([kind |-> "rtx", n |-> 0, seq |-> RtxSeq], gap)
    /\ UNCHANGED <<top, map, last, start, feedbacks, rr, heard, stamps>>

(* SRTP refuses a datagram: the peer never hands it over. *)
SrtpDrops ==
  /\ wire # <<>> /\ wire' = Tail(wire) /\ stamps' = Excuse(TRUE)
  /\ UNCHANGED <<now, top, captured, fifo, map, last, start, feedbacks, rr, heard>>

(* VideoRtp::receive of a primary packet: stamp, record, count. *)
ReceivePrimary ==
  /\ wire # <<>> /\ Head(wire).kind = "primary" /\ wire' = Tail(wire)
  /\ LET p == Head(wire)
     IN  /\ fifo' = Taken(p.seq)
         /\ Record(Wide(p.n), Stamp(p.seq))
         /\ OnPacket(p.seq)
         /\ heard' = Append(heard, p.n)
         /\ stamps' = IF stamps = "own" /\ ~ Found(p.seq) THEN "late" ELSE stamps
  /\ UNCHANGED <<now, top, captured, feedbacks>>

(* A retransmission goes to receive_rtx: no stamp is taken, nothing is     *)
(* recorded, nothing counted.                                              *)
ReceiveRtx ==
  /\ wire # <<>> /\ Head(wire).kind = "rtx" /\ wire' = Tail(wire)
  /\ UNCHANGED <<now, top, captured, fifo, map, last, start, feedbacks, rr,
                 heard, stamps>>

(* send_twcc: the start moves past the last number reported. *)
SendTwcc ==
  /\ Due # {} /\ feedbacks < MaxReports
  /\ start' = Max(Due) + 1
  /\ feedbacks' = feedbacks + Len(Built)
  /\ UNCHANGED <<now, top, captured, wire, fifo, map, last, rr, heard, stamps>>

(* send_rr: the interval's counts start anew. *)
SendRr ==
  /\ rr.started
  /\ rr' = [rr EXCEPT !.expectedPrior = Max({0, Expected}), !.receivedPrior = rr.received]
  /\ UNCHANGED <<now, top, captured, wire, fifo, map, last, start, feedbacks,
                 heard, stamps>>

Next == \/ CapturePrimary \/ CaptureRtx \/ SrtpDrops
        \/ ReceivePrimary \/ ReceiveRtx \/ SendTwcc \/ SendRr

Spec == Init /\ [][Next]_vars

(* ----------------------------- what must hold --------------------------- *)

(* How the console reads a packet: every chunk but a run fills up with     *)
(* "lost", the count cuts the rest off, and each delta adds to the time.   *)
Padded(c) == CASE c.kind = "run"    -> c.syms
               [] c.kind = "onebit" -> c.syms
               [] c.kind = "twobit" -> [i \in 1 .. TwoBitCap |->
                     IF i <= Len(c.syms) THEN c.syms[i] ELSE "lost"]

Symbols(f) ==
  LET all == FlattenSeq([i \in DOMAIN f.chunks |-> Padded(f.chunks[i])])
  IN  SubSeq(all, 1, Min({f.count, Len(all)}))

Named(f) == Ascending({i \in 1 .. Len(Symbols(f)) : Symbols(f)[i] # "lost"})

Read(f) ==
  [k \in DOMAIN Named(f) |->
     [wide |-> (f.base + Named(f)[k] - 1) % WideMod,
      time |-> f.ref * RefUnit + Scale * FoldLeft(+, 0, SubSeq(f.deltas, 1, k))]]

(* A chunk holds what its kind has bits for, the count has 16 of them, and *)
(* each delta the bytes its symbol announces.                              *)
Carried(c) ==
  CASE c.kind = "run"    -> Len(c.syms) \in 1 .. RunCap /\ ~ Mixed(c.syms)
    [] c.kind = "onebit" -> Len(c.syms) = OneBitCap /\ ~ Contains(c.syms, "large")
    [] c.kind = "twobit" -> Len(c.syms) \in 1 .. TwoBitCap

Formed(f) ==
  /\ f.count \in 0 .. WideMod - 1
  /\ \A i \in DOMAIN f.chunks : Carried(f.chunks[i])
  /\ DOMAIN f.deltas = DOMAIN Named(f)
  /\ \A k \in DOMAIN f.deltas :
       f.deltas[k] \in IF Symbols(f)[Named(f)[k]] = "small" THEN 0 .. SmallMax
                       ELSE - LargeMax - 1 .. LargeMax

(* The feedback a turn would send now has the form of the format and, read *)
(* back, names the arrivals since the last feedback, each once, in order,  *)
(* and with its time to half a delta step: splitting packets and chunks    *)
(* loses and invents nothing.                                              *)
FeedbackIsExact ==
  LET said == FlattenSeq([i \in DOMAIN Built |-> Read(Built[i])])
  IN  /\ Len(said) = Len(Unsent)
      /\ \A k \in DOMAIN said :
           /\ said[k].wide = Wide(Unsent[k])
           /\ 2 * (said[k].time - Ring!Get(map, Unsent[k])) \in - Scale .. Scale
      /\ \A i \in DOMAIN Built : Formed(Built[i])

(* The ring and the recorder keep the ledger's promise. *)
Ledger == INSTANCE ArrivalLedger WITH
  ledger     <- Ring!Arrivals(map),
  unreported <- {n \in DOMAIN Ring!Arrivals(map) : n >= start}

KeepsTheLedger == Ledger!Spec

(* The reported loss is what is missing between the first and the highest  *)
(* number, less the repeats and stragglers that A.3 counts as received.    *)
LossIsWhatIsMissing ==
  rr.started =>
    LET seen    == {heard[i] : i \in DOMAIN heard}
        missing == (heard[1] .. Max(seen)) \ seen
        spare   == {i \in DOMAIN heard : heard[i] < heard[1]
                                       \/ \E j \in 1 .. i - 1 : heard[j] = heard[i]}
    IN  /\ Lost = Max({0, Cardinality(missing) - Cardinality(spare)})
        /\ Highest - rr.base = Max(seen) - heard[1]

(* Without a dropped, reordered or overflowing datagram every packet       *)
(* recorded carries its socket arrival (rtp.rs:347-349, 1641-1643).        *)
StampIsArrival == stamps # "late"
=============================================================================
