----------------------------- MODULE ArrivalMap -----------------------------
(***************************************************************************)
(* The ring of arrival times of twcc/arrival_time_map.rs, as operators on  *)
(* a record: `cells` (one time per slot, Absent for none), `begin` and     *)
(* `end` (first number, and one past the last).  Numbers are unwrapped.    *)
(***************************************************************************)
EXTENDS Integers, FiniteSets, FiniteSetsExt

CONSTANTS MinCapacity,  \* slots of the smallest ring, a power of two
          MaxPackets    \* numbers the ring may span, a power of two

Absent == -1

EmptyMap == [cells |-> [i \in {} |-> Absent], begin |-> 0, end |-> 0]

Capacity(m) == Cardinality(DOMAIN m.cells)

Slot(m, n) == n % Capacity(m)

InWindow(m, n) == n \in m.begin .. m.end - 1

Get(m, n) == IF InWindow(m, n) THEN m.cells[Slot(m, n)] ELSE Absent

HasReceived(m, n) == Get(m, n) # Absent

Put(m, n, t) == [m EXCEPT !.cells[Slot(m, n)] = t]

(* A new ring of `capacity` slots with the window copied into it in order. *)
Reallocate(m, capacity) ==
  LET At(i) == {n \in m.begin .. m.end - 1 : n % capacity = i}
  IN  [m EXCEPT !.cells = [i \in 0 .. capacity - 1 |->
         IF At(i) = {} THEN Absent ELSE Get(m, Max(At(i)))]]

Doublings == {1, 2, 4, 8, 16, 32, 64, 128, 256, 512, 1024, 2048, 4096, 8192, 16384, 32768}

(* What doubling and halving make of the smallest ring. *)
Capacities == {MinCapacity * d : d \in Doublings}

Grown(capacity, size) == Min({c \in Capacities : c >= capacity /\ c >= size})

Shrunk(capacity, size) ==
  LET least == Max({size, MinCapacity})
  IN  Max({c \in Capacities : c <= capacity /\ c < 2 * least})

(* adjust_to_size: grow to hold `size`, give back a ring four times too big.*)
AdjustToSize(m, size) ==
  LET c == IF size > Capacity(m) THEN Grown(Capacity(m), size) ELSE Capacity(m)
      s == IF c > Max({MinCapacity, size * 4}) THEN Shrunk(c, size) ELSE c
  IN  IF s = Capacity(m) THEN m ELSE Reallocate(m, s)

(* A gap filled one number short keeps what a slot held before. *)
SetNotReceivedShort(m, from, to) ==
  [m EXCEPT !.cells = [i \in DOMAIN m.cells |->
     IF \E n \in from .. to - 2 : Slot(m, n) = i THEN Absent ELSE m.cells[i]]]

SetNotReceived(m, from, to) ==
  [m EXCEPT !.cells = [i \in DOMAIN m.cells |->
     IF \E n \in from .. to - 1 : Slot(m, n) = i THEN Absent ELSE m.cells[i]]]

(* The five cases of add_packet. *)
AddFirst(m, n, t) ==
  Put([cells |-> Reallocate(m, MinCapacity).cells, begin |-> n, end |-> n + 1], n, t)

AddBefore(m, n, t) ==
  LET wide == AdjustToSize(m, m.end - n)
  IN  [SetNotReceived(Put(wide, n, t), n + 1, wide.begin) EXCEPT !.begin = n]

AddFarAfter(m, n, t) == Put([cells |-> m.cells, begin |-> n, end |-> n + 1], n, t)

AddAfter(m, n, t) ==
  LET oldest == Max({m.begin, n + 1 - MaxPackets})
      wide   == AdjustToSize([m EXCEPT !.begin = oldest], n + 1 - oldest)
  IN  Put([SetNotReceived(wide, m.end, n) EXCEPT !.end = n + 1], n, t)

AddPacket(m, n, t) ==
  CASE Capacity(m) = 0                                       -> AddFirst(m, n, t)
    [] Capacity(m) > 0 /\ InWindow(m, n)                     -> Put(m, n, t)
    [] Capacity(m) > 0 /\ n < m.begin /\ m.end - n > MaxPackets -> m
    [] Capacity(m) > 0 /\ n < m.begin /\ m.end - n <= MaxPackets -> AddBefore(m, n, t)
    [] Capacity(m) > 0 /\ n >= m.end /\ n + 1 >= m.end + MaxPackets -> AddFarAfter(m, n, t)
    [] Capacity(m) > 0 /\ n >= m.end /\ n + 1 < m.end + MaxPackets -> AddAfter(m, n, t)

(* remove_old_packets: drops the head of the window while it lies before n *)
(* and is not newer than `limit`; a number that never arrived goes with it.*)
RemoveOld(m, n, limit) ==
  LET to    == Min({n, m.end})
      young == {x \in m.begin .. to - 1 : Get(m, x) > limit}
      head  == IF young # {} THEN Min(young) ELSE Max({m.begin, to})
  IN  AdjustToSize([m EXCEPT !.begin = head], m.end - head)

(* What the ring stands for: the arrivals in the window. *)
Arrivals(m) ==
  [n \in {x \in m.begin .. m.end - 1 : HasReceived(m, x)} |-> Get(m, n)]
=============================================================================
