--------------------------- MODULE ArrivalLedger ---------------------------
(***************************************************************************)
(* What the transport-wide feedback promises about arrivals: the first     *)
(* arrival of a number is kept with its time, unchanged, until it has been *)
(* reported, or until a number MaxPackets higher arrives.                  *)
(***************************************************************************)
EXTENDS Integers

CONSTANT MaxPackets     \* how far behind the newest number a record may lie

VARIABLES ledger,       \* number |-> time of its first arrival
          unreported    \* the numbers no feedback has named yet

vars == <<ledger, unreported>>

Init == ledger = [n \in {} |-> 0] /\ unreported = {}

MayForget(n, new) == n \notin unreported \/ n <= new - MaxPackets

(* A packet is heard: its number is new, everything kept keeps its time,   *)
(* nothing is forgotten early, and nothing unreported counts as reported.  *)
Hear ==
  /\ \E new \in DOMAIN ledger' :
       /\ new \notin DOMAIN ledger /\ new \in unreported'
       /\ DOMAIN ledger' \subseteq DOMAIN ledger \cup {new}
       /\ \A n \in DOMAIN ledger \ DOMAIN ledger' : MayForget(n, new)
  /\ \A n \in DOMAIN ledger \cap DOMAIN ledger' : ledger'[n] = ledger[n]
  /\ unreported \cap DOMAIN ledger' \subseteq unreported'
  /\ unreported' \subseteq DOMAIN ledger'

(* A number heard before, or one too far back, adds nothing; reported ones *)
(* may be forgotten on the occasion.  What follows the number heard before *)
(* will be reported once more, after one too far back everything will.     *)
HearAgain ==
  /\ DOMAIN ledger' \subseteq DOMAIN ledger
  /\ unreported \subseteq unreported' /\ unreported' \subseteq DOMAIN ledger'
  /\ \/ \E again \in DOMAIN ledger' :
          unreported' = unreported \cup {n \in DOMAIN ledger' : n >= again}
     \/ unreported' = DOMAIN ledger'
  /\ \A n \in DOMAIN ledger' : ledger'[n] = ledger[n]

Report == unreported' = {} /\ UNCHANGED ledger

Next == Hear \/ HearAgain \/ Report

Spec == Init /\ [][Next]_vars
=============================================================================
