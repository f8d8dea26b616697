---------------------------- MODULE Reports_proofs ----------------------------
(***************************************************************************)
(* What the client tells the console, each part for any constants: it never *)
(* asks for keyframes in a storm, never falls silent, the send times it    *)
(* unwraps and the queue delay it draws from them stay true, its record of *)
(* arrivals implements the ledger, the feedback packets say what is in it, *)
(* and the loss it reports is what is missing.                             *)
(***************************************************************************)
EXTENDS MCReports, SequenceTheorems, FiniteSetTheorems, WellFoundedInduction, TLAPS

\* The ages the cooldown works on.
AgesOK == asked \in Governor!Ages(StormCooldown) /\ requests \in SUBSET (0 .. StormWindow)

\* No request is younger than last_keyframe_request says.
LastIsNewest == \A age \in requests : asked # Never /\ age >= asked

\* A full window holds one request and others older by StormCooldown.
Spaced ==
    Cardinality(Governor!InWindow) > StormThreshold =>
        \E newest \in Nat :
            /\ asked # Never /\ newest >= asked
            /\ \A age \in Governor!InWindow : age = newest \/ age >= newest + StormCooldown

StormInv ==
    /\ AgesOK /\ LastIsNewest /\ Spaced
    /\ Cardinality(Governor!InWindow) <= StormThreshold + 1

-----------------------------------------------------------------------------
\* The window counted with this module's Cardinality, which the theorems speak of.
LEMMA CountedHere ==
    /\ \A S : Governor!Cardinality(S) = Cardinality(S)
    /\ NoKeyframeStorm <=> Cardinality(Governor!InWindow) <= StormThreshold + 1
    /\ Governor!RequiredCooldown
         = IF Cardinality(Governor!InWindow) >= StormThreshold THEN StormCooldown ELSE Cooldown
<1>1. \A S : Governor!Cardinality(S) = Cardinality(S)
  BY Zenon DEF Governor!Cardinality, Cardinality
<1> QED BY <1>1 DEF NoKeyframeStorm, Governor!NoKeyframeStorm, Governor!RequiredCooldown

LEMMA Bounds ==
    /\ StormWindow \in Nat /\ StormThreshold \in Nat /\ StormThreshold > 0
    /\ StormCooldown \in Nat /\ 2 * StormCooldown >= StormWindow
    /\ Never \notin Nat
  BY GovernorAssumption, StormAssumption, NeverAssumption

LEMMA WindowFinite ==
  ASSUME NEW S \in SUBSET (0 .. StormWindow)
  PROVE  IsFiniteSet(S) /\ Cardinality(S) \in Nat
<1>1. S \in SUBSET Nat /\ \A s \in S : s <= StormWindow
  BY Bounds
<1>2. IsFiniteSet(S)
  BY <1>1, Bounds, FS_BoundedSetOfNaturals
<1> QED BY <1>2, FS_CardinalityType

LEMMA InitStorm == Governor!Init => StormInv
<1> SUFFICES ASSUME Governor!Init PROVE StormInv
  OBVIOUS
<1>1. Governor!InWindow = {} /\ asked = Never /\ requests = {}
  BY DEF Governor!Init, Governor!InWindow
<1>2. Cardinality(Governor!InWindow) = 0
  BY <1>1, FS_EmptySet
<1> QED BY <1>1, <1>2, Bounds DEF StormInv, AgesOK, Governor!Ages, LastIsNewest, Spaced

\* No request passes the cooldown while the window is full.
LEMMA FullWindowRefuses ==
  ASSUME StormInv, Governor!MayRequest
  PROVE  /\ Cardinality(Governor!InWindow) <= StormThreshold
         /\ Cardinality(Governor!InWindow) = StormThreshold => \A age \in Governor!InWindow : age >= StormCooldown
<1>1. Governor!InWindow \in SUBSET (0 .. StormWindow) /\ Governor!InWindow \subseteq requests
  BY DEF StormInv, AgesOK, Governor!InWindow
<1>2. Cardinality(Governor!InWindow) \in Nat
  BY <1>1, WindowFinite
<1>3. Cardinality(Governor!InWindow) >= StormThreshold => asked = Never \/ asked >= StormCooldown
  BY <1>2, Bounds, CountedHere DEF Governor!MayRequest, Governor!Elapsed
<1>4. ~ (Cardinality(Governor!InWindow) > StormThreshold)
  <2> SUFFICES ASSUME Cardinality(Governor!InWindow) > StormThreshold PROVE FALSE
    OBVIOUS
  <2>1. PICK newest \in Nat :
          /\ asked # Never /\ newest >= asked
          /\ \A age \in Governor!InWindow : age = newest \/ age >= newest + StormCooldown
    BY DEF StormInv, Spaced
  <2>2. newest >= StormCooldown
    BY <1>2, <1>3, <2>1, Bounds DEF StormInv, AgesOK, Governor!Ages
  <2>3. \A age \in Governor!InWindow : age = newest
    BY <2>1, <2>2, <1>1, Bounds DEF Governor!InWindow
  <2>4. Governor!InWindow \subseteq {newest}
    BY <2>3
  <2>5. Cardinality(Governor!InWindow) <= 1
    <3>1. IsFiniteSet({newest}) /\ Cardinality({newest}) = 1
      BY FS_Singleton, Zenon
    <3>2. Governor!InWindow \in SUBSET {newest}
      BY <2>4
    <3> QED BY <3>1, <3>2, FS_Subset
  <2> QED BY <2>5, <1>2, Bounds
<1> QED BY <1>1, <1>2, <1>3, <1>4, Bounds DEF StormInv, LastIsNewest, AgesOK, Governor!Ages

LEMMA RequestKeepsStorm ==
  ASSUME StormInv, NEW demanded \in BOOLEAN, Governor!RequestTurn(demanded)
  PROVE  StormInv'
<1>1. Governor!InWindow \in SUBSET (0 .. StormWindow) /\ Governor!InWindow \subseteq requests
  BY DEF StormInv, AgesOK, Governor!InWindow
<1>2. IsFiniteSet(Governor!InWindow) /\ Cardinality(Governor!InWindow) \in Nat
  BY <1>1, WindowFinite
<1>3. CASE demanded /\ Governor!MayRequest
  <2>1. requests' = Governor!InWindow \cup {0} /\ asked' = 0
    BY <1>3 DEF Governor!RequestTurn
  <2>2. \A age \in Governor!InWindow' : age \in Governor!InWindow \cup {0}
    BY <2>1 DEF Governor!InWindow
  <2>3. Governor!InWindow' \in SUBSET (Governor!InWindow \cup {0})
    BY <2>2
  <2>4. IsFiniteSet(Governor!InWindow \cup {0}) /\ Cardinality(Governor!InWindow \cup {0}) \in Nat
        /\ Cardinality(Governor!InWindow \cup {0}) <= Cardinality(Governor!InWindow) + 1
    <3>1. /\ IsFiniteSet(Governor!InWindow \cup {0})
          /\ Cardinality(Governor!InWindow \cup {0})
               = IF 0 \in Governor!InWindow THEN Cardinality(Governor!InWindow) ELSE Cardinality(Governor!InWindow) + 1
      BY <1>2, FS_AddElement
    <3> QED BY <1>2, <3>1
  <2>5. Cardinality(Governor!InWindow') \in Nat /\ Cardinality(Governor!InWindow') <= Cardinality(Governor!InWindow) + 1
    BY <2>3, <2>4, <1>2, FS_Subset, FS_CardinalityType
  <2>6. /\ Cardinality(Governor!InWindow) <= StormThreshold
        /\ Cardinality(Governor!InWindow) = StormThreshold => \A age \in Governor!InWindow : age >= StormCooldown
    BY <1>3, FullWindowRefuses
  <2>7. (Cardinality(Governor!InWindow) <= StormThreshold + 1)'
    BY <1>2, <2>5, <2>6, Bounds
  <2>8. Spaced'
    <3>1. SUFFICES ASSUME Cardinality(Governor!InWindow') > StormThreshold
                   PROVE  \A age \in Governor!InWindow' : age = 0 \/ age >= 0 + StormCooldown
      BY <2>1, Bounds DEF Spaced
    <3>2. Cardinality(Governor!InWindow) = StormThreshold
      BY <3>1, <1>2, <2>5, <2>6, Bounds
    <3> QED BY <3>2, <2>2, <2>6, Bounds
  <2>9. AgesOK' /\ LastIsNewest'
    BY <1>1, <2>1, Bounds DEF AgesOK, Governor!Ages, LastIsNewest
  <2> QED BY <2>7, <2>8, <2>9 DEF StormInv
<1>4. CASE ~ (demanded /\ Governor!MayRequest)
  <2>1. asked' = asked /\ (requests' = requests \/ requests' = Governor!InWindow)
    BY <1>4 DEF Governor!RequestTurn
  <2>2. Governor!InWindow' = Governor!InWindow
    BY <2>1 DEF Governor!InWindow
  <2>3. AgesOK' /\ LastIsNewest'
    BY <1>1, <2>1 DEF StormInv, AgesOK, LastIsNewest
  <2> QED BY <2>1, <2>2, <2>3 DEF StormInv, Spaced
<1> QED BY <1>3, <1>4

LEMMA TickKeepsStorm ==
  ASSUME StormInv, Governor!Tick
  PROVE  StormInv'
<1>1. Governor!InWindow \in SUBSET (0 .. StormWindow) /\ Governor!InWindow \subseteq requests
  BY DEF StormInv, AgesOK, Governor!InWindow
<1>2. IsFiniteSet(Governor!InWindow) /\ Cardinality(Governor!InWindow) \in Nat
  BY <1>1, WindowFinite
<1>3. \A age \in Governor!InWindow : age \in Nat /\ age < StormWindow /\ Governor!Older(age, StormWindow) = age + 1
  BY <1>1, Bounds DEF Governor!InWindow, Governor!Older
<1>4. \A older \in requests' : \E age \in Governor!InWindow : older = age + 1
  BY <1>3 DEF Governor!Tick
<1>5. /\ asked = Never => asked' = Never
      /\ asked # Never => asked \in Nat /\ asked' \in 0 .. StormCooldown /\ asked' <= asked + 1
  BY Bounds DEF StormInv, AgesOK, Governor!Ages, Governor!Tick, Governor!Older
<1>6. AgesOK'
  <2>1. requests' \in SUBSET (0 .. StormWindow)
    BY <1>3, <1>4, Bounds
  <2>2. asked' \in Governor!Ages(StormCooldown)
    BY <1>5 DEF Governor!Ages
  <2> QED BY <2>1, <2>2 DEF AgesOK
<1>7. LastIsNewest'
  <2> SUFFICES ASSUME NEW older \in requests' PROVE asked' # Never /\ older >= asked'
    BY DEF LastIsNewest
  <2>1. PICK age \in Governor!InWindow : older = age + 1
    BY <1>4
  <2>2. asked # Never /\ age >= asked
    BY <1>1 DEF StormInv, LastIsNewest
  <2> QED BY <2>1, <2>2, <1>3, <1>5, Bounds
<1>8. \A older \in Governor!InWindow' : older - 1 \in Governor!InWindow /\ older \in Nat
  <2> SUFFICES ASSUME NEW older \in Governor!InWindow' PROVE older - 1 \in Governor!InWindow /\ older \in Nat
    OBVIOUS
  <2>1. PICK age \in Governor!InWindow : older = age + 1
    BY <1>4 DEF Governor!InWindow
  <2> QED BY <2>1, <1>3
<1>9. Cardinality(Governor!InWindow') \in Nat /\ Cardinality(Governor!InWindow') <= Cardinality(Governor!InWindow)
  <2> DEFINE younger == [older \in Governor!InWindow' |-> older - 1]
  <2>1. younger \in Injection(Governor!InWindow', Governor!InWindow)
    <3>1. younger \in [Governor!InWindow' -> Governor!InWindow]
      BY <1>8
    <3>2. \A x, y \in Governor!InWindow' : younger[x] = younger[y] => x = y
      BY <1>8
    <3> QED BY <3>1, <3>2 DEF Injection, IsInjective
  <2> HIDE DEF younger
  <2>2. IsFiniteSet(Governor!InWindow') /\ Cardinality(Governor!InWindow') <= Cardinality(Governor!InWindow)
    BY <1>2, <2>1, FS_Injection
  <2> QED BY <2>2, FS_CardinalityType
<1>10. (Cardinality(Governor!InWindow) <= StormThreshold + 1)'
  BY <1>2, <1>9, Bounds DEF StormInv
<1>11. Spaced'
  <2> SUFFICES ASSUME (Cardinality(Governor!InWindow) > StormThreshold)'
               PROVE  \E newest \in Nat :
                         /\ asked' # Never /\ newest >= asked'
                         /\ \A age \in Governor!InWindow' : age = newest \/ age >= newest + StormCooldown
    BY DEF Spaced
  <2>1. Cardinality(Governor!InWindow) > StormThreshold
    BY <1>2, <1>9, Bounds
  <2>2. PICK newest \in Nat :
          /\ asked # Never /\ newest >= asked
          /\ \A age \in Governor!InWindow : age = newest \/ age >= newest + StormCooldown
    BY <2>1 DEF StormInv, Spaced
  <2>3. \A age \in Governor!InWindow' : age = newest + 1 \/ age >= (newest + 1) + StormCooldown
    BY <1>8, <2>2, Bounds
  <2>4. asked' # Never /\ newest + 1 >= asked' /\ newest + 1 \in Nat
    BY <1>5, <2>2, Bounds
  <2> QED BY <2>3, <2>4
<1> QED BY <1>6, <1>7, <1>10, <1>11 DEF StormInv

LEMMA StepKeepsStorm == StormInv /\ [Governor!Next]_(Governor!vars) => StormInv'
<1> SUFFICES ASSUME StormInv, [Governor!Next]_(Governor!vars) PROVE StormInv'
  OBVIOUS
<1>1. ASSUME NEW input \in Governor!Inputs, Governor!Turn(input) PROVE StormInv'
  <2>1. PICK demanded \in BOOLEAN : Governor!RequestTurn(demanded)
    BY <1>1 DEF Governor!Turn, Governor!Demand, Governor!Inputs, Governor!WatchdogDue, Governor!WatchdogOn
  <2> QED BY <2>1, RequestKeepsStorm
<1>2. CASE Governor!Tick
  BY <1>2, TickKeepsStorm
<1>3. CASE UNCHANGED <<asked, requests>>
  BY <1>3 DEF StormInv, AgesOK, LastIsNewest, Spaced, Governor!InWindow
<1> QED BY <1>1, <1>2, <1>3 DEF Governor!Next, Governor!Connect, Governor!Disconnect, Governor!vars

-----------------------------------------------------------------------------
\* No window of KEYFRAME_STORM_WINDOW ever holds more than one governed request
\* beyond KEYFRAME_STORM_THRESHOLD, whatever is demanded: request_keyframe.
THEOREM NoSwamping == Governor!Spec => []NoKeyframeStorm
<1>1. StormInv => NoKeyframeStorm
  BY CountedHere DEF StormInv
<1> QED BY InitStorm, StepKeepsStorm, <1>1, PTL DEF Governor!Spec

-----------------------------------------------------------------------------
LEMMA OlderType ==
  ASSUME NEW limit \in Nat, NEW age \in Governor!Ages(limit)
  PROVE  Governor!Older(age, limit) \in Governor!Ages(limit)
  BY Bounds DEF Governor!Older, Governor!Ages

LEMMA TurnKeepsTypes ==
  ASSUME Governor!TypeOK, NEW input \in Governor!Inputs, Governor!Turn(input)
  PROVE  Governor!TypeOK'
<1> DEFINE received == link.received \/ input # "nothing"
           drops    == flush.drops + IF input = "damage" THEN 1 ELSE 0
           demanded == Governor!Demand(input) \/ Governor!WatchdogDue(received)
<1>1. /\ input = "damage" => losses.drops < MaxDrops
      /\ losses' = [losses EXCEPT !.drops = IF input = "damage" THEN @ + 1 ELSE @]
      /\ link' = [link EXCEPT !.received = received, !.waiting = Governor!StillWaiting(input)]
      /\ Governor!WatchdogTurn(received)
      /\ Governor!RequestTurn(demanded)
      /\ periodic' = IF Governor!PeriodicDue THEN 0 ELSE periodic
      /\ Governor!FlushTurn(drops)
      /\ said' = [asked    |-> demanded /\ Governor!MayRequest,
                  periodic |-> Governor!PeriodicDue,
                  flush    |-> Governor!FlushDue(drops)]
  BY DEF Governor!Turn
<1>2. received \in BOOLEAN /\ drops \in Nat /\ demanded \in BOOLEAN
  BY DEF Governor!TypeOK, Governor!Demand, Governor!WatchdogDue, Governor!WatchdogOn
<1> HIDE DEF received, drops, demanded
<1>3. losses' \in [drops : 0 .. MaxDrops, disconnects : 0 .. MaxDisconnects]
  BY <1>1, GovernorAssumption DEF Governor!TypeOK
<1>4. link' \in [connected : BOOLEAN, received : BOOLEAN, waiting : BOOLEAN]
  <2>1. Governor!StillWaiting(input) \in BOOLEAN
    BY DEF Governor!StillWaiting, Governor!TypeOK
  <2> QED BY <1>1, <1>2, <2>1 DEF Governor!TypeOK
<1>5. watchdog' \in [started : Governor!Ages(Grace), asked : Governor!Ages(InitialInterval)]
  BY <1>1, GovernorAssumption DEF Governor!TypeOK, Governor!WatchdogTurn, Governor!Started, Governor!Ages
<1>6. asked' \in Governor!Ages(StormCooldown) /\ requests' \in SUBSET (0 .. StormWindow)
  BY <1>1, GovernorAssumption DEF Governor!TypeOK, Governor!RequestTurn, Governor!InWindow, Governor!Ages
<1>7. periodic' \in Governor!Ages(Periodic)
  BY <1>1, GovernorAssumption DEF Governor!TypeOK, Governor!Ages
<1>8. flush' \in [since : Governor!Ages(FlushSustain), last : Governor!Ages(FlushInterval), drops : Nat]
  <2>1. flush.since \in Governor!Ages(FlushSustain) /\ flush.last \in Governor!Ages(FlushInterval)
    BY DEF Governor!TypeOK
  <2>2. /\ Never \in Governor!Ages(FlushSustain) /\ Governor!Started(flush.since) \in Governor!Ages(FlushSustain)
        /\ 0 \in Governor!Ages(FlushInterval)
    BY <2>1, GovernorAssumption DEF Governor!Started, Governor!Ages
  <2> QED BY <1>1, <1>2, <2>1, <2>2 DEF Governor!TypeOK, Governor!FlushTurn
<1>9. said' \in Governor!Sent
  <2>1. Governor!MayRequest \in BOOLEAN /\ Governor!PeriodicDue \in BOOLEAN /\ Governor!FlushDue(drops) \in BOOLEAN
    BY GovernorAssumption DEF Governor!MayRequest, Governor!PeriodicDue, Governor!FlushDue, Governor!Elapsed, Governor!TypeOK
  <2> QED BY <1>1, <1>2, <2>1 DEF Governor!Sent
<1> QED BY <1>3, <1>4, <1>5, <1>6, <1>7, <1>8, <1>9 DEF Governor!TypeOK

LEMMA TickKeepsTypes ==
  ASSUME Governor!TypeOK, Governor!Tick
  PROVE  Governor!TypeOK'
<1>1. {StormCooldown, StormWindow, Grace, InitialInterval, Periodic, FlushSustain, FlushInterval} \subseteq Nat
  BY GovernorAssumption
<1>2. asked' \in Governor!Ages(StormCooldown) /\ periodic' \in Governor!Ages(Periodic)
  BY <1>1, OlderType DEF Governor!TypeOK, Governor!Tick
<1>3. requests' \in SUBSET (0 .. StormWindow)
  <2>1. \A age \in Governor!InWindow : Governor!Older(age, StormWindow) \in 0 .. StormWindow
    BY <1>1, Bounds DEF Governor!TypeOK, Governor!InWindow, Governor!Older
  <2> QED BY <2>1 DEF Governor!Tick
<1>4. watchdog' \in [started : Governor!Ages(Grace), asked : Governor!Ages(InitialInterval)]
  <2>1. watchdog.started \in Governor!Ages(Grace) /\ watchdog.asked \in Governor!Ages(InitialInterval)
    BY DEF Governor!TypeOK
  <2>2. /\ Governor!Older(watchdog.started, Grace) \in Governor!Ages(Grace)
        /\ Governor!Older(watchdog.asked, InitialInterval) \in Governor!Ages(InitialInterval)
    BY <1>1, <2>1, OlderType
  <2> QED BY <2>2 DEF Governor!Tick
<1>5. flush' \in [since : Governor!Ages(FlushSustain), last : Governor!Ages(FlushInterval), drops : Nat]
  <2>1. /\ Governor!Older(flush.since, FlushSustain) \in Governor!Ages(FlushSustain)
        /\ Governor!Older(flush.last, FlushInterval) \in Governor!Ages(FlushInterval)
    BY <1>1, OlderType DEF Governor!TypeOK
  <2> QED BY <2>1 DEF Governor!TypeOK, Governor!Tick
<1>6. said' \in Governor!Sent /\ UNCHANGED <<link, losses>>
  BY DEF Governor!Tick, Governor!Sent, Governor!Nothing
<1> QED BY <1>2, <1>3, <1>4, <1>5, <1>6 DEF Governor!TypeOK

\* Every turn, tick and change of the connection keeps the types; the ages stay
\* within what they are compared with.
THEOREM GovernorTypes == Governor!Spec => []Governor!TypeOK
<1>1. Governor!Init => Governor!TypeOK
  BY GovernorAssumption DEF Governor!Init, Governor!TypeOK, Governor!Ages, Governor!Sent, Governor!Nothing
<1>2. Governor!TypeOK /\ [Governor!Next]_(Governor!vars) => Governor!TypeOK'
  <2> SUFFICES ASSUME Governor!TypeOK, [Governor!Next]_(Governor!vars) PROVE Governor!TypeOK'
    OBVIOUS
  <2>1. ASSUME NEW input \in Governor!Inputs, Governor!Turn(input) PROVE Governor!TypeOK'
    BY <2>1, TurnKeepsTypes
  <2>2. CASE Governor!Tick
    BY <2>2, TickKeepsTypes
  <2>3. CASE Governor!Connect
    BY <2>3 DEF Governor!Connect, Governor!TypeOK
  <2>4. CASE Governor!Disconnect
    <3>1. losses' \in [drops : 0 .. MaxDrops, disconnects : 0 .. MaxDisconnects]
      BY <2>4, GovernorAssumption DEF Governor!Disconnect, Governor!TypeOK
    <3>2. link' \in [connected : BOOLEAN, received : BOOLEAN, waiting : BOOLEAN]
      BY <2>4 DEF Governor!Disconnect, Governor!TypeOK
    <3> QED BY <2>4, <3>1, <3>2 DEF Governor!Disconnect, Governor!TypeOK
  <2>5. CASE UNCHANGED (Governor!vars)
    BY <2>5 DEF Governor!vars, Governor!TypeOK
  <2> QED BY <2>1, <2>2, <2>3, <2>4, <2>5 DEF Governor!Next
<1> QED BY <1>1, <1>2, PTL DEF Governor!Spec

-----------------------------------------------------------------------------
(* The silence of the input path.                                          *)

ClocksOK ==
    /\ a \in BOOLEAN /\ slot \in Input!Frames \cup {NoFrame}
    /\ phase \in 0 .. FrameTicks /\ lag \in 0 .. Stall
    /\ sentAge \in 0 .. Refresh /\ inputAge \in 0 .. KeepAlive
    /\ pulse \in -1 .. Pulse /\ quiet \in Nat
    /\ ready \in BOOLEAN /\ paused \in BOOLEAN /\ ignoreConfirm \in BOOLEAN

\* No report left while it is quiet, so neither clock started anew.
AgesKeepUp ==
    /\ sentAge >= quiet \/ sentAge = Refresh
    /\ inputAge >= quiet \/ inputAge = KeepAlive

\* The overlay has stopped the count, at the latest in the tick after it opened.
QuietOnlyWhenSampled ==
    /\ ~ready \/ ignoreConfirm => quiet = 0
    /\ paused => phase = 1 \/ quiet = 0
    /\ paused => quiet <= Input!QuietBound

SincePass == IF phase = 0 THEN FrameTicks ELSE phase - 1

\* A sample that was taken too early to be reported is followed by another a frame
\* later; one that waits does so for the worker's next turn.
SampledInTime ==
    ~paused => quiet <= Refresh - 1 + (IF slot = NoFrame THEN SincePass ELSE FrameTicks + lag)

QuietInv == ClocksOK /\ AgesKeepUp /\ QuietOnlyWhenSampled /\ SampledInTime

LEMMA Intervals ==
    /\ FrameTicks \in Nat \ {0} /\ Stall \in Nat \ {0} /\ Pulse \in Nat \ {0}
    /\ Floor \in Nat /\ KeepAlive \in Nat /\ Refresh \in Nat \ {0}
    /\ Floor <= KeepAlive /\ KeepAlive <= Refresh /\ NoFrame \notin Input!Frames
  BY IntervalsAssumption DEF Input!Frames

LEMMA QuietBegins == Input!Init => QuietInv
<1> SUFFICES ASSUME Input!Init PROVE QuietInv
  OBVIOUS
<1> USE Intervals
<1>0. /\ a \in BOOLEAN /\ slot = NoFrame /\ phase = 0 /\ lag = 0 /\ pulse = -1 /\ quiet = 0
      /\ sentAge = Refresh /\ inputAge = KeepAlive
      /\ ready = FALSE /\ paused = FALSE /\ ignoreConfirm = FALSE
  BY Zenon DEF Input!Init, Input!None
<1>1. ClocksOK /\ AgesKeepUp
  <2>1. /\ a \in BOOLEAN /\ slot \in Input!Frames \cup {NoFrame}
        /\ ready \in BOOLEAN /\ paused \in BOOLEAN /\ ignoreConfirm \in BOOLEAN
    BY <1>0, Zenon
  <2>2. /\ phase \in 0 .. FrameTicks /\ lag \in 0 .. Stall
        /\ sentAge \in 0 .. Refresh /\ inputAge \in 0 .. KeepAlive
        /\ pulse \in -1 .. Pulse /\ quiet \in Nat
    BY <1>0
  <2> QED BY <1>0, <2>1, <2>2 DEF ClocksOK, AgesKeepUp
<1>2. QuietOnlyWhenSampled /\ SampledInTime
  BY <1>0 DEF QuietOnlyWhenSampled, SampledInTime, SincePass, Input!QuietBound
<1> QED BY <1>1, <1>2 DEF QuietInv

\* A sample fills the slot, unless the button that closed the overlay is still held.
LEMMA SampleFills ==
  ASSUME ClocksOK, NEW view \in BOOLEAN, Input!Sample(view)
  PROVE  /\ slot' \in Input!Frames \cup {NoFrame} /\ ignoreConfirm' \in BOOLEAN
         /\ \/ slot' = slot /\ ignoreConfirm' = ignoreConfirm /\ ignoreConfirm
            \/ slot' # NoFrame /\ ~ignoreConfirm'
<1>1. Input!FrameWith(view) \in Input!Frames
  BY DEF ClocksOK, Input!FrameWith, Input!Frames
<1>2. CASE Input!Suppressed
  BY <1>2 DEF Input!Sample, Input!Suppressed, ClocksOK
<1>3. CASE ~Input!Suppressed
  BY <1>1, <1>3, Intervals DEF Input!Sample, ClocksOK
<1> QED BY <1>2, <1>3

LEMMA PassKeepsQuiet ==
  ASSUME QuietInv, Input!Pass
  PROVE  QuietInv'
<1> USE Intervals
<1>1. /\ phase = 0 /\ phase' = 1
      /\ UNCHANGED <<a, back, pulse, lastSent, sentAge, lastGamepad, inputAge, lag, console,
                     pulses, ready, quiet>>
  BY DEF Input!Pass, Input!user, Input!worker
<1>2. ClocksOK /\ AgesKeepUp /\ QuietOnlyWhenSampled /\ SampledInTime
  BY DEF QuietInv
<1>3. ClocksOK' /\ AgesKeepUp' /\ QuietOnlyWhenSampled' /\ SampledInTime'
  <2>1. ASSUME NEW view \in BOOLEAN, Input!Sample(view), ~paused, UNCHANGED paused
        PROVE  ClocksOK' /\ AgesKeepUp' /\ QuietOnlyWhenSampled' /\ SampledInTime'
    <3>1. /\ slot' \in Input!Frames \cup {NoFrame} /\ ignoreConfirm' \in BOOLEAN
          /\ \/ slot' = slot /\ ignoreConfirm' = ignoreConfirm /\ ignoreConfirm
             \/ slot' # NoFrame /\ ~ignoreConfirm'
      BY <1>2, <2>1, SampleFills
    <3>2. ClocksOK' /\ AgesKeepUp' /\ QuietOnlyWhenSampled'
      BY <1>1, <1>2, <2>1, <3>1 DEF ClocksOK, AgesKeepUp, QuietOnlyWhenSampled
    <3>3. SampledInTime'
      BY <1>1, <1>2, <2>1, <3>1 DEF ClocksOK, QuietOnlyWhenSampled, SampledInTime, SincePass
    <3> QED BY <3>2, <3>3
  <2>2. CASE ~paused /\ Input!PassOpensOverlay
    <3>1. ClocksOK' /\ AgesKeepUp' /\ SampledInTime'
      BY <1>1, <1>2, <2>2 DEF Input!PassOpensOverlay, ClocksOK, AgesKeepUp, SampledInTime
    <3>2. QuietOnlyWhenSampled'
      BY <1>1, <1>2, <2>2 DEF Input!PassOpensOverlay, ClocksOK, SampledInTime, SincePass,
         QuietOnlyWhenSampled, Input!QuietBound
    <3> QED BY <3>1, <3>2
  <2>3. CASE paused /\ UNCHANGED <<paused, relay, slot, ignoreConfirm>>
    BY <1>1, <1>2, <2>3 DEF ClocksOK, AgesKeepUp, QuietOnlyWhenSampled, SampledInTime, Input!QuietBound
  <2>4. CASE ~paused /\ Input!PassHeld
    <3>1. (relay > 0) \in BOOLEAN
      OBVIOUS
    <3> QED BY <2>1, <2>4, <3>1, Zenon DEF Input!PassHeld
  <2>5. CASE ~paused /\ Input!PassReleased
    <3>1. (Input!Short \/ relay > 0) \in BOOLEAN
      BY DEF Input!Short
    <3> QED BY <2>1, <2>5, <3>1 DEF Input!PassReleased
  <2>6. CASE ~paused /\ Input!PassPlain
    <3>1. (relay > 0) \in BOOLEAN
      OBVIOUS
    <3> QED BY <2>1, <2>6, <3>1, Zenon DEF Input!PassPlain
  <2> QED BY <2>2, <2>3, <2>4, <2>5, <2>6 DEF Input!Pass
<1> QED BY <1>3 DEF QuietInv

LEMMA TickKeepsQuiet ==
  ASSUME QuietInv, Input!Tick
  PROVE  QuietInv'
<1> USE Intervals
<1>1. /\ phase # 0 /\ lag < Stall /\ lag' = lag + 1
      /\ phase' = IF phase = FrameTicks THEN 0 ELSE phase + 1
      /\ pulse' = IF pulse > 0 THEN pulse - 1 ELSE pulse
      /\ UNCHANGED <<a, paused, ignoreConfirm, slot, ready>>
  BY DEF Input!Tick, Input!user
<1>2. ClocksOK /\ AgesKeepUp /\ QuietOnlyWhenSampled /\ SampledInTime
  BY DEF QuietInv
<1>3. /\ sentAge' = (IF sentAge = Refresh THEN Refresh ELSE sentAge + 1)
      /\ inputAge' = (IF inputAge = KeepAlive THEN KeepAlive ELSE inputAge + 1)
  BY <1>2 DEF Input!Tick, Input!AtMost, ClocksOK
<1>4. /\ quiet' \in Nat /\ quiet' <= quiet + 1
      /\ ~Input!Sampling => quiet' = 0
  BY <1>2 DEF Input!Tick, Input!AtMost, Input!QuietBound, ClocksOK
<1>5. ClocksOK'
  BY <1>1, <1>2, <1>3, <1>4 DEF ClocksOK
<1>6. AgesKeepUp'
  BY <1>2, <1>3, <1>4 DEF ClocksOK, AgesKeepUp
<1>7. QuietOnlyWhenSampled'
  BY <1>1, <1>2, <1>4 DEF ClocksOK, QuietOnlyWhenSampled, Input!Sampling, Input!QuietBound
<1>8. SampledInTime'
  BY <1>1, <1>2, <1>4 DEF ClocksOK, SampledInTime, SincePass
<1> QED BY <1>5, <1>6, <1>7, <1>8 DEF QuietInv

\* After Refresh without a report the next turn that finds a sample reports.
LEMMA LateSampleIsReported ==
  ASSUME QuietInv, slot # NoFrame, quiet >= Refresh
  PROVE  Input!Attempts
<1> USE Intervals
<1>1. ClocksOK /\ AgesKeepUp /\ QuietOnlyWhenSampled
  BY DEF QuietInv
<1>2. ready /\ sentAge = Refresh /\ inputAge = KeepAlive
  BY <1>1 DEF ClocksOK, AgesKeepUp, QuietOnlyWhenSampled
<1>3. Input!Releases \/ Input!Presses \/ Input!Plain
  <2>1. Input!Active \in -1 .. Pulse
    BY <1>1 DEF ClocksOK, Input!Active
  <2> QED BY <2>1 DEF Input!Releases, Input!Presses, Input!Plain, Input!None
<1>4. ~Input!UnchangedAndFresh
  BY <1>2 DEF Input!UnchangedAndFresh
<1>5. ~Input!Throttled
  BY <1>2 DEF Input!Throttled
<1> QED BY <1>2, <1>3, <1>4, <1>5 DEF Input!Attempts

LEMMA TurnKeepsQuiet ==
  ASSUME QuietInv, Input!WorkerTurn
  PROVE  QuietInv'
<1> USE Intervals
<1>1. ClocksOK /\ AgesKeepUp /\ QuietOnlyWhenSampled /\ SampledInTime
  BY DEF QuietInv
<1>2. /\ slot' = NoFrame /\ lag' = 0
      /\ UNCHANGED <<a, paused, ignoreConfirm, phase, ready>>
      /\ pulse' = IF Input!Releases THEN -1 ELSE Input!Active
  BY DEF Input!WorkerTurn, Input!TurnSilent, Input!TurnReports, Input!Turn, Input!user, Input!shell,
     Input!None
<1>3. pulse' \in -1 .. Pulse
  BY <1>1, <1>2 DEF ClocksOK, Input!Active
<1>4. CASE Input!TurnSilent
  <2>1. UNCHANGED <<sentAge, inputAge, quiet>> /\ ~Input!Attempts
    BY <1>4 DEF Input!TurnSilent
  <2>2. slot = NoFrame \/ quiet < Refresh
    BY <1>1, <2>1, LateSampleIsReported DEF ClocksOK
  <2>3. ClocksOK' /\ AgesKeepUp'
    BY <1>1, <1>2, <1>3, <2>1 DEF ClocksOK, AgesKeepUp
  <2>4. QuietOnlyWhenSampled'
    BY <1>1, <1>2, <2>1 DEF QuietOnlyWhenSampled, Input!QuietBound
  <2>5. SampledInTime'
    BY <1>1, <1>2, <2>1, <2>2 DEF ClocksOK, SampledInTime, SincePass
  <2> QED BY <2>3, <2>4, <2>5 DEF QuietInv
<1>5. ASSUME NEW outcome \in Input!Outcomes, Input!TurnReports(outcome) PROVE QuietInv'
  <2>1. quiet' = 0 /\ inputAge' = 0 /\ (sentAge' = sentAge \/ sentAge' = 0)
    BY <1>5 DEF Input!TurnReports
  <2>2. ClocksOK' /\ AgesKeepUp'
    BY <1>1, <1>2, <1>3, <2>1 DEF ClocksOK, AgesKeepUp
  <2>3. QuietOnlyWhenSampled' /\ SampledInTime'
    BY <1>1, <1>2, <2>1 DEF ClocksOK, QuietOnlyWhenSampled, Input!QuietBound, SampledInTime, SincePass
  <2> QED BY <2>2, <2>3 DEF QuietInv
<1> QED BY <1>4, <1>5 DEF Input!WorkerTurn

LEMMA QuietStep == QuietInv /\ [Input!Next]_(Input!vars) => QuietInv'
<1> USE Intervals DEF ClocksOK, AgesKeepUp, QuietOnlyWhenSampled, SampledInTime, SincePass, QuietInv,
    Input!QuietBound, Input!user, Input!shell, Input!worker
<1> SUFFICES ASSUME QuietInv, [Input!Next]_(Input!vars) PROVE QuietInv'
  OBVIOUS
<1>1. CASE Input!PressA
  BY <1>1 DEF Input!PressA
<1>2. CASE Input!PressBack
  BY <1>2 DEF Input!PressBack
<1>3. CASE Input!Resume \/ Input!PressGuide
  <2>1. /\ paused /\ phase = 0
        /\ paused' = FALSE /\ ignoreConfirm' \in BOOLEAN
        /\ UNCHANGED <<a, slot, phase, lag, sentAge, inputAge, pulse, quiet, ready>>
    BY <1>3 DEF Input!Resume, Input!PressGuide
  <2>2. quiet = 0
    BY <2>1
  <2>3. ClocksOK' /\ AgesKeepUp'
    BY <2>1
  <2>4. QuietOnlyWhenSampled' /\ SampledInTime'
    BY <2>1, <2>2
  <2> QED BY <2>3, <2>4
<1>4. CASE Input!SampleBetween
  <2>1. /\ phase > 1 /\ ~paused
        /\ UNCHANGED <<a, paused, phase, pulse, sentAge, inputAge, lag, ready, quiet>>
    BY <1>4 DEF Input!SampleBetween
  <2>2. /\ slot' \in Input!Frames \cup {NoFrame} /\ ignoreConfirm' \in BOOLEAN
        /\ \/ slot' = slot /\ ignoreConfirm' = ignoreConfirm /\ ignoreConfirm
           \/ slot' # NoFrame /\ ~ignoreConfirm'
    BY <1>4, SampleFills DEF Input!SampleBetween
  <2> QED BY <2>1, <2>2
<1>5. CASE Input!ChannelOpens
  BY <1>5 DEF Input!ChannelOpens
<1>6. CASE UNCHANGED Input!vars
  BY <1>6 DEF Input!vars
<1> QED BY <1>1, <1>2, <1>3, <1>4, <1>5, <1>6, PassKeepsQuiet, TurnKeepsQuiet, TickKeepsQuiet
    DEF Input!Next

\* While the stream is shown the console never goes without a report for longer than
\* Refresh, a frame and the worker's turn, whatever the network refuses or loses:
\* input_throttled and the filter of unchanged samples never add up to more.
THEOREM NeverSilent == Input!Spec => []KeepsReporting
<1>1. QuietInv => KeepsReporting
  BY Intervals DEF QuietInv, ClocksOK, QuietOnlyWhenSampled, SampledInTime, SincePass, KeepsReporting,
     Input!KeepsReporting, Input!QuietBound
<1> QED BY <1>1, QuietBegins, QuietStep, PTL DEF Input!Spec

-----------------------------------------------------------------------------
(* The send time on the sender's clock.                                    *)

Anchored == unwrapper.anchor # Clock!Unset

ClockTypes ==
    /\ sent \in Nat /\ packets \in Nat /\ steady \in BOOLEAN
    /\ began \in Nat /\ stamped \in Nat /\ stamped <= sent /\ Clock!Offset \in Int
    /\ unwrapper \in [started : BOOLEAN, anchor : Int, high : Int]
    /\ switch \in [active : BOOLEAN, ast : Int, media : Int]

\* Unwrapper and change of clocks begin with the first annotated packet.
BegunTogether ==
    /\ unwrapper.started <=> switch.active
    /\ switch.active => packets > 0

\* The anchor is the stamp of the last annotated packet, whole turns below its true time.
OnTheLattice ==
    switch.active /\ Anchored =>
        /\ unwrapper.anchor = Clock!Raw(stamped)
        /\ (stamped + AstLead - unwrapper.high) % Wrap = 0

\* No gap was long enough to lose the anchor, and each moved both clocks alike.
InStep ==
    steady /\ switch.active =>
        /\ Anchored
        /\ switch.media + (unwrapper.high - switch.ast) - stamped = Clock!Offset

ClockInv == ClockTypes /\ BegunTogether /\ OnTheLattice /\ InStep

LEMMA Turns ==
    /\ Wrap \in Nat \ {0} /\ Ambig \in Nat /\ Ambig < Wrap
    /\ Group \in Nat /\ AstLead \in Nat /\ SendGaps \subseteq Nat
    /\ MediaTurn \in Nat \ {0} /\ MediaLead \in Nat
  BY TurnAssumption

\* What the media clock shows, and the offset it gives a stream that begins.
LEMMA MediaType ==
  ASSUME NEW time \in Nat
  PROVE  Clock!Media(time) \in Nat /\ Clock!Media(time) - time \in Int
<1> DEFINE m == (time + MediaLead) % MediaTurn
<1>1. time + MediaLead \in Int /\ MediaTurn \in Int /\ MediaTurn > 0
  BY Turns
<1>2. m \in Nat
  BY <1>1
<1> HIDE DEF m
<1>3. Clock!Media(time) = m
  BY DEF m, Clock!Media
<1> QED BY <1>2, <1>3

\* Less than a turn is no turn.
LEMMA PartOfATurn ==
  ASSUME NEW turns \in Int, Wrap * turns < Wrap, Wrap * turns > -Wrap
  PROVE  turns = 0
<1> USE Turns
<1>1. CASE turns >= 1
  <2>1. Wrap * turns >= Wrap
    BY <1>1
  <2> QED BY <2>1
<1>2. CASE turns <= -1
  <2>1. Wrap * turns <= -Wrap
    BY <1>2
  <2> QED BY <2>1
<1> QED BY <1>1, <1>2

\* What is left when the whole turns are taken away.
LEMMA WithoutTurns ==
  ASSUME NEW x \in Int
  PROVE  x % Wrap \in 0 .. Wrap - 1 /\ \E turns \in Int : x = Wrap * turns + (x % Wrap)
<1>1. x % Wrap \in 0 .. Wrap - 1
  BY Turns
<1>2. x \div Wrap \in Int
  BY Turns
<1>3. x = Wrap * (x \div Wrap) + (x % Wrap)
  BY Turns
<1> QED BY <1>1, <1>2, <1>3

LEMMA WholeTurns ==
  ASSUME NEW turns \in Int
  PROVE  (Wrap * turns) % Wrap = 0
<1> DEFINE x == Wrap * turns
<1>1. x \in Int
  BY Turns
<1> HIDE DEF x
<1>2. PICK whole \in Int : x = Wrap * whole + (x % Wrap)
  BY <1>1, WithoutTurns
<1>3. x % Wrap \in 0 .. Wrap - 1
  BY <1>1, WithoutTurns
<1>4. Wrap * (turns - whole) = x % Wrap
  BY <1>2, <1>3, Turns DEF x
<1>5. turns - whole = 0
  <2> DEFINE rest == turns - whole
  <2>1. rest \in Int /\ Wrap * rest < Wrap /\ Wrap * rest > -Wrap
    BY <1>3, <1>4, Turns
  <2> HIDE DEF rest
  <2>2. rest = 0
    BY <2>1, PartOfATurn
  <2> QED BY <2>2 DEF rest
<1> QED BY <1>4, <1>5, Turns DEF x

\* The step the unwrapper sees is the gap, but for whole turns; one of less than half a
\* turn it sees as it is.
LEMMA ForwardIsGap ==
  ASSUME NEW time \in Nat, NEW gap \in Nat, unwrapper.anchor = Clock!Raw(time)
  PROVE  /\ Clock!Forward(Clock!Raw(time + gap)) \in 0 .. Wrap - 1
         /\ \E turns \in Int : Clock!Forward(Clock!Raw(time + gap)) = gap + Wrap * turns
         /\ gap < Wrap => Clock!Forward(Clock!Raw(time + gap)) = gap
<1> DEFINE before == (time + AstLead) % Wrap
           after  == (time + gap + AstLead) % Wrap
           step   == (after - before) % Wrap
<1> USE Turns
<1>0. Clock!Forward(Clock!Raw(time + gap)) = step
  BY DEF Clock!Forward, Clock!Raw
<1>a. time + AstLead \in Int /\ time + gap + AstLead \in Int
  OBVIOUS
<1>1. PICK k \in Int : time + AstLead = Wrap * k + before
  BY <1>a, WithoutTurns, Zenon
<1>2. PICK l \in Int : time + gap + AstLead = Wrap * l + after
  BY <1>a, WithoutTurns, Zenon
<1>3. before \in 0 .. Wrap - 1 /\ after \in 0 .. Wrap - 1
  BY <1>a, WithoutTurns, Zenon
<1>4. after - before \in Int
  BY <1>3
<1>5. step \in 0 .. Wrap - 1
  BY <1>4, WithoutTurns, Zenon
<1>6. PICK m \in Int : after - before = Wrap * m + step
  BY <1>4, WithoutTurns, Zenon
<1> HIDE DEF before, after, step
<1>7. step = gap + Wrap * (k - l - m)
  <2>1. after - before = gap + Wrap * k - Wrap * l
    BY <1>1, <1>2, <1>3
  <2>2. Wrap * (k - l - m) = Wrap * k - Wrap * l - Wrap * m
    OBVIOUS
  <2> QED BY <2>1, <2>2, <1>5, <1>6
<1>8. ASSUME gap < Wrap PROVE step = gap
  <2> DEFINE turns == k - l - m
  <2>1. turns \in Int /\ step = gap + Wrap * turns
    BY <1>7
  <2> HIDE DEF turns
  <2>2. turns = 0
    BY <1>5, <1>8, <2>1, PartOfATurn
  <2> QED BY <2>1, <2>2
<1>9. k - l - m \in Int /\ step = gap + Wrap * (k - l - m)
  BY <1>7
<1>10. \E turns \in Int : step = gap + Wrap * turns
  BY <1>9, Zenon
<1> QED BY <1>0, <1>5, <1>8, <1>10, Zenon

LEMMA LatticeBegins ==
  ASSUME NEW x \in Int
  PROVE  (x - (x % Wrap)) % Wrap = 0
<1>1. PICK turns \in Int : x = Wrap * turns + (x % Wrap)
  BY WithoutTurns
<1>2. x - (x % Wrap) = Wrap * turns
  <2>1. x % Wrap \in Int
    BY WithoutTurns
  <2> DEFINE rest == x % Wrap
             whole == Wrap * turns
  <2>2. rest \in Int /\ whole \in Int /\ x = whole + rest
    BY <1>1, <2>1, Turns
  <2> HIDE DEF rest, whole
  <2>3. x - rest = whole
    BY <2>2
  <2> QED BY <2>3 DEF rest, whole
<1> QED BY <1>2, WholeTurns

\* Whole turns more or less stay whole turns.
LEMMA LatticeStays ==
  ASSUME NEW x \in Int, NEW turns \in Int, x % Wrap = 0
  PROVE  (x + Wrap * turns) % Wrap = 0
<1>1. PICK whole \in Int : x = Wrap * whole + (x % Wrap)
  BY WithoutTurns
<1>2. x + Wrap * turns = Wrap * (whole + turns)
  BY <1>1, Turns
<1> QED BY <1>2, WholeTurns

LEMMA ClockBegins == Clock!Init => ClockInv
<1> SUFFICES ASSUME Clock!Init PROVE ClockInv
  OBVIOUS
<1>1. /\ sent = 0 /\ packets = 0 /\ stamped = 0 /\ began = 0 /\ steady = TRUE
      /\ unwrapper = [started |-> FALSE, anchor |-> -1, high |-> 0]
      /\ switch = [active |-> FALSE, ast |-> 0, media |-> 0]
  BY Zenon DEF Clock!Init, Clock!NewUnwrapper, Clock!Unset
<1>2. ClockTypes
  <2>1. steady \in BOOLEAN
    BY <1>1, Zenon
  <2>2. unwrapper \in [started : BOOLEAN, anchor : Int, high : Int]
    BY <1>1
  <2>3. switch \in [active : BOOLEAN, ast : Int, media : Int]
    BY <1>1
  <2>4. sent \in Nat /\ packets \in Nat /\ stamped \in Nat /\ stamped <= sent /\ began \in Nat
    BY <1>1
  <2>5. Clock!Offset \in Int
    BY <1>1, MediaType DEF Clock!Offset
  <2> QED BY <2>1, <2>2, <2>3, <2>4, <2>5 DEF ClockTypes
<1>3. BegunTogether /\ OnTheLattice /\ InStep
  BY <1>1 DEF BegunTogether, OnTheLattice, InStep
<1> QED BY <1>2, <1>3 DEF ClockInv

LEMMA FirstAnnotation ==
  ASSUME ClockInv, ~switch.active, NEW time \in Nat
  PROVE  LET new == Clock!Unwrapped(Clock!Raw(time))
         IN  /\ new = [started |-> TRUE, anchor |-> Clock!Raw(time), high |-> Clock!Raw(time)]
             /\ Clock!Raw(time) \in Nat
             /\ (time + AstLead - new.high) % Wrap = 0
<1>1. Clock!Raw(time) \in Nat /\ (time + AstLead - Clock!Raw(time)) % Wrap = 0
  <2>1. time + AstLead \in Int
    BY Turns
  <2>2. /\ ((time + AstLead) - ((time + AstLead) % Wrap)) % Wrap = 0
        /\ (time + AstLead) % Wrap \in 0 .. Wrap - 1
    BY <2>1, LatticeBegins, WithoutTurns, Zenon
  <2> DEFINE raw == (time + AstLead) % Wrap
  <2>3. raw \in Nat /\ Clock!Raw(time) = raw
    BY <2>2 DEF Clock!Raw
  <2>4. ((time + AstLead) - raw) % Wrap = 0
    BY <2>2
  <2> HIDE DEF raw
  <2>5. (time + AstLead) - raw = time + AstLead - raw
    BY <2>3, Turns
  <2>6. (time + AstLead - raw) % Wrap = 0
    BY <2>4, <2>5, Zenon
  <2> QED BY <2>3, <2>6, Zenon
<1>2. ~unwrapper.started
  BY DEF ClockInv, BegunTogether
<1> QED BY <1>1, <1>2 DEF Clock!Unwrapped

\* One more stamp: the anchor moves to its packet or is lost.
LEMMA NextAnnotation ==
  ASSUME ClockInv, switch.active, NEW gap \in Nat
  PROVE  LET new == Clock!Unwrapped(Clock!Raw(stamped + gap))
         IN  /\ new \in [started : BOOLEAN, anchor : Int, high : Int] /\ new.started
             /\ new.anchor # Clock!Unset =>
                   /\ new.anchor = Clock!Raw(stamped + gap)
                   /\ (stamped + gap + AstLead - new.high) % Wrap = 0
             /\ Anchored /\ gap <= Ambig =>
                   new.anchor # Clock!Unset /\ new.high = unwrapper.high + gap
<1> DEFINE raw == Clock!Raw(stamped + gap)
           new == Clock!Unwrapped(raw)
<1> USE Turns
<1>1. /\ stamped \in Nat /\ unwrapper.started
      /\ unwrapper \in [started : BOOLEAN, anchor : Int, high : Int]
  BY DEF ClockInv, ClockTypes, BegunTogether
<1>2. /\ raw \in Nat
      /\ \E turns \in Int : stamped + gap + AstLead = Wrap * turns + raw
  <2>1. stamped + gap + AstLead \in Int
    BY <1>1
  <2>2. /\ (stamped + gap + AstLead) % Wrap \in 0 .. Wrap - 1
        /\ \E turns \in Int : stamped + gap + AstLead = Wrap * turns + ((stamped + gap + AstLead) % Wrap)
    BY <2>1, WithoutTurns, Zenon
  <2>3. raw = (stamped + gap + AstLead) % Wrap
    BY DEF Clock!Raw
  <2>4. \E turns \in Int : stamped + gap + AstLead = Wrap * turns + raw
    BY <2>2, <2>3, Zenon
  <2> HIDE DEF raw
  <2>5. raw \in Nat
    BY <2>2, <2>3
  <2> QED BY <2>4, <2>5
<1>3. raw # Clock!Unset
  BY <1>2 DEF Clock!Unset
<1>4. CASE ~Anchored
  <2>1. new = [unwrapper EXCEPT !.anchor = raw, !.high = Clock!Reanchored(raw)]
    BY <1>1, <1>4 DEF Clock!Unwrapped, Anchored
  <2>2. unwrapper.high \div Wrap \in Int
    BY <1>1
  <2> DEFINE turn == (unwrapper.high \div Wrap) * Wrap + raw
  <2>3. turn \in Int /\ \E turns \in Int : turn = Wrap * turns + raw
    BY <1>2, <2>2
  <2>4. Clock!Reanchored(raw) = IF turn < unwrapper.high THEN turn + Wrap ELSE turn
    BY DEF Clock!Reanchored
  <2> HIDE DEF turn, raw
  <2>5. PICK turns \in Int : Clock!Reanchored(raw) = Wrap * turns + raw
    <3>1. PICK whole \in Int : turn = Wrap * whole + raw
      BY <2>3
    <3>2. turn + Wrap = Wrap * (whole + 1) + raw
      BY <3>1, <1>2
    <3>3. \E turns \in Int : turn = Wrap * turns + raw
      BY <3>1, Zenon
    <3>4. \E turns \in Int : turn + Wrap = Wrap * turns + raw
      <4>1. whole + 1 \in Int
        OBVIOUS
      <4> QED BY <3>2, <4>1, Zenon
    <3> QED BY <2>4, <3>3, <3>4
  <2>6. PICK whole \in Int : stamped + gap + AstLead = Wrap * whole + raw
    BY <1>2
  <2>7. stamped + gap + AstLead - Clock!Reanchored(raw) = Wrap * (whole - turns)
    BY <2>5, <2>6, <1>1, <1>2
  <2>8. (stamped + gap + AstLead - Clock!Reanchored(raw)) % Wrap = 0
    BY <2>7, WholeTurns
  <2>9. Clock!Reanchored(raw) \in Int
    BY <2>5, <1>2
  <2>10. /\ new.anchor = raw /\ new.high = Clock!Reanchored(raw) /\ new.started
         /\ new \in [started : BOOLEAN, anchor : Int, high : Int]
    <3> HIDE DEF new, raw
    <3>1. raw \in Int
      BY <1>2
    <3> QED BY <1>1, <3>1, <2>1, <2>9
  <2> QED BY <1>4, <2>8, <2>10 DEF raw
<1>5. CASE Anchored
  <2>1. unwrapper.anchor = Clock!Raw(stamped) /\ (stamped + AstLead - unwrapper.high) % Wrap = 0
    BY <1>5 DEF ClockInv, OnTheLattice
  <2>2. /\ Clock!Forward(raw) \in 0 .. Wrap - 1
        /\ \E turns \in Int : Clock!Forward(raw) = gap + Wrap * turns
        /\ gap < Wrap => Clock!Forward(raw) = gap
    BY <1>1, <2>1, ForwardIsGap
  <2> HIDE DEF raw
  <2>3. CASE Clock!Forward(raw) <= Ambig
    <3>1. new = [unwrapper EXCEPT !.anchor = raw, !.high = @ + Clock!Forward(raw)]
      <4>1. unwrapper.started /\ unwrapper.anchor # Clock!Unset
        BY <1>1, <1>5 DEF Anchored
      <4>2. ~(Clock!Forward(raw) > Ambig)
        BY <2>2, <2>3
      <4> QED BY <2>3, <4>1, <4>2 DEF Clock!Unwrapped
    <3>2. PICK turns \in Int : Clock!Forward(raw) = gap + Wrap * turns
      BY <2>2
    <3>3. stamped + AstLead - unwrapper.high \in Int
      BY <1>1
    <3>4. (stamped + AstLead - unwrapper.high + Wrap * (0 - turns)) % Wrap = 0
      <4>1. 0 - turns \in Int
        OBVIOUS
      <4> QED BY <2>1, <3>3, <4>1, LatticeStays, Zenon
    <3>5. stamped + gap + AstLead - (unwrapper.high + Clock!Forward(raw))
            = stamped + AstLead - unwrapper.high + Wrap * (0 - turns)
      BY <3>2, <1>1
    <3>6. (stamped + gap + AstLead - (unwrapper.high + Clock!Forward(raw))) % Wrap = 0
      BY <3>4, <3>5
    <3>7. unwrapper.high + Clock!Forward(raw) \in Int
      BY <1>1, <2>2
    <3>8. /\ new.anchor = raw /\ new.high = unwrapper.high + Clock!Forward(raw) /\ new.started
          /\ new \in [started : BOOLEAN, anchor : Int, high : Int]
      <4> HIDE DEF new
      <4>1. raw \in Int
        BY <1>2
      <4> QED BY <1>1, <4>1, <3>1, <3>7
    <3>9. gap <= Ambig => new.high = unwrapper.high + gap
      BY <2>2, <3>8
    <3> QED BY <1>3, <3>6, <3>8, <3>9 DEF raw
  <2>4. CASE ~(Clock!Forward(raw) <= Ambig)
    <3>1. Clock!Forward(raw) > Ambig
      BY <2>2, <2>4
    <3>2. new = [unwrapper EXCEPT !.anchor = Clock!Unset]
      BY <1>1, <1>5, <2>4, <3>1 DEF Clock!Unwrapped, Anchored
    <3>3. /\ new.anchor = Clock!Unset /\ new.started
          /\ new \in [started : BOOLEAN, anchor : Int, high : Int]
      BY <1>1, <3>2 DEF Clock!Unset
    <3>4. ~(gap <= Ambig)
      BY <2>2, <3>1
    <3> QED BY <3>3, <3>4 DEF raw
  <2> QED BY <2>3, <2>4
<1> QED BY <1>4, <1>5

\* What the first packet sets, the others keep.
LEMMA OffsetStays ==
  ASSUME ClockInv, began' = (IF packets = 0 THEN sent' ELSE began), sent' \in Nat
  PROVE  /\ packets = 0 => Clock!Offset' = Clock!Media(sent') - sent'
         /\ packets # 0 => Clock!Offset' = Clock!Offset
         /\ Clock!Offset' \in Int
<1>1. Clock!Offset' = Clock!Media(began') - began'
  BY DEF Clock!Offset, Clock!Media
<1>2. CASE packets = 0
  BY <1>1, <1>2, MediaType
<1>3. CASE packets # 0
  <2>1. Clock!Offset' = Clock!Offset
    BY <1>1, <1>3 DEF Clock!Offset
  <2> QED BY <1>3, <2>1 DEF ClockInv, ClockTypes
<1> QED BY <1>2, <1>3

\* A packet timed by the media clock keeps the offset while the stream is steady.
LEMMA MediaKeepsPace ==
  ASSUME ClockInv, began' = (IF packets = 0 THEN sent' ELSE began), sent' \in Nat,
         packets = 0 \/ Clock!Media(sent') - Clock!Media(began) = sent' - began
  PROVE  Clock!Media(sent') - sent' = Clock!Offset'
<1>1. CASE packets = 0
  BY <1>1, OffsetStays
<1>2. CASE packets # 0
  <2>1. Clock!Offset' = Clock!Media(began) - began
    BY <1>2, OffsetStays DEF Clock!Offset
  <2>2. Clock!Media(sent') \in Int /\ Clock!Media(began) \in Int /\ began \in Int
    BY MediaType DEF ClockInv, ClockTypes
  <2> QED BY <1>2, <2>1, <2>2
<1> QED BY <1>1, <1>2

LEMMA Remainder ==
  ASSUME NEW x \in Nat, NEW y \in Nat, x <= y
  PROVE  y - x \in Nat /\ x + (y - x) = y
OBVIOUS

LEMMA PacketKeepsClock ==
  ASSUME ClockInv, Clock!Packet
  PROVE  ClockInv'
<1>1. PICK gap \in SendGaps, annotates \in BOOLEAN :
        /\ packets' = packets + 1
        /\ sent' = sent + gap
        /\ began' = IF packets = 0 THEN sent' ELSE began
        /\ stamped' = IF annotates THEN sent' ELSE stamped
        /\ unwrapper' = IF annotates THEN Clock!Unwrapped(Clock!Raw(sent')) ELSE unwrapper
        /\ switch' = IF annotates THEN Clock!Switched(Clock!Media(sent'), unwrapper'.high) ELSE switch
        /\ steady' = (/\ steady /\ (packets = 0 \/ gap > Group)
                      /\ Clock!KeepsPace(sent', annotates))
  BY Zenon DEF Clock!Packet
<1>2. ClockTypes /\ BegunTogether /\ OnTheLattice /\ InStep
  BY DEF ClockInv
<1>3. /\ gap \in Nat /\ sent' \in Nat /\ packets' \in Nat /\ packets' > 0
      /\ began' \in Nat /\ stamped \in Nat /\ stamped <= sent' /\ stamped' \in Nat /\ stamped' <= sent'
  BY <1>1, <1>2, Turns DEF ClockTypes
<1>4. steady' \in BOOLEAN
  BY <1>1, Zenon
<1>5. /\ Clock!Offset' \in Int
      /\ packets # 0 => Clock!Offset' = Clock!Offset
  BY <1>1, <1>3, OffsetStays
<1>6. steady' => steady /\ Clock!KeepsPace(sent', annotates)
  BY <1>1, Zenon
<1>7. CASE ~annotates
  <2>1. unwrapper' = unwrapper /\ switch' = switch /\ stamped' = stamped
    BY <1>1, <1>7
  <2>2. switch.active => packets # 0
    BY <1>2 DEF BegunTogether, ClockTypes
  <2>3. ClockTypes' /\ BegunTogether'
    BY <1>2, <1>3, <1>4, <1>5, <2>1 DEF ClockTypes, BegunTogether
  <2>4. OnTheLattice' /\ InStep'
    BY <1>2, <1>5, <1>6, <2>1, <2>2 DEF OnTheLattice, InStep, Anchored, Clock!Raw
  <2> QED BY <2>3, <2>4 DEF ClockInv
<1>8. CASE annotates /\ ~switch.active
  <2> DEFINE raw == Clock!Raw(sent')
             media == Clock!Media(sent')
  <2>1. /\ unwrapper' = [started |-> TRUE, anchor |-> raw, high |-> raw]
        /\ raw \in Nat
        /\ (sent' + AstLead - unwrapper'.high) % Wrap = 0
    BY <1>1, <1>3, <1>8, FirstAnnotation
  <2>2. switch' = [active |-> TRUE, ast |-> raw, media |-> media]
    <3> HIDE DEF raw
    <3>1. unwrapper'.high = raw
      BY <2>1
    <3> QED BY <1>1, <1>8, <3>1, Zenon DEF Clock!Switched
  <2>3. media \in Int /\ stamped' = sent'
    BY <1>1, <1>3, <1>8, MediaType
  <2>4. OnTheLattice'
    BY <2>1, <2>3 DEF OnTheLattice, Clock!Raw
  <2>5. steady' => media - sent' = Clock!Offset'
    <3> SUFFICES ASSUME steady' PROVE media - sent' = Clock!Offset'
      OBVIOUS
    <3>1. packets = 0 \/ Clock!Media(sent') - Clock!Media(began) = sent' - began
      BY <1>6, <1>8 DEF Clock!KeepsPace
    <3> QED BY <1>1, <1>3, <3>1, MediaKeepsPace
  <2> HIDE DEF raw, media
  <2>6. ClockTypes' /\ BegunTogether'
    BY <1>3, <1>4, <1>5, <2>1, <2>2, <2>3 DEF ClockTypes, BegunTogether
  <2>7. InStep'
    <3>1. unwrapper'.anchor = raw /\ unwrapper'.high = raw /\ switch'.ast = raw /\ switch'.media = media
      BY <2>1, <2>2
    <3>2. raw # -1 /\ media + (raw - raw) - sent' = media - sent'
      BY <1>3, <2>1, <2>3
    <3>3. Anchored'
      BY <3>1, <3>2 DEF Anchored, Clock!Unset
    <3>4. steady' => switch'.media + (unwrapper'.high - switch'.ast) - stamped' = Clock!Offset'
      BY <2>3, <2>5, <3>1, <3>2
    <3> QED BY <3>3, <3>4 DEF InStep
  <2> QED BY <2>4, <2>6, <2>7 DEF ClockInv
<1>9. CASE annotates /\ switch.active
  <2> DEFINE step == sent' - stamped
  <2>1. step \in Nat /\ stamped + step = sent'
    <3>1. stamped \in Nat /\ sent' \in Nat /\ stamped <= sent'
      BY <1>3
    <3> QED BY <3>1, Remainder, Zenon DEF step
  <2>2. stamped' = sent'
    BY <1>1, <1>9
  <2> HIDE DEF step
  <2> DEFINE new == Clock!Unwrapped(Clock!Raw(stamped + step))
  <2>3. /\ new \in [started : BOOLEAN, anchor : Int, high : Int] /\ new.started
        /\ new.anchor # Clock!Unset =>
              /\ new.anchor = Clock!Raw(stamped + step)
              /\ (stamped + step + AstLead - new.high) % Wrap = 0
        /\ Anchored /\ step <= Ambig =>
              new.anchor # Clock!Unset /\ new.high = unwrapper.high + step
    BY <1>9, <2>1, NextAnnotation
  <2>4. unwrapper' = new /\ switch' = switch
    BY <1>1, <1>9, <2>1 DEF Clock!Switched
  <2> HIDE DEF new
  <2>5. steady' => steady /\ step <= Ambig
    <3> SUFFICES ASSUME steady' PROVE steady /\ step <= Ambig
      OBVIOUS
    <3>1. sent' - stamped <= Ambig
      BY <1>6, <1>9 DEF Clock!KeepsPace
    <3> QED BY <1>6, <3>1 DEF step
  <2>6. ClockTypes' /\ BegunTogether'
    BY <1>2, <1>3, <1>4, <1>5, <1>9, <2>3, <2>4 DEF ClockTypes, BegunTogether
  <2>7. OnTheLattice'
    BY <2>1, <2>2, <2>3, <2>4 DEF OnTheLattice, Anchored, Clock!Raw
  <2>8. InStep'
    <3> SUFFICES ASSUME steady'
                 PROVE  /\ Anchored'
                        /\ switch'.media + (unwrapper'.high - switch'.ast) - stamped' = Clock!Offset'
      BY DEF InStep
    <3>1. /\ Anchored /\ step <= Ambig
          /\ switch.media + (unwrapper.high - switch.ast) - stamped = Clock!Offset
      BY <1>2, <1>9, <2>5 DEF InStep
    <3>2. Clock!Offset' = Clock!Offset
      BY <1>2, <1>5, <1>9 DEF BegunTogether, ClockTypes
    <3>3. Anchored' /\ unwrapper'.high = unwrapper.high + step
      BY <2>3, <2>4, <3>1 DEF Anchored
    <3> QED BY <1>2, <2>1, <2>2, <2>4, <3>1, <3>2, <3>3 DEF ClockTypes
  <2> QED BY <2>6, <2>7, <2>8 DEF ClockInv
<1> QED BY <1>7, <1>8, <1>9

LEMMA ClockStep == ClockInv /\ [Clock!Next]_(Clock!vars) => ClockInv'
<1> SUFFICES ASSUME ClockInv, [Clock!Next]_(Clock!vars) PROVE ClockInv'
  OBVIOUS
<1>1. ASSUME began' = began, sent' = sent, stamped' = stamped, packets' = packets,
             unwrapper' = unwrapper, switch' = switch, steady' \in BOOLEAN, steady' => steady
      PROVE  ClockInv'
  <2>1. Clock!Offset' = Clock!Offset
    BY <1>1 DEF Clock!Offset, Clock!Media
  <2>2. Clock!Raw(stamped)' = Clock!Raw(stamped)
    BY <1>1 DEF Clock!Raw
  <2> QED BY <1>1, <2>1, <2>2 DEF ClockInv, ClockTypes, BegunTogether, OnTheLattice, InStep, Anchored
<1>2. CASE Clock!ResetAnchor
  BY <1>1, <1>2 DEF Clock!ResetAnchor
<1>3. CASE UNCHANGED Clock!vars
  BY <1>1, <1>3 DEF Clock!vars, ClockInv, ClockTypes
<1> QED BY <1>2, <1>3, PacketKeepsClock DEF Clock!Next

\* Through every wrap of the 24 bits and every lost anchor the unwrapped send time is off
\* by whole turns only; and by none, so that it goes on where the media clock began, as
\* long as no two stamps lie more than half a turn apart and no packet was timed by a
\* media clock that had wrapped: SendTimeUnwrapper::push and the changes of clock.
THEOREM SendTimeStaysTrue == Clock!Spec => []SendTimeIsTrue
<1>1. ClockInv => SendTimeIsTrue
  BY DEF ClockInv, OnTheLattice, InStep, Anchored, SendTimeIsTrue, Clock!SendTimeIsTrue
<1> QED BY <1>1, ClockBegins, ClockStep, PTL DEF Clock!Spec

-----------------------------------------------------------------------------
\* The feedback: the ring, the recorder over it, and the ledger they keep.

\* The ring as a partial function from numbers to times: `c` slots, and a window that
\* fits into them.
RingOver(m, c) ==
    /\ m \in [cells : [0 .. c - 1 -> Int], begin : Int, end : Int]
    /\ m.begin <= m.end /\ m.end - m.begin <= c /\ m.end - m.begin <= MaxPackets

LEMMA RingBounds ==
    /\ MinCapacity \in Nat \ {0} /\ MaxPackets \in Nat \ {0} /\ MaxPackets <= 32768
  BY RingAssumption

LEMMA Slots ==
  ASSUME NEW c \in Nat \ {0}, NEW x \in Int
  PROVE  x % c \in 0 .. c - 1 /\ \E turns \in Int : x = c * turns + (x % c)
<1>1. x % c \in 0 .. c - 1
  OBVIOUS
<1>2. x \div c \in Int
  OBVIOUS
<1>3. x = c * (x \div c) + (x % c)
  OBVIOUS
<1> QED BY <1>1, <1>2, <1>3

\* Two numbers of one window have slots of their own.
LEMMA OwnSlot ==
  ASSUME NEW c \in Nat \ {0}, NEW x \in Int, NEW y \in Int,
         x - y < c, y - x < c, x % c = y % c
  PROVE  x = y
<1>1. PICK k \in Int : x = c * k + (x % c)
  BY Slots
<1>2. PICK l \in Int : y = c * l + (y % c)
  BY Slots
<1>3. x % c \in Int
  BY Slots
<1> DEFINE turns == k - l
<1>4. turns \in Int /\ x - y = c * turns
  BY <1>1, <1>2, <1>3
<1> HIDE DEF turns
<1>5. CASE turns >= 1
  <2>1. c * turns >= c
    BY <1>4, <1>5
  <2> QED BY <2>1, <1>4
<1>6. CASE turns <= -1
  <2>1. c * turns <= -c
    BY <1>4, <1>6
  <2> QED BY <2>1, <1>4
<1>7. CASE turns = 0
  BY <1>4, <1>7
<1> QED BY <1>4, <1>5, <1>6, <1>7

LEMMA CapacityType ==
  ASSUME NEW c \in Ring!Capacities
  PROVE  c \in Nat \ {0} /\ \E d \in Ring!Doublings : c = MinCapacity * d
<1>1. PICK d \in Ring!Doublings : c = MinCapacity * d
  BY DEF Ring!Capacities
<1>2. d \in Nat \ {0}
  BY DEF Ring!Doublings
<1>3. c \in Nat \ {0}
  BY <1>1, <1>2, RingBounds
<1> QED BY <1>1, <1>3

LEMMA CapacityOf ==
  ASSUME NEW c \in Ring!Capacities, NEW m, RingOver(m, c)
  PROVE  Ring!Capacity(m) = c
<1>1. c \in Nat \ {0}
  BY CapacityType
<1>2. DOMAIN m.cells = 0 .. c - 1
  <2>1. m.cells \in [0 .. c - 1 -> Int]
    BY DEF RingOver
  <2> QED BY <2>1
<1>3. \A S : Ring!Cardinality(S) = Cardinality(S)
  BY Zenon DEF Ring!Cardinality, Cardinality
<1>4. Cardinality(0 .. c - 1) = c
  BY <1>1, FS_Interval
<1> QED BY <1>2, <1>3, <1>4 DEF Ring!Capacity

LEMMA GetOf ==
  ASSUME NEW c \in Ring!Capacities, NEW m, RingOver(m, c), NEW x \in Int
  PROVE  /\ Ring!Get(m, x) \in Int
         /\ x \in m.begin .. m.end - 1 => Ring!Get(m, x) = m.cells[x % c]
         /\ x \notin m.begin .. m.end - 1 => Ring!Get(m, x) = Ring!Absent
<1>1. Ring!Capacity(m) = c
  BY CapacityOf
<1>2. x % c \in 0 .. c - 1
  BY CapacityType, Slots
<1>3. m.cells[x % c] \in Int
  BY <1>2 DEF RingOver
<1> QED BY <1>1, <1>3 DEF Ring!Get, Ring!InWindow, Ring!Slot, Ring!Absent

-----------------------------------------------------------------------------
\* The same window with the same times.
Same(r, m) ==
    r.begin = m.begin /\ r.end = m.end /\ \A x \in Int : Ring!Get(r, x) = Ring!Get(m, x)

\* Copying the window into a ring of another size keeps it.
LEMMA Reallocated ==
  ASSUME NEW cells, NEW b \in Int, NEW e \in Int, NEW m, NEW k \in Ring!Capacities,
         m = [cells |-> cells, begin |-> b, end |-> e],
         b <= e, e - b <= k, e - b <= MaxPackets,
         \A x \in Int : Ring!Get(m, x) \in Int
  PROVE  RingOver(Ring!Reallocate(m, k), k) /\ Same(Ring!Reallocate(m, k), m)
<1> DEFINE At(i) == {n \in m.begin .. m.end - 1 : n % k = i}
           copy == [i \in 0 .. k - 1 |->
                      IF At(i) = {} THEN Ring!Absent ELSE Ring!Get(m, Ring!Max(At(i)))]
           r == Ring!Reallocate(m, k)
<1>0. k \in Nat \ {0}
  BY CapacityType
<1>w. m.begin = b /\ m.end = e
  OBVIOUS
<1>1. r = [cells |-> copy, begin |-> b, end |-> e]
  <2>1. r = [m EXCEPT !.cells = copy]
    BY Zenon DEF Ring!Reallocate
  <2> HIDE DEF copy
  <2> QED BY <2>1
<1>2. ASSUME NEW x \in m.begin .. m.end - 1 PROVE At(x % k) = {x} /\ Ring!Max(At(x % k)) = x
  <2>1. \A n \in m.begin .. m.end - 1 : n % k = x % k => n = x
    <3> SUFFICES ASSUME NEW n \in m.begin .. m.end - 1, n % k = x % k PROVE n = x
      OBVIOUS
    <3>1. n \in Int /\ x \in Int /\ n - x < k /\ x - n < k
      BY <1>0
    <3> QED BY <3>1, <1>0, OwnSlot, Zenon
  <2>2. At(x % k) = {x}
    BY <2>1
  <2>3. Ring!Max({x}) = x
    BY DEF Ring!Max
  <2> QED BY <2>2, <2>3
<1>3. ASSUME NEW i \in 0 .. k - 1 PROVE copy[i] \in Int
  <2>1. CASE At(i) = {}
    BY <2>1 DEF Ring!Absent
  <2>2. CASE At(i) # {}
    <3>1. PICK x \in m.begin .. m.end - 1 : x % k = i
      BY <2>2
    <3>2. Ring!Max(At(i)) = x
      BY <1>2, <3>1
    <3> HIDE DEF At
    <3> QED BY <2>2, <3>2
  <2> QED BY <2>1, <2>2
<1>4. copy \in [0 .. k - 1 -> Int]
  <2> HIDE DEF At
  <2> QED BY <1>3
<1> HIDE DEF copy
<1>5. RingOver(r, k)
  <2>1. r \in [cells : [0 .. k - 1 -> Int], begin : Int, end : Int]
    <3> DEFINE F == [0 .. k - 1 -> Int]
    <3>1. copy \in F
      BY <1>4
    <3> HIDE DEF F, r
    <3>2. r \in [cells : F, begin : Int, end : Int]
      BY <1>1, <3>1
    <3> QED BY <3>2 DEF F
  <2>2. r.begin = b /\ r.end = e
    BY <1>1
  <2> QED BY <2>1, <2>2 DEF RingOver
<1>6. ASSUME NEW x \in Int PROVE Ring!Get(r, x) = Ring!Get(m, x)
  <2>1. CASE x \in b .. e - 1
    <3>1. Ring!Get(r, x) = copy[x % k]
      <4>1. r.cells = copy /\ x \in r.begin .. r.end - 1
        BY <1>1, <2>1
      <4> QED BY <4>1, <1>5, GetOf
    <3>2. x % k \in 0 .. k - 1
      BY <1>0, Slots
    <3>3. At(x % k) # {} /\ Ring!Max(At(x % k)) = x
      BY <1>2, <1>w, <2>1
    <3> HIDE DEF At
    <3>4. copy[x % k] = Ring!Get(m, Ring!Max(At(x % k)))
      BY <3>2, <3>3 DEF copy
    <3> QED BY <3>1, <3>3, <3>4
  <2>2. CASE x \notin b .. e - 1
    <3>1. Ring!Get(r, x) = Ring!Absent
      BY <1>1, <1>5, <2>2, GetOf
    <3>2. Ring!Get(m, x) = Ring!Absent
      BY <2>2 DEF Ring!Get, Ring!InWindow
    <3> QED BY <3>1, <3>2
  <2> QED BY <2>1, <2>2
<1> QED BY <1>1, <1>5, <1>6 DEF Same

-----------------------------------------------------------------------------
\* Bounded sets of numbers have a least and a greatest member.
LEMMA LeastOf ==
  ASSUME NEW S \in SUBSET Int, S # {}, NEW b \in Int, \A y \in S : b <= y
  PROVE  \E x \in S : \A y \in S : x <= y
<1> DEFINE Below == {pair \in Nat \X Nat : pair[1] < pair[2]}
           D == {y - b : y \in S}
<1>1. IsWellFoundedOn(Below, Nat)
  BY NatLessThanWellFounded, Zenon DEF OpToRel
<1>2. D \in SUBSET Nat /\ D # {}
  <2>1. \A y \in S : y - b \in Nat
    OBVIOUS
  <2> QED BY <2>1
<1>3. PICK d \in D : \A y \in D : <<y, d>> \notin Below
  <2> HIDE DEF Below, D
  <2> QED BY <1>1, <1>2, WFMin
<1>4. PICK x \in S : d = x - b
  BY <1>3
<1>5. \A y \in S : x <= y
  <2> TAKE y \in S
  <2>1. <<y - b, x - b>> \notin Below
    BY <1>3, <1>4
  <2>2. y - b \in Nat /\ x - b \in Nat /\ y \in Int /\ x \in Int
    BY <1>2, <1>4
  <2>3. ~ (y - b < x - b)
    <3> SUFFICES ASSUME y - b < x - b PROVE <<y - b, x - b>> \in Below
      BY <2>1, Zenon
    <3>1. <<y - b, x - b>> \in Nat \X Nat
      BY <2>2
    <3> QED BY <3>1
  <2> QED BY <2>2, <2>3
<1> QED BY <1>5

LEMMA GreatestOf ==
  ASSUME NEW S \in SUBSET Int, S # {}, NEW b \in Int, \A y \in S : y <= b
  PROVE  \E x \in S : \A y \in S : y <= x
<1> DEFINE D == {-y : y \in S}
<1>1. D \in SUBSET Int /\ D # {} /\ -b \in Int /\ \A y \in D : -b <= y
  <2>1. \A y \in S : -y \in Int /\ -b <= -y
    OBVIOUS
  <2>2. D # {} /\ -b \in Int
    <3>1. PICK y \in S : TRUE
      OBVIOUS
    <3>2. -y \in D
      OBVIOUS
    <3>3. -b \in Int
      OBVIOUS
    <3> HIDE DEF D
    <3> QED BY <3>2, <3>3
  <2> QED BY <2>1, <2>2
<1> HIDE DEF D
<1>2. PICK d \in D : \A y \in D : d <= y
  BY <1>1, LeastOf
<1>3. PICK x \in S : d = -x
  BY DEF D
<1>4. \A y \in S : y <= x
  <2> TAKE y \in S
  <2>1. -y \in D /\ x \in Int /\ y \in Int
    BY DEF D
  <2> QED BY <1>2, <1>3, <2>1
<1> QED BY <1>4

LEMMA MinIsLeast ==
  ASSUME NEW S \in SUBSET Int, S # {}, NEW b \in Int, \A y \in S : b <= y
  PROVE  Ring!Min(S) \in S /\ \A y \in S : Ring!Min(S) <= y
<1>1. \E x \in S : \A y \in S : x <= y
  BY LeastOf
<1> QED BY <1>1 DEF Ring!Min

LEMMA MaxIsGreatest ==
  ASSUME NEW S \in SUBSET Int, S # {}, NEW b \in Int, \A y \in S : y <= b
  PROVE  /\ Ring!Max(S) \in S /\ \A y \in S : y <= Ring!Max(S)
         /\ Max(S) \in S /\ \A y \in S : y <= Max(S)
<1>1. \E x \in S : \A y \in S : x >= y
  <2>1. PICK x \in S : \A y \in S : y <= x
    BY GreatestOf
  <2>2. \A y \in S : x >= y
    BY <2>1
  <2> QED BY <2>2
<1>2. Ring!Max(S) \in S /\ \A y \in S : Ring!Max(S) >= y
  BY <1>1 DEF Ring!Max
<1>3. Max(S) \in S /\ \A y \in S : Max(S) >= y
  BY <1>1 DEF Max
<1> QED BY <1>2, <1>3

LEMMA EitherExtreme ==
  ASSUME NEW x \in Int, NEW y \in Int
  PROVE  /\ Ring!Max({x, y}) = (IF x >= y THEN x ELSE y)
         /\ Max({x, y}) = (IF x >= y THEN x ELSE y)
         /\ Ring!Min({x, y}) = (IF x <= y THEN x ELSE y)
  BY DEF Ring!Max, Max, Ring!Min

-----------------------------------------------------------------------------
\* Growing: the largest ring holds any window there can be.
LEMMA GrownFits ==
  ASSUME NEW c \in Ring!Capacities, NEW size \in Nat, size <= MaxPackets
  PROVE  Ring!Grown(c, size) \in Ring!Capacities /\ Ring!Grown(c, size) >= size
<1> DEFINE S == {k \in Ring!Capacities : k >= c /\ k >= size}
           largest == MinCapacity * 32768
<1>1. \A k \in Ring!Capacities : k \in Nat
  BY CapacityType
<1>2. largest \in S
  <2>1. 32768 \in Ring!Doublings
    BY DEF Ring!Doublings
  <2>2. largest \in Ring!Capacities
    BY <2>1 DEF Ring!Capacities
  <2>3. largest >= size
    BY RingBounds
  <2>4. largest >= c
    <3>1. PICK d \in Ring!Doublings : c = MinCapacity * d
      BY CapacityType
    <3>2. d \in Nat /\ d <= 32768
      BY DEF Ring!Doublings
    <3>3. MinCapacity * d <= MinCapacity * 32768
      BY <3>2, RingBounds
    <3> QED BY <3>1, <3>3
  <2> QED BY <2>2, <2>3, <2>4
<1>3. S \in SUBSET Int /\ S # {} /\ 0 \in Int /\ \A y \in S : 0 <= y
  BY <1>1, <1>2
<1> HIDE DEF S
<1>4. Ring!Min(S) \in S
  BY <1>3, MinIsLeast, Zenon
<1> QED BY <1>4 DEF S, Ring!Grown

\* Shrinking stops before the window would no longer fit.
LEMMA ShrunkFits ==
  ASSUME NEW c \in Ring!Capacities, NEW size \in Nat, size <= MaxPackets, c > 4 * size
  PROVE  Ring!Shrunk(c, size) \in Ring!Capacities /\ Ring!Shrunk(c, size) >= size
<1> DEFINE least == Ring!Max({size, MinCapacity})
           S == {k \in Ring!Capacities : k <= c /\ k < 2 * least}
           s == Ring!Max(S)
<1>0. /\ \A k \in Ring!Capacities : k \in Nat \ {0}
      /\ MinCapacity \in Nat \ {0} /\ MaxPackets \in Nat /\ MaxPackets <= 32768
  BY CapacityType, RingBounds
<1>1. least \in Nat /\ least >= size /\ least >= MinCapacity
  BY <1>0, EitherExtreme
<1> HIDE DEF least
<1>2. MinCapacity \in S
  <2>1. 1 \in Ring!Doublings /\ MinCapacity = MinCapacity * 1
    BY <1>0 DEF Ring!Doublings
  <2>2. MinCapacity \in Ring!Capacities
    BY <2>1 DEF Ring!Capacities
  <2>3. MinCapacity < 2 * least
    BY <1>0, <1>1
  <2>4. PICK d \in Ring!Doublings : c = MinCapacity * d
    BY CapacityType
  <2>5. d \in Nat /\ d >= 1
    BY DEF Ring!Doublings
  <2>6. MinCapacity * d >= MinCapacity
    BY <2>5, <1>0
  <2> QED BY <2>2, <2>3, <2>4, <2>6
<1>3. S \in SUBSET Int /\ S # {} /\ c \in Int /\ \A y \in S : y <= c
  <2>1. c \in Nat
    BY <1>0
  <2>2. S \in SUBSET Int
    BY <1>0
  <2> QED BY <1>2, <2>1, <2>2
<1> HIDE DEF S
<1>4. s \in S /\ \A y \in S : y <= s
  BY <1>3, MaxIsGreatest, Zenon
<1>5. s \in Ring!Capacities /\ s <= c /\ s < 2 * least
  BY <1>4 DEF S
<1> HIDE DEF s
<1>6. s >= size
  <2> SUFFICES ASSUME s < size PROVE FALSE
    BY <1>0, <1>5
  <2>1. PICK d \in Ring!Doublings : s = MinCapacity * d
    BY <1>5, CapacityType
  <2>2. d \in Nat /\ d # 32768
    <3>1. d \in Nat
      BY DEF Ring!Doublings
    <3>2. ASSUME d = 32768 PROVE FALSE
      BY <2>1, <3>2, <1>0
    <3> QED BY <3>1, <3>2
  <2>3. 2 * d \in Ring!Doublings
    BY <2>2 DEF Ring!Doublings
  <2>4. 2 * s = MinCapacity * (2 * d)
    BY <2>1, <2>2, <1>0
  <2>5. 2 * s \in Ring!Capacities
    BY <2>3, <2>4 DEF Ring!Capacities
  <2>6. 2 * s <= c /\ 2 * s < 2 * least
    BY <1>0, <1>1, <1>5
  <2>7. 2 * s \in S
    BY <2>5, <2>6 DEF S
  <2>8. 2 * s <= s
    BY <1>4, <2>7
  <2> QED BY <2>8, <1>0, <1>5
<1> QED BY <1>5, <1>6 DEF Ring!Shrunk, s, S, least

\* adjust_to_size makes room for `size` numbers and keeps what there is.
LEMMA Adjusted ==
  ASSUME NEW c \in Ring!Capacities, NEW m, RingOver(m, c),
         NEW size \in Nat, size <= MaxPackets, m.end - m.begin <= size
  PROVE  \E k \in Ring!Capacities :
            /\ size <= k /\ RingOver(Ring!AdjustToSize(m, size), k)
            /\ Same(Ring!AdjustToSize(m, size), m)
<1> DEFINE g == IF size > c THEN Ring!Grown(c, size) ELSE c
           s == IF g > Ring!Max({MinCapacity, size * 4}) THEN Ring!Shrunk(g, size) ELSE g
<1>1. Ring!Capacity(m) = c
  BY CapacityOf
<1>2. g \in Ring!Capacities /\ g >= size
  BY GrownFits, CapacityType
<1> HIDE DEF g
<1>3. s \in Ring!Capacities /\ s >= size
  <2>1. Ring!Max({MinCapacity, size * 4}) \in Int /\ Ring!Max({MinCapacity, size * 4}) >= 4 * size
    BY EitherExtreme, RingBounds
  <2>2. g \in Nat
    BY <1>2, CapacityType
  <2>3. g > Ring!Max({MinCapacity, size * 4}) => g > 4 * size
    BY <2>1, <2>2
  <2> QED BY <1>2, <2>3, ShrunkFits
<1> HIDE DEF s
<1>4. Ring!AdjustToSize(m, size) = IF s = c THEN m ELSE Ring!Reallocate(m, s)
  BY <1>1 DEF Ring!AdjustToSize, g, s
<1>5. CASE s = c
  <2>1. Same(m, m)
    BY DEF Same
  <2> QED BY <1>3, <1>4, <1>5, <2>1
<1>6. CASE s # c
  <2>1. m = [cells |-> m.cells, begin |-> m.begin, end |-> m.end]
    BY DEF RingOver
  <2>2. m.begin \in Int /\ m.end \in Int /\ m.begin <= m.end /\ m.end - m.begin <= MaxPackets
    BY DEF RingOver
  <2>3. \A x \in Int : Ring!Get(m, x) \in Int
    BY GetOf
  <2>4. s \in Int /\ m.end - m.begin <= s
    BY <1>3, <2>2, CapacityType
  <2>5. RingOver(Ring!Reallocate(m, s), s) /\ Same(Ring!Reallocate(m, s), m)
    BY <1>3, <2>1, <2>2, <2>3, <2>4, Reallocated
  <2> QED BY <1>3, <1>4, <1>6, <2>5
<1> QED BY <1>5, <1>6

-----------------------------------------------------------------------------
\* What the ring stands for, after a step that heard `n` at time `t`: all else is as it
\* was, or is forgotten because it lies MaxPackets back.
Added(r, m, n, t) ==
    /\ Ring!Get(r, n) = t /\ n \in r.begin .. r.end - 1
    /\ \A x \in Int :
          x # n => \/ Ring!Get(r, x) = Ring!Get(m, x)
                   \/ Ring!Get(r, x) = Ring!Absent /\ x <= n - MaxPackets

\* Writing the slot of a number leaves the slots of its neighbours alone.
LEMMA PutCell ==
  ASSUME NEW c \in Ring!Capacities, NEW m, RingOver(m, c), NEW n \in Int, NEW t \in Int
  PROVE  LET cells == Ring!Put(m, n, t).cells
         IN  /\ Ring!Put(m, n, t) = [cells |-> cells, begin |-> m.begin, end |-> m.end]
             /\ cells \in [0 .. c - 1 -> Int]
             /\ cells[n % c] = t
             /\ \A x \in Int : x # n /\ x - n < c /\ n - x < c
                    => cells[x % c] = m.cells[x % c]
<1> DEFINE F == [0 .. c - 1 -> Int]
           cells == [m.cells EXCEPT ![n % c] = t]
           r == Ring!Put(m, n, t)
<1>1. c \in Nat \ {0} /\ m.begin \in Int /\ m.end \in Int
  BY CapacityType DEF RingOver
<1>2. n % c \in 0 .. c - 1
  BY <1>1, Slots
<1>3. m.cells \in F /\ m = [cells |-> m.cells, begin |-> m.begin, end |-> m.end]
  BY DEF RingOver
<1>4. cells \in F
  BY <1>3
<1>5. r = [cells |-> cells, begin |-> m.begin, end |-> m.end]
  <2>1. Ring!Slot(m, n) = n % c
    BY CapacityOf DEF Ring!Slot
  <2>2. r = [m EXCEPT !.cells = cells]
    BY <2>1, Zenon DEF Ring!Put
  <2> HIDE DEF cells, r
  <2> QED BY <1>3, <2>2
<1>6. cells[n % c] = t
  BY <1>2, <1>3
<1>7. ASSUME NEW x \in Int, x # n, x - n < c, n - x < c
      PROVE  cells[x % c] = m.cells[x % c]
  <2>1. x % c # n % c
    BY <1>1, <1>7, OwnSlot, Zenon
  <2>2. x % c \in DOMAIN m.cells
    BY <1>1, <1>3, Slots
  <2> QED BY <2>1, <2>2
<1> HIDE DEF cells, r
<1>8. r.cells = cells
  BY <1>5
<1> QED BY <1>4, <1>5, <1>6, <1>7, <1>8 DEF r

LEMMA PutOne ==
  ASSUME NEW c \in Ring!Capacities, NEW m, RingOver(m, c),
         NEW n \in m.begin .. m.end - 1, NEW t \in Int
  PROVE  /\ RingOver(Ring!Put(m, n, t), c)
         /\ Ring!Put(m, n, t).begin = m.begin /\ Ring!Put(m, n, t).end = m.end
         /\ Ring!Get(Ring!Put(m, n, t), n) = t
         /\ \A x \in Int : x # n => Ring!Get(Ring!Put(m, n, t), x) = Ring!Get(m, x)
<1> DEFINE F == [0 .. c - 1 -> Int]
           cells == Ring!Put(m, n, t).cells
           r == Ring!Put(m, n, t)
<1>1. c \in Nat \ {0} /\ m.begin \in Int /\ m.end \in Int /\ n \in Int
  BY CapacityType DEF RingOver
<1>2. /\ r = [cells |-> cells, begin |-> m.begin, end |-> m.end]
      /\ cells \in F /\ cells[n % c] = t
      /\ \A x \in Int : x # n /\ x - n < c /\ n - x < c => cells[x % c] = m.cells[x % c]
  BY <1>1, PutCell
<1> HIDE DEF cells, r
<1>3. r.begin = m.begin /\ r.end = m.end /\ r.cells = cells
  BY <1>2
<1>4. RingOver(r, c)
  <2>1. r \in [cells : F, begin : Int, end : Int]
    <3> HIDE DEF F
    <3> QED BY <1>1, <1>2
  <2> QED BY <1>3, <2>1 DEF RingOver
<1>5. Ring!Get(r, n) = t
  <2>1. n \in r.begin .. r.end - 1
    BY <1>3
  <2> QED BY <1>1, <1>2, <1>3, <1>4, <2>1, GetOf
<1>6. ASSUME NEW x \in Int, x # n PROVE Ring!Get(r, x) = Ring!Get(m, x)
  <2>1. CASE x \in m.begin .. m.end - 1
    <3>1. Ring!Get(r, x) = cells[x % c] /\ Ring!Get(m, x) = m.cells[x % c]
      BY <1>3, <1>4, <2>1, GetOf
    <3>2. x - n < c /\ n - x < c
      BY <1>1, <2>1 DEF RingOver
    <3> QED BY <1>2, <1>6, <3>1, <3>2
  <2>2. CASE x \notin m.begin .. m.end - 1
    BY <1>3, <1>4, <2>2, GetOf
  <2> QED BY <2>1, <2>2
<1> QED BY <1>3, <1>4, <1>5, <1>6 DEF r

\* The cells of the stretch from `from` to `to` are emptied, and no other.
Clear(r, m, c, from, to) ==
    /\ r = [cells |-> r.cells, begin |-> m.begin, end |-> m.end]
    /\ r.cells \in [0 .. c - 1 -> Int]
    /\ \A x \in from .. to - 1 : r.cells[x % c] = Ring!Absent
    /\ \A x \in Int : (\A y \in from .. to - 1 : x # y /\ x - y < c /\ y - x < c)
                => r.cells[x % c] = m.cells[x % c]

LEMMA Emptied ==
  ASSUME NEW c \in Ring!Capacities, NEW m, RingOver(m, c), NEW from \in Int, NEW to \in Int
  PROVE  Clear(Ring!SetNotReceived(m, from, to), m, c, from, to)
<1> DEFINE F == [0 .. c - 1 -> Int]
           cells == [i \in DOMAIN m.cells |->
                       IF \E y \in from .. to - 1 : Ring!Slot(m, y) = i
                       THEN Ring!Absent ELSE m.cells[i]]
           r == Ring!SetNotReceived(m, from, to)
<1>1. c \in Nat \ {0}
  BY CapacityType
<1>2. m.cells \in F /\ m = [cells |-> m.cells, begin |-> m.begin, end |-> m.end]
  BY DEF RingOver
<1>3. \A y : Ring!Slot(m, y) = y % c
  BY CapacityOf DEF Ring!Slot
<1>4. DOMAIN m.cells = 0 .. c - 1
  BY <1>2
<1>5. \A i \in 0 .. c - 1 : cells[i] = IF \E y \in from .. to - 1 : y % c = i
                                      THEN Ring!Absent ELSE m.cells[i]
  BY <1>3, <1>4
<1>6. cells \in F
  <2>1. cells = [i \in 0 .. c - 1 |-> cells[i]]
    BY <1>4
  <2>2. \A i \in 0 .. c - 1 : m.cells[i] \in Int
    BY <1>2
  <2> HIDE DEF cells
  <2>3. \A i \in 0 .. c - 1 : cells[i] \in Int
    BY <1>5, <2>2 DEF Ring!Absent
  <2> QED BY <2>1, <2>3
<1>7. r = [cells |-> cells, begin |-> m.begin, end |-> m.end]
  <2>1. r = [m EXCEPT !.cells = cells]
    BY Zenon DEF Ring!SetNotReceived
  <2> HIDE DEF cells, r
  <2> QED BY <1>2, <2>1
<1> HIDE DEF cells, r
<1>8. r.cells = cells
  BY <1>7
<1>9. \A x \in from .. to - 1 : cells[x % c] = Ring!Absent
  <2> TAKE x \in from .. to - 1
  <2>0. x \in Int
    OBVIOUS
  <2>1. x % c \in 0 .. c - 1
    BY <1>1, <2>0, Slots
  <2> QED BY <1>5, <2>1
<1>10. ASSUME NEW x \in Int, \A y \in from .. to - 1 : x # y /\ x - y < c /\ y - x < c
       PROVE  cells[x % c] = m.cells[x % c]
  <2>1. x % c \in 0 .. c - 1
    BY <1>1, Slots
  <2>2. ASSUME NEW y \in from .. to - 1 PROVE y % c # x % c
    <3>1. y \in Int /\ x # y /\ x - y < c /\ y - x < c
      BY <1>10
    <3> QED BY <1>1, <3>1, OwnSlot, Zenon
  <2> QED BY <1>5, <2>1, <2>2
<1> QED BY <1>6, <1>7, <1>8, <1>9, <1>10 DEF r, Clear

-----------------------------------------------------------------------------
\* The five cases of add_packet.
LEMMA AddedFirst ==
  ASSUME NEW n \in Int, NEW t \in Int
  PROVE  \E k \in Ring!Capacities :
            /\ RingOver(Ring!AddFirst(Ring!EmptyMap, n, t), k)
            /\ Added(Ring!AddFirst(Ring!EmptyMap, n, t), Ring!EmptyMap, n, t)
<1> DEFINE none == Ring!Reallocate(Ring!EmptyMap, MinCapacity)
           one  == [cells |-> none.cells, begin |-> n, end |-> n + 1]
           r == Ring!AddFirst(Ring!EmptyMap, n, t)
           F == [0 .. MinCapacity - 1 -> Int]
<1>1. MinCapacity \in Ring!Capacities
  <2>1. 1 \in Ring!Doublings /\ MinCapacity = MinCapacity * 1
    BY RingBounds DEF Ring!Doublings
  <2> QED BY <2>1 DEF Ring!Capacities
<1>2. \A x \in Int : Ring!Get(Ring!EmptyMap, x) = Ring!Absent
  BY DEF Ring!Get, Ring!InWindow, Ring!EmptyMap
<1>3. RingOver(none, MinCapacity) /\ Same(none, Ring!EmptyMap)
  <2>1. Ring!EmptyMap = [cells |-> Ring!EmptyMap.cells, begin |-> 0, end |-> 0]
    BY DEF Ring!EmptyMap
  <2>2. \A x \in Int : Ring!Get(Ring!EmptyMap, x) \in Int
    BY <1>2 DEF Ring!Absent
  <2>3. 0 \in Int /\ 0 <= 0 /\ 0 - 0 <= MinCapacity /\ 0 - 0 <= MaxPackets
    BY RingBounds
  <2> QED BY <1>1, <2>1, <2>2, <2>3, Reallocated, Zenon
<1> HIDE DEF none
<1>4. RingOver(one, MinCapacity) /\ one.begin = n /\ one.end = n + 1
  <2>1. none.cells \in F /\ none = [cells |-> none.cells, begin |-> none.begin, end |-> none.end]
    BY <1>3 DEF RingOver
  <2>2. one = [cells |-> none.cells, begin |-> n, end |-> n + 1]
    OBVIOUS
  <2> HIDE DEF one
  <2>3. one \in [cells : F, begin : Int, end : Int]
    <3> HIDE DEF F
    <3> QED BY <2>1, <2>2
  <2>4. one.begin = n /\ one.end = n + 1
    BY <2>2
  <2> QED BY <2>3, <2>4, RingBounds DEF RingOver
<1> HIDE DEF one
<1>5. r = Ring!Put(one, n, t)
  BY Zenon DEF Ring!AddFirst, one, none
<1>6. n \in one.begin .. one.end - 1
  BY <1>4
<1>7. /\ RingOver(r, MinCapacity) /\ r.begin = n /\ r.end = n + 1
      /\ Ring!Get(r, n) = t
  BY <1>1, <1>4, <1>5, <1>6, PutOne
<1>8. Added(r, Ring!EmptyMap, n, t)
  <2>1. ASSUME NEW x \in Int, x # n PROVE Ring!Get(r, x) = Ring!Get(Ring!EmptyMap, x)
    <3>1. x \notin r.begin .. r.end - 1
      BY <1>7, <2>1
    <3>2. Ring!Get(r, x) = Ring!Absent
      BY <1>1, <1>7, <3>1, GetOf
    <3> QED BY <1>2, <3>2
  <2>2. n \in r.begin .. r.end - 1
    BY <1>7
  <2> HIDE DEF r
  <2> QED BY <1>7, <2>1, <2>2 DEF Added
<1> QED BY <1>1, <1>7, <1>8

LEMMA AddedInside ==
  ASSUME NEW c \in Ring!Capacities, NEW m, RingOver(m, c),
         NEW n \in m.begin .. m.end - 1, NEW t \in Int
  PROVE  RingOver(Ring!Put(m, n, t), c) /\ Added(Ring!Put(m, n, t), m, n, t)
<1> DEFINE r == Ring!Put(m, n, t)
<1>1. /\ RingOver(r, c) /\ r.begin = m.begin /\ r.end = m.end /\ Ring!Get(r, n) = t
      /\ \A x \in Int : x # n => Ring!Get(r, x) = Ring!Get(m, x)
  BY PutOne
<1> HIDE DEF r
<1>2. Added(r, m, n, t)
  BY <1>1 DEF Added
<1> QED BY <1>1, <1>2 DEF r

LEMMA AddedFarAfter ==
  ASSUME NEW c \in Ring!Capacities, NEW m, RingOver(m, c),
         NEW n \in Int, NEW t \in Int, n + 1 >= m.end + MaxPackets
  PROVE  /\ RingOver(Ring!AddFarAfter(m, n, t), c)
         /\ Added(Ring!AddFarAfter(m, n, t), m, n, t)
<1> DEFINE one == [cells |-> m.cells, begin |-> n, end |-> n + 1]
           r == Ring!AddFarAfter(m, n, t)
           F == [0 .. c - 1 -> Int]
<1>1. c \in Nat \ {0} /\ m.begin \in Int /\ m.end \in Int
  BY CapacityType DEF RingOver
<1>2. RingOver(one, c) /\ one.begin = n /\ one.end = n + 1
  <2>1. m.cells \in F /\ m = [cells |-> m.cells, begin |-> m.begin, end |-> m.end]
    BY DEF RingOver
  <2>2. one = [cells |-> m.cells, begin |-> n, end |-> n + 1]
    OBVIOUS
  <2> HIDE DEF one
  <2>3. one \in [cells : F, begin : Int, end : Int]
    <3> HIDE DEF F
    <3> QED BY <2>1, <2>2
  <2>4. one.begin = n /\ one.end = n + 1
    BY <2>2
  <2> QED BY <1>1, <2>3, <2>4, RingBounds DEF RingOver
<1> HIDE DEF one
<1>3. r = Ring!Put(one, n, t)
  BY Zenon DEF Ring!AddFarAfter, one
<1>4. n \in one.begin .. one.end - 1
  BY <1>2
<1>5. RingOver(r, c) /\ r.begin = n /\ r.end = n + 1 /\ Ring!Get(r, n) = t
  BY <1>2, <1>3, <1>4, PutOne
<1>6. Added(r, m, n, t)
  <2>1. ASSUME NEW x \in Int, x # n
        PROVE  \/ Ring!Get(r, x) = Ring!Get(m, x)
               \/ Ring!Get(r, x) = Ring!Absent /\ x <= n - MaxPackets
    <3>1. x \notin r.begin .. r.end - 1
      BY <1>5, <2>1
    <3>2. Ring!Get(r, x) = Ring!Absent
      BY <1>5, <3>1, GetOf
    <3>3. CASE x \in m.begin .. m.end - 1
      BY <3>2, <3>3, <1>1, RingBounds
    <3>4. CASE x \notin m.begin .. m.end - 1
      BY <3>2, <3>4, GetOf
    <3> QED BY <3>3, <3>4
  <2>2. n \in r.begin .. r.end - 1
    BY <1>5
  <2> HIDE DEF r
  <2> QED BY <1>5, <2>1, <2>2 DEF Added
<1> QED BY <1>5, <1>6 DEF r

LEMMA AddedBefore ==
  ASSUME NEW c \in Ring!Capacities, NEW m, RingOver(m, c),
         NEW n \in Int, NEW t \in Int, n < m.begin, m.end - n <= MaxPackets
  PROVE  \E k \in Ring!Capacities :
            RingOver(Ring!AddBefore(m, n, t), k) /\ Added(Ring!AddBefore(m, n, t), m, n, t)
<1> DEFINE size == m.end - n
           wide == Ring!AdjustToSize(m, size)
           put == Ring!Put(wide, n, t)
           gap == Ring!SetNotReceived(put, n + 1, wide.begin)
           r == Ring!AddBefore(m, n, t)
<1>1. m.begin \in Int /\ m.end \in Int /\ m.begin <= m.end
  BY DEF RingOver
<1>2. size \in Nat /\ size <= MaxPackets /\ m.end - m.begin <= size
  BY <1>1
<1>r. r = [gap EXCEPT !.begin = n]
  BY Zenon DEF Ring!AddBefore
<1> HIDE DEF r
<1>3. PICK k \in Ring!Capacities : size <= k /\ RingOver(wide, k) /\ Same(wide, m)
  <2> HIDE DEF size
  <2> QED BY <1>2, Adjusted
<1> HIDE DEF wide
<1>4. k \in Nat \ {0}
  BY CapacityType
<1>5. wide.begin = m.begin /\ wide.end = m.end
  BY <1>3 DEF Same
<1>6. /\ put = [cells |-> put.cells, begin |-> m.begin, end |-> m.end]
      /\ put.cells \in [0 .. k - 1 -> Int] /\ put.cells[n % k] = t
      /\ \A x \in Int : x # n /\ x - n < k /\ n - x < k => put.cells[x % k] = wide.cells[x % k]
  BY <1>3, <1>5, PutCell
<1> HIDE DEF put
<1>7. RingOver(put, k)
  <2> DEFINE F == [0 .. k - 1 -> Int]
             cs == put.cells
  <2>1. put = [cells |-> cs, begin |-> m.begin, end |-> m.end] /\ cs \in F
    BY <1>6
  <2> HIDE DEF F, cs
  <2>2. put \in [cells : F, begin : Int, end : Int] /\ put.begin = m.begin /\ put.end = m.end
    BY <1>1, <2>1
  <2>3. m.end - m.begin <= k /\ m.end - m.begin <= MaxPackets
    BY <1>3, <1>5 DEF RingOver
  <2> QED BY <1>1, <2>2, <2>3 DEF RingOver, F
<1>8. /\ gap = [cells |-> gap.cells, begin |-> put.begin, end |-> put.end]
      /\ gap.cells \in [0 .. k - 1 -> Int]
      /\ \A x \in n + 1 .. m.begin - 1 : gap.cells[x % k] = Ring!Absent
      /\ \A x \in Int : (\A y \in n + 1 .. m.begin - 1 : x # y /\ x - y < k /\ y - x < k)
                => gap.cells[x % k] = put.cells[x % k]
  <2>1. n + 1 \in Int /\ gap = Ring!SetNotReceived(put, n + 1, m.begin)
    BY <1>5
  <2> HIDE DEF gap
  <2>2. Clear(gap, put, k, n + 1, m.begin)
    BY <1>1, <1>3, <1>7, <2>1, Emptied, Zenon
  <2> QED BY <2>2 DEF Clear
<1> HIDE DEF gap
<1>9. RingOver(r, k) /\ r.begin = n /\ r.end = m.end /\ r.cells = gap.cells
  <2> DEFINE F == [0 .. k - 1 -> Int]
             cs == gap.cells
  <2>1. gap = [cells |-> cs, begin |-> put.begin, end |-> put.end] /\ cs \in F
    BY <1>8
  <2>2. put.end = m.end
    BY <1>6
  <2> HIDE DEF F, cs
  <2>3. r = [cells |-> cs, begin |-> n, end |-> m.end]
    BY <1>r, <2>1, <2>2
  <2>4. r \in [cells : F, begin : Int, end : Int] /\ r.begin = n /\ r.end = m.end
    BY <1>1, <2>1, <2>3
  <2>5. RingOver(r, k)
    BY <1>1, <1>2, <1>3, <2>4 DEF RingOver, F
  <2> QED BY <2>3, <2>5 DEF cs
<1>10. Ring!Get(r, n) = t
  <2>1. Ring!Get(r, n) = gap.cells[n % k]
    BY <1>1, <1>9, GetOf
  <2>2. \A y \in n + 1 .. m.begin - 1 : n # y /\ n - y < k /\ y - n < k
    BY <1>1, <1>3, <1>4
  <2> QED BY <1>6, <1>8, <2>1, <2>2
<1>11. ASSUME NEW x \in Int, x # n PROVE Ring!Get(r, x) = Ring!Get(m, x)
  <2>1. CASE x \in m.begin .. m.end - 1
    <3>1. Ring!Get(r, x) = gap.cells[x % k]
      BY <1>1, <1>9, <2>1, GetOf
    <3>2. \A y \in n + 1 .. m.begin - 1 : x # y /\ x - y < k /\ y - x < k
      BY <1>1, <1>3, <1>4, <2>1
    <3>3. x - n < k /\ n - x < k
      BY <1>1, <1>3, <1>4, <2>1
    <3>4. gap.cells[x % k] = wide.cells[x % k]
      BY <1>6, <1>8, <1>11, <3>2, <3>3
    <3>5. Ring!Get(wide, x) = wide.cells[x % k]
      BY <1>3, <1>5, <2>1, GetOf
    <3> QED BY <1>3, <3>1, <3>4, <3>5 DEF Same
  <2>2. CASE x \in n + 1 .. m.begin - 1
    <3>1. Ring!Get(r, x) = gap.cells[x % k]
      BY <1>1, <1>9, <2>2, GetOf
    <3>2. Ring!Get(m, x) = Ring!Absent
      BY <1>1, <2>2, GetOf
    <3> QED BY <1>8, <2>2, <3>1, <3>2
  <2>3. CASE x \notin n .. m.end - 1
    BY <1>1, <1>9, <2>3, GetOf
  <2> QED BY <1>1, <1>11, <2>1, <2>2, <2>3
<1>12. Added(r, m, n, t)
  <2>1. n \in r.begin .. r.end - 1
    BY <1>1, <1>9
  <2> QED BY <1>10, <1>11, <2>1 DEF Added
<1> QED BY <1>9, <1>12 DEF r

\* A window whose head is cut off.
LEMMA Narrowed ==
  ASSUME NEW c \in Ring!Capacities, NEW m, RingOver(m, c), NEW head \in m.begin .. m.end
  PROVE  LET r == [m EXCEPT !.begin = head]
         IN  /\ RingOver(r, c) /\ r.begin = head /\ r.end = m.end
             /\ \A x \in Int : x >= head => Ring!Get(r, x) = Ring!Get(m, x)
             /\ \A x \in Int : x < head => Ring!Get(r, x) = Ring!Absent
<1> DEFINE r == [m EXCEPT !.begin = head]
           F == [0 .. c - 1 -> Int]
<1>1. m.begin \in Int /\ m.end \in Int /\ head \in Int /\ m.begin <= head /\ head <= m.end
  BY DEF RingOver
<1>2. m.cells \in F /\ m = [cells |-> m.cells, begin |-> m.begin, end |-> m.end]
  BY DEF RingOver
<1>3. r = [cells |-> m.cells, begin |-> head, end |-> m.end]
  BY <1>2
<1> HIDE DEF r
<1>4. r.begin = head /\ r.end = m.end /\ r.cells = m.cells
  BY <1>3
<1>5. RingOver(r, c)
  <2>1. r \in [cells : F, begin : Int, end : Int]
    <3> HIDE DEF F
    <3> QED BY <1>1, <1>2, <1>3
  <2>2. m.end - m.begin <= c /\ m.end - m.begin <= MaxPackets /\ c \in Nat
    BY CapacityType DEF RingOver
  <2> QED BY <1>1, <1>4, <2>1, <2>2, RingBounds DEF RingOver
<1>6. ASSUME NEW x \in Int, x >= head PROVE Ring!Get(r, x) = Ring!Get(m, x)
  <2>1. CASE x < m.end
    <3>1. x \in r.begin .. r.end - 1 /\ x \in m.begin .. m.end - 1
      BY <1>1, <1>4, <1>6, <2>1
    <3> QED BY <1>4, <1>5, <3>1, GetOf
  <2>2. CASE ~ (x < m.end)
    <3>1. x \notin r.begin .. r.end - 1 /\ x \notin m.begin .. m.end - 1
      BY <1>1, <1>4, <1>6, <2>2
    <3> QED BY <1>4, <1>5, <3>1, GetOf
  <2> QED BY <2>1, <2>2
<1>7. ASSUME NEW x \in Int, x < head PROVE Ring!Get(r, x) = Ring!Absent
  <2>1. x \notin r.begin .. r.end - 1
    BY <1>1, <1>4, <1>7
  <2> QED BY <1>5, <2>1, GetOf
<1> QED BY <1>4, <1>5, <1>6, <1>7 DEF r

LEMMA AddedAfter ==
  ASSUME NEW c \in Ring!Capacities, NEW m, RingOver(m, c),
         NEW n \in Int, NEW t \in Int, n >= m.end, n + 1 < m.end + MaxPackets
  PROVE  \E k \in Ring!Capacities :
            RingOver(Ring!AddAfter(m, n, t), k) /\ Added(Ring!AddAfter(m, n, t), m, n, t)
<1> DEFINE oldest == Ring!Max({m.begin, n + 1 - MaxPackets})
           cut == [m EXCEPT !.begin = oldest]
           size == n + 1 - oldest
           wide == Ring!AdjustToSize(cut, size)
           gap == Ring!SetNotReceived(wide, m.end, n)
           long == [gap EXCEPT !.end = n + 1]
           r == Ring!AddAfter(m, n, t)
<1>1. m.begin \in Int /\ m.end \in Int /\ m.begin <= m.end /\ MaxPackets \in Nat
  BY RingBounds DEF RingOver
<1>2. oldest = IF m.begin >= n + 1 - MaxPackets THEN m.begin ELSE n + 1 - MaxPackets
  <2>1. n + 1 - MaxPackets \in Int
    BY <1>1
  <2> QED BY <1>1, <2>1, EitherExtreme
<1>r. r = Ring!Put(long, n, t)
  BY Zenon DEF Ring!AddAfter
<1> HIDE DEF oldest, r
<1>3. /\ oldest \in m.begin .. m.end /\ oldest \in Int
      /\ size \in Nat /\ size <= MaxPackets
      /\ \A x \in Int : x < oldest => x < m.begin \/ x <= n - MaxPackets
  BY <1>1, <1>2
<1>4. /\ RingOver(cut, c) /\ cut.begin = oldest /\ cut.end = m.end
      /\ \A x \in Int : x >= oldest => Ring!Get(cut, x) = Ring!Get(m, x)
  BY <1>3, Narrowed
<1> HIDE DEF cut
<1>5. PICK k \in Ring!Capacities : size <= k /\ RingOver(wide, k) /\ Same(wide, cut)
  <2>1. cut.end - cut.begin <= size
    BY <1>1, <1>3, <1>4
  <2> HIDE DEF size
  <2> QED BY <1>3, <1>4, <2>1, Adjusted
<1> HIDE DEF wide
<1>6. k \in Nat \ {0}
  BY <1>5, CapacityType
<1>7. wide.begin = oldest /\ wide.end = m.end
  BY <1>4, <1>5 DEF Same
<1>8. Clear(gap, wide, k, m.end, n)
  BY <1>1, <1>5, Emptied, Zenon
<1> HIDE DEF gap
<1>9. RingOver(long, k) /\ long.begin = oldest /\ long.end = n + 1 /\ long.cells = gap.cells
  <2> DEFINE F == [0 .. k - 1 -> Int]
             cs == gap.cells
  <2>1. gap = [cells |-> cs, begin |-> wide.begin, end |-> wide.end] /\ cs \in F
    BY <1>8 DEF Clear
  <2> HIDE DEF F, cs
  <2>2. long = [cells |-> cs, begin |-> oldest, end |-> n + 1]
    BY <1>7, <2>1
  <2> HIDE DEF long
  <2>3. long \in [cells : F, begin : Int, end : Int] /\ long.begin = oldest /\ long.end = n + 1
    BY <1>3, <2>1, <2>2
  <2>4. oldest <= n + 1 /\ n + 1 - oldest <= k
    BY <1>1, <1>3, <1>5
  <2>5. RingOver(long, k)
    BY <1>3, <2>3, <2>4 DEF RingOver, F
  <2> QED BY <2>2, <2>5 DEF cs
<1> HIDE DEF long
<1>10. n \in long.begin .. long.end - 1
  BY <1>1, <1>3, <1>9
<1>11. /\ RingOver(r, k) /\ r.begin = oldest /\ r.end = n + 1 /\ Ring!Get(r, n) = t
       /\ \A x \in Int : x # n => Ring!Get(r, x) = Ring!Get(long, x)
  BY <1>5, <1>9, <1>10, <1>r, PutOne
<1>12. ASSUME NEW x \in Int, x # n, x >= oldest PROVE Ring!Get(long, x) = Ring!Get(m, x)
  <2>1. CASE x \in oldest .. m.end - 1
    <3>1. x \in long.begin .. long.end - 1 /\ x \in wide.begin .. wide.end - 1
      BY <1>1, <1>3, <1>7, <1>9, <2>1
    <3>2. Ring!Get(long, x) = gap.cells[x % k] /\ Ring!Get(wide, x) = wide.cells[x % k]
      BY <1>5, <1>9, <3>1, GetOf
    <3>3. \A y \in m.end .. n - 1 : x # y /\ x - y < k /\ y - x < k
      BY <1>1, <1>3, <1>5, <1>6, <2>1
    <3>4. gap.cells[x % k] = wide.cells[x % k]
      BY <1>8, <3>3 DEF Clear
    <3>5. Ring!Get(wide, x) = Ring!Get(m, x)
      BY <1>4, <1>5, <1>12 DEF Same
    <3> QED BY <3>2, <3>4, <3>5
  <2>2. CASE x \in m.end .. n - 1
    <3>1. x \in long.begin .. long.end - 1 /\ x \notin m.begin .. m.end - 1
      BY <1>1, <1>3, <1>9, <2>2
    <3>2. Ring!Get(long, x) = gap.cells[x % k] /\ Ring!Get(m, x) = Ring!Absent
      BY <1>5, <1>9, <3>1, GetOf
    <3>3. gap.cells[x % k] = Ring!Absent
      BY <1>8, <2>2 DEF Clear
    <3> QED BY <3>2, <3>3
  <2>3. CASE x > n
    <3>1. x \notin long.begin .. long.end - 1 /\ x \notin m.begin .. m.end - 1
      BY <1>1, <1>3, <1>9, <2>3
    <3> QED BY <1>5, <1>9, <3>1, GetOf
  <2> QED BY <1>1, <1>3, <1>12, <2>1, <2>2, <2>3
<1>13. ASSUME NEW x \in Int, x < oldest
       PROVE  \/ Ring!Get(long, x) = Ring!Get(m, x)
              \/ Ring!Get(long, x) = Ring!Absent /\ x <= n - MaxPackets
  <2>1. x \notin long.begin .. long.end - 1
    BY <1>3, <1>9, <1>13
  <2>2. Ring!Get(long, x) = Ring!Absent
    BY <1>5, <1>9, <2>1, GetOf
  <2>3. CASE x < m.begin
    <3>1. x \notin m.begin .. m.end - 1
      BY <1>1, <2>3
    <3>2. Ring!Get(m, x) = Ring!Absent
      BY <3>1, GetOf
    <3> QED BY <2>2, <3>2
  <2> QED BY <1>3, <1>13, <2>2, <2>3
<1>14. Added(r, m, n, t)
  <2>1. n \in r.begin .. r.end - 1
    BY <1>9, <1>10, <1>11
  <2>2. ASSUME NEW x \in Int, x # n
        PROVE  \/ Ring!Get(r, x) = Ring!Get(m, x)
               \/ Ring!Get(r, x) = Ring!Absent /\ x <= n - MaxPackets
    BY <1>3, <1>11, <1>12, <1>13, <2>2
  <2> QED BY <1>11, <2>1, <2>2 DEF Added
<1> QED BY <1>5, <1>11, <1>14 DEF r

RingOK(m) == m = Ring!EmptyMap \/ \E c \in Ring!Capacities : RingOver(m, c)

LEMMA EmptyRing ==
    /\ Ring!Capacity(Ring!EmptyMap) = 0
    /\ \A x \in Int : Ring!Get(Ring!EmptyMap, x) = Ring!Absent
<1>1. DOMAIN Ring!EmptyMap.cells = {}
  BY DEF Ring!EmptyMap
<1>2. \A S : Ring!Cardinality(S) = Cardinality(S)
  BY Zenon DEF Ring!Cardinality, Cardinality
<1>3. Ring!Capacity(Ring!EmptyMap) = 0
  BY <1>1, <1>2, FS_EmptySet DEF Ring!Capacity
<1> QED BY <1>3 DEF Ring!Get, Ring!InWindow, Ring!EmptyMap

\* The first or a repeated number, one before, after or far after the window; a number
\* too far back is refused.
LEMMA AddedPacket ==
  ASSUME NEW m, RingOK(m), NEW n \in Int, NEW t \in Int
  PROVE  LET r == Ring!AddPacket(m, n, t)
         IN  /\ RingOK(r)
             /\ Added(r, m, n, t) \/ (r = m /\ n < m.begin /\ Ring!Capacity(m) > 0)
<1> DEFINE r == Ring!AddPacket(m, n, t)
<1>1. CASE m = Ring!EmptyMap
  <2>1. r = Ring!AddFirst(Ring!EmptyMap, n, t)
    BY <1>1, EmptyRing DEF Ring!AddPacket
  <2> HIDE DEF r
  <2> QED BY <1>1, <2>1, AddedFirst DEF RingOK, r
<1>2. ASSUME NEW c \in Ring!Capacities, RingOver(m, c)
      PROVE  RingOK(r) /\ (Added(r, m, n, t) \/ (r = m /\ n < m.begin /\ Ring!Capacity(m) > 0))
  <2>1. Ring!Capacity(m) > 0
    BY <1>2, CapacityOf, CapacityType
  <2>2. m.begin \in Int /\ m.end \in Int
    BY <1>2 DEF RingOver
  <2>3. CASE n \in m.begin .. m.end - 1
    <3>1. r = Ring!Put(m, n, t)
      BY <2>1, <2>2, <2>3 DEF Ring!AddPacket, Ring!InWindow
    <3> HIDE DEF r
    <3> QED BY <1>2, <2>3, <3>1, AddedInside DEF RingOK
  <2>4. CASE n < m.begin /\ m.end - n > MaxPackets
    <3>1. r = m
      BY <2>1, <2>2, <2>4, RingBounds DEF Ring!AddPacket, Ring!InWindow
    <3> HIDE DEF r
    <3> QED BY <1>2, <2>1, <2>4, <3>1 DEF RingOK
  <2>5. CASE n < m.begin /\ m.end - n <= MaxPackets
    <3>0. n \notin m.begin .. m.end - 1 /\ ~ (m.end - n > MaxPackets) /\ ~ (n >= m.end)
      BY <1>2, <2>2, <2>5, RingBounds DEF RingOver
    <3>1. r = Ring!AddBefore(m, n, t)
      BY <2>1, <2>2, <2>5, <3>0 DEF Ring!AddPacket, Ring!InWindow
    <3> HIDE DEF r
    <3> QED BY <1>2, <2>5, <3>1, AddedBefore DEF RingOK
  <2>6. CASE n >= m.end /\ n + 1 >= m.end + MaxPackets
    <3>1. ~ (n < m.begin)
      BY <1>2, <2>2, <2>6 DEF RingOver
    <3>2. r = Ring!AddFarAfter(m, n, t)
      BY <2>1, <2>2, <2>6, <3>1, RingBounds DEF Ring!AddPacket, Ring!InWindow
    <3> HIDE DEF r
    <3> QED BY <1>2, <2>6, <3>2, AddedFarAfter DEF RingOK
  <2>7. CASE n >= m.end /\ n + 1 < m.end + MaxPackets
    <3>1. ~ (n < m.begin)
      BY <1>2, <2>2, <2>7 DEF RingOver
    <3>2. r = Ring!AddAfter(m, n, t)
      BY <2>1, <2>2, <2>7, <3>1, RingBounds DEF Ring!AddPacket, Ring!InWindow
    <3> HIDE DEF r
    <3> QED BY <1>2, <2>7, <3>2, AddedAfter DEF RingOK
  <2> HIDE DEF r
  <2> QED BY <2>2, <2>3, <2>4, <2>5, <2>6, <2>7, RingBounds
<1> QED BY <1>1, <1>2 DEF RingOK

\* What is culled lies before the number heard.
LEMMA RemovedOld ==
  ASSUME NEW c \in Ring!Capacities, NEW m, RingOver(m, c), NEW n \in Int, NEW limit \in Int
  PROVE  LET r == Ring!RemoveOld(m, n, limit)
         IN  /\ RingOK(r)
             /\ \A x \in Int :
                    \/ Ring!Get(r, x) = Ring!Get(m, x)
                    \/ Ring!Get(r, x) = Ring!Absent /\ x < n
<1> DEFINE to == Ring!Min({n, m.end})
           young == {x \in m.begin .. to - 1 : Ring!Get(m, x) > limit}
           head == IF young # {} THEN Ring!Min(young) ELSE Ring!Max({m.begin, to})
           cut == [m EXCEPT !.begin = head]
           size == m.end - head
           r == Ring!RemoveOld(m, n, limit)
<1>1. m.begin \in Int /\ m.end \in Int /\ m.begin <= m.end /\ m.end - m.begin <= MaxPackets
  BY DEF RingOver
<1>2. to = IF n <= m.end THEN n ELSE m.end
  BY <1>1, EitherExtreme
<1>r. r = Ring!AdjustToSize(cut, size)
  BY Zenon DEF Ring!RemoveOld
<1> HIDE DEF to, r
<1>3. to \in Int /\ to <= n /\ to <= m.end
  BY <1>1, <1>2
<1>4. head \in m.begin .. m.end /\ \A x \in Int : x < head => x < m.begin \/ x < n
  <2>1. CASE young # {}
    <3>1. young \in SUBSET Int /\ m.begin \in Int /\ \A y \in young : m.begin <= y
      BY <1>1, <1>3
    <3> HIDE DEF young
    <3>2. Ring!Min(young) \in young
      BY <2>1, <3>1, MinIsLeast, Zenon
    <3>3. head \in m.begin .. to - 1
      BY <2>1, <3>2 DEF young
    <3> HIDE DEF head
    <3> QED BY <1>1, <1>3, <3>3
  <2>2. CASE young = {}
    <3>1. head = IF m.begin >= to THEN m.begin ELSE to
      BY <1>1, <1>3, <2>2, EitherExtreme
    <3> HIDE DEF head
    <3> QED BY <1>1, <1>3, <3>1
  <2> QED BY <2>1, <2>2
<1> HIDE DEF head
<1>5. /\ RingOver(cut, c) /\ cut.begin = head /\ cut.end = m.end
      /\ \A x \in Int : x >= head => Ring!Get(cut, x) = Ring!Get(m, x)
      /\ \A x \in Int : x < head => Ring!Get(cut, x) = Ring!Absent
  BY <1>4, Narrowed
<1> HIDE DEF cut
<1>6. PICK k \in Ring!Capacities : RingOver(r, k) /\ Same(r, cut)
  <2>1. head \in Int /\ size \in Nat /\ size <= MaxPackets /\ cut.end - cut.begin <= size
    <3>1. head \in Int /\ m.begin <= head /\ head <= m.end
      BY <1>1, <1>4
    <3> QED BY <1>1, <1>5, <3>1, RingBounds
  <2> HIDE DEF size
  <2> QED BY <1>5, <1>r, <2>1, Adjusted
<1>7. ASSUME NEW x \in Int
      PROVE  \/ Ring!Get(r, x) = Ring!Get(m, x)
             \/ Ring!Get(r, x) = Ring!Absent /\ x < n
  <2>1. Ring!Get(r, x) = Ring!Get(cut, x)
    BY <1>6 DEF Same
  <2>2. CASE x >= head
    BY <1>5, <2>1, <2>2
  <2>3. CASE x < head
    <3>1. Ring!Get(r, x) = Ring!Absent
      BY <1>5, <2>1, <2>3
    <3>2. CASE x < m.begin
      <4>1. x \notin m.begin .. m.end - 1
        BY <1>1, <3>2
      <4> QED BY <3>1, <4>1, GetOf
    <3> QED BY <1>4, <2>3, <3>1, <3>2
  <2>4. head \in Int
    BY <1>1, <1>4
  <2> QED BY <2>2, <2>3, <2>4
<1>8. RingOK(r)
  BY <1>6 DEF RingOK
<1> QED BY <1>7, <1>8 DEF r

-----------------------------------------------------------------------------
\* The recorder over the ring.
Kept(m) == {x \in Int : Ring!Get(m, x) # Ring!Absent}

LEMMA KeptInWindow ==
  ASSUME NEW m, RingOK(m)
  PROVE  /\ m.begin \in Int /\ m.end \in Int
         /\ \A x \in Kept(m) : x \in Int /\ m.begin <= x /\ x < m.end /\ Ring!Capacity(m) > 0
<1>1. m.begin \in Int /\ m.end \in Int
  BY DEF RingOK, RingOver, Ring!EmptyMap
<1>2. ASSUME NEW x \in Kept(m)
      PROVE  x \in Int /\ m.begin <= x /\ x < m.end /\ Ring!Capacity(m) > 0
  <2>1. x \in Int /\ Ring!Get(m, x) # Ring!Absent
    BY DEF Kept
  <2>2. x \in m.begin .. m.end - 1
    BY <2>1 DEF Ring!Get, Ring!InWindow
  <2>3. m # Ring!EmptyMap
    BY <2>1, EmptyRing
  <2>4. PICK c \in Ring!Capacities : RingOver(m, c)
    BY <2>3 DEF RingOK
  <2>5. Ring!Capacity(m) > 0
    BY <2>4, CapacityOf, CapacityType
  <2> QED BY <1>1, <2>1, <2>2, <2>5
<1> QED BY <1>1, <1>2

LEMMA ArrivalsOf ==
  ASSUME NEW m, RingOK(m)
  PROVE  /\ DOMAIN Ring!Arrivals(m) = Kept(m)
         /\ \A x \in Kept(m) : Ring!Arrivals(m)[x] = Ring!Get(m, x)
<1>1. {x \in m.begin .. m.end - 1 : Ring!HasReceived(m, x)} = Kept(m)
  <2>1. ASSUME NEW x \in Kept(m) PROVE x \in m.begin .. m.end - 1 /\ Ring!HasReceived(m, x)
    BY KeptInWindow DEF Kept, Ring!HasReceived
  <2>2. ASSUME NEW x \in m.begin .. m.end - 1, Ring!HasReceived(m, x) PROVE x \in Kept(m)
    BY <2>2, KeptInWindow DEF Kept, Ring!HasReceived
  <2> QED BY <2>1, <2>2
<1> QED BY <1>1 DEF Ring!Arrivals

LEMMA CulledRing ==
  ASSUME RingOK(map), NEW n \in Int, NEW t \in Nat
  PROVE  /\ RingOK(Culled(n, t))
         /\ \A x \in Int :
                \/ Ring!Get(Culled(n, t), x) = Ring!Get(map, x)
                \/ Ring!Get(Culled(n, t), x) = Ring!Absent /\ x < n /\ start >= map.end
<1>1. CASE Started /\ start >= map.end /\ t >= Window
  <2>1. map # Ring!EmptyMap
    BY <1>1, EmptyRing DEF Started
  <2>2. PICK c \in Ring!Capacities : RingOver(map, c)
    BY <2>1 DEF RingOK
  <2>3. t - Window \in Int
    BY StampAssumption
  <2>4. Culled(n, t) = Ring!RemoveOld(map, n, t - Window)
    BY <1>1 DEF Culled
  <2>5. /\ RingOK(Ring!RemoveOld(map, n, t - Window))
        /\ \A x \in Int :
              \/ Ring!Get(Ring!RemoveOld(map, n, t - Window), x) = Ring!Get(map, x)
              \/ Ring!Get(Ring!RemoveOld(map, n, t - Window), x) = Ring!Absent /\ x < n
    BY <2>2, <2>3, RemovedOld
  <2> QED BY <1>1, <2>4, <2>5
<1>2. CASE ~ (Started /\ start >= map.end /\ t >= Window)
  <2>1. Culled(n, t) = map
    BY <1>2 DEF Culled
  <2> QED BY <2>1
<1> QED BY <1>1, <1>2

\* The ledger's step, over the old and the new ledger and what is unreported of them.
Heard(led, un, led2, un2) ==
    /\ \E new \in DOMAIN led2 :
         /\ new \notin DOMAIN led /\ new \in un2
         /\ DOMAIN led2 \subseteq DOMAIN led \cup {new}
         /\ \A n \in DOMAIN led \ DOMAIN led2 : n \notin un \/ n <= new - MaxPackets
    /\ \A n \in DOMAIN led \cap DOMAIN led2 : led2[n] = led[n]
    /\ un \cap DOMAIN led2 \subseteq un2
    /\ un2 \subseteq DOMAIN led2

HeardAgain(led, un, led2, un2) ==
    /\ DOMAIN led2 \subseteq DOMAIN led
    /\ un \subseteq un2 /\ un2 \subseteq DOMAIN led2
    /\ \/ \E again \in DOMAIN led2 : un2 = un \cup {n \in DOMAIN led2 : n >= again}
       \/ un2 = DOMAIN led2
    /\ \A n \in DOMAIN led2 : led2[n] = led[n]

Unreported(m, s) == {n \in DOMAIN Ring!Arrivals(m) : n >= s}

LEMMA RecordIsHeard ==
  ASSUME RingOK(map), start \in Int, NEW n \in Int, NEW t \in Nat, NEW r, NEW from \in Int,
         NEW s \in Int,
         from = (IF ~ Started \/ n < start THEN n ELSE start),
         r = (IF Ring!HasReceived(Culled(n, t), n) THEN Culled(n, t)
              ELSE Ring!AddPacket(Culled(n, t), n, t)),
         s = (IF Ring!HasReceived(Culled(n, t), n) THEN from ELSE Max({from, r.begin}))
  PROVE  /\ RingOK(r)
         /\ \/ Heard(Ring!Arrivals(map), Unreported(map, start), Ring!Arrivals(r), Unreported(r, s))
            \/ HeardAgain(Ring!Arrivals(map), Unreported(map, start),
                          Ring!Arrivals(r), Unreported(r, s))
<1> DEFINE kept == Culled(n, t)
           old == Ring!Arrivals(map)
           new == Ring!Arrivals(r)
<1>1. /\ RingOK(kept)
      /\ \A x \in Int :
            \/ Ring!Get(kept, x) = Ring!Get(map, x)
            \/ Ring!Get(kept, x) = Ring!Absent /\ x < n /\ start >= map.end
  BY CulledRing
<1> HIDE DEF kept
<1>2. /\ DOMAIN old = Kept(map)
      /\ \A x \in Kept(map) : old[x] = Ring!Get(map, x)
      /\ \A x \in Kept(map) : x \in Int /\ map.begin <= x /\ x < map.end /\ Started
  BY ArrivalsOf, KeptInWindow DEF Started
<1>3. map.begin \in Int /\ map.end \in Int /\ kept.begin \in Int /\ kept.end \in Int
  BY <1>1, KeptInWindow
<1>4. from <= n /\ \A x \in Kept(map) : x >= start => x >= from
  BY <1>2
<1>5. \A x \in Int : Ring!Get(kept, x) # Ring!Absent => x \in Kept(map) /\ Ring!Get(kept, x) = Ring!Get(map, x)
  BY <1>1 DEF Kept
<1>6. \A x \in Kept(map) : x >= start => Ring!Get(kept, x) = Ring!Get(map, x)
  BY <1>1, <1>2, <1>3
<1> HIDE DEF old, new
<1>7. ASSUME r = kept,
             (s = from /\ n \in Kept(kept)) \/ \A x \in Kept(kept) : x >= s
      PROVE  RingOK(r) /\ HeardAgain(old, Unreported(map, start), new, Unreported(r, s))
  <2>1. RingOK(r) /\ DOMAIN new = Kept(r) /\ \A x \in Kept(r) : new[x] = Ring!Get(r, x)
    BY <1>1, <1>7, ArrivalsOf DEF new
  <2>2. Kept(r) \subseteq Kept(map)
    BY <1>5, <1>7 DEF Kept
  <2>3. \A x \in Kept(r) : new[x] = old[x]
    BY <1>2, <1>5, <1>7, <2>1, <2>2 DEF Kept
  <2>4. \A x \in Kept(map) : x >= start => x \in Kept(r) /\ x >= s
    <3> SUFFICES ASSUME NEW x \in Kept(map), x >= start PROVE x \in Kept(r) /\ x >= s
      OBVIOUS
    <3>1. x \in Int /\ x >= from
      BY <1>2, <1>4
    <3>2. x \in Kept(r)
      BY <1>6, <1>7 DEF Kept
    <3> QED BY <1>7, <3>1, <3>2
  <2>5. Unreported(map, start) = {x \in Kept(map) : x >= start}
    BY <1>2 DEF Unreported, old
  <2>6. Unreported(r, s) = {x \in Kept(r) : x >= s}
    BY <2>1 DEF Unreported, new
  <2>7. \/ \E again \in DOMAIN new :
             Unreported(r, s) = Unreported(map, start) \cup {x \in DOMAIN new : x >= again}
        \/ Unreported(r, s) = DOMAIN new
    <3>1. CASE s = from /\ n \in Kept(kept)
      <4>1. n \in DOMAIN new
        BY <1>7, <2>1, <3>1
      <4>2. \A x \in Kept(r) : x >= s <=> (x \in Kept(map) /\ x >= start) \/ x >= n
        BY <1>2, <2>2, <3>1
      <4>3. \A x \in Kept(map) : x >= start => x \in Kept(r)
        BY <2>4
      <4>4. Unreported(r, s) = Unreported(map, start) \cup {x \in DOMAIN new : x >= n}
        BY <2>1, <2>5, <2>6, <4>2, <4>3
      <4> QED BY <4>1, <4>4
    <3>2. CASE \A x \in Kept(kept) : x >= s
      BY <1>7, <2>1, <2>6, <3>2
    <3> QED BY <1>7, <3>1, <3>2
  <2>8. Unreported(map, start) \subseteq Unreported(r, s) /\ Unreported(r, s) \subseteq DOMAIN new
    BY <2>1, <2>4, <2>5, <2>6
  <2> QED BY <1>2, <2>1, <2>2, <2>3, <2>7, <2>8 DEF HeardAgain
<1>8. ASSUME Added(r, kept, n, t), RingOK(r), s >= from, s <= n,
             \A x \in Kept(r) : x >= from => x >= s,
             Ring!Get(kept, n) = Ring!Absent
      PROVE  Heard(old, Unreported(map, start), new, Unreported(r, s))
  <2>1. DOMAIN new = Kept(r) /\ \A x \in Kept(r) : new[x] = Ring!Get(r, x)
    BY <1>8, ArrivalsOf DEF new
  <2>2. Unreported(map, start) = {x \in Kept(map) : x >= start}
    BY <1>2 DEF Unreported, old
  <2>3. Unreported(r, s) = {x \in Kept(r) : x >= s}
    BY <2>1 DEF Unreported, new
  <2>4. n \in Kept(r) /\ n \notin Kept(map) /\ n >= s
    <3>1. Ring!Get(r, n) = t /\ t # Ring!Absent
      BY <1>8 DEF Added, Ring!Absent
    <3>2. Ring!Get(map, n) = Ring!Get(kept, n)
      BY <1>1
    <3> QED BY <1>8, <3>1, <3>2 DEF Kept
  <2>5. \A x \in Kept(r) : x # n => Ring!Get(r, x) = Ring!Get(kept, x)
    BY <1>8 DEF Added, Kept
  <2>6. Kept(r) \subseteq Kept(map) \cup {n}
    BY <1>5, <2>5 DEF Kept
  <2>7. ASSUME NEW x \in Kept(map) \ Kept(r) PROVE x \notin Unreported(map, start) \/ x <= n - MaxPackets
    <3> SUFFICES ASSUME x >= start PROVE x <= n - MaxPackets
      BY <2>2
    <3>1. x \in Int /\ x # n
      BY <1>2, <2>4
    <3>2. Ring!Get(kept, x) # Ring!Absent
      BY <1>6 DEF Kept
    <3>3. Ring!Get(r, x) = Ring!Absent
      BY <3>1 DEF Kept
    <3> QED BY <1>8, <3>1, <3>2, <3>3 DEF Added
  <2>8. ASSUME NEW x \in Kept(map) \cap Kept(r)
        PROVE  new[x] = old[x] /\ (x \in Unreported(map, start) => x \in Unreported(r, s))
    <3>1. x # n /\ x \in Int
      BY <1>2, <2>4
    <3>2. new[x] = old[x]
      BY <1>2, <1>5, <2>1, <2>5, <3>1 DEF Kept
    <3>3. x >= start => x >= s
      BY <1>4, <1>8
    <3> QED BY <2>2, <2>3, <3>2, <3>3
  <2>9. \E fresh \in DOMAIN new :
          /\ fresh \notin DOMAIN old /\ fresh \in Unreported(r, s)
          /\ DOMAIN new \subseteq DOMAIN old \cup {fresh}
          /\ \A x \in DOMAIN old \ DOMAIN new :
                x \notin Unreported(map, start) \/ x <= fresh - MaxPackets
    <3>1. n \in DOMAIN new /\ n \notin DOMAIN old /\ n \in Unreported(r, s)
      BY <1>2, <2>1, <2>3, <2>4
    <3>2. DOMAIN new \subseteq DOMAIN old \cup {n}
      BY <1>2, <2>1, <2>6
    <3>3. \A x \in DOMAIN old \ DOMAIN new :
             x \notin Unreported(map, start) \/ x <= n - MaxPackets
      BY <1>2, <2>1, <2>7
    <3> QED BY <3>1, <3>2, <3>3
  <2>10. \A x \in DOMAIN old \cap DOMAIN new : new[x] = old[x]
    BY <1>2, <2>1, <2>8
  <2>11. Unreported(map, start) \cap DOMAIN new \subseteq Unreported(r, s)
    BY <2>1, <2>2, <2>8
  <2>12. Unreported(r, s) \subseteq DOMAIN new
    BY <2>1, <2>3
  <2> QED BY <2>9, <2>10, <2>11, <2>12 DEF Heard
<1>9. CASE Ring!HasReceived(kept, n)
  <2>1. r = kept /\ s = from
    BY <1>9 DEF kept
  <2>2. n \in Kept(kept)
    BY <1>9, KeptInWindow DEF Kept, Ring!HasReceived
  <2> QED BY <1>7, <2>1, <2>2 DEF old, new
<1>10. CASE ~ Ring!HasReceived(kept, n)
  <2>1. r = Ring!AddPacket(kept, n, t) /\ s = Max({from, r.begin})
    BY <1>10 DEF kept
  <2>2. Ring!Get(kept, n) = Ring!Absent
    BY <1>10 DEF Ring!HasReceived
  <2>3. RingOK(r) /\ (Added(r, kept, n, t) \/ (r = kept /\ n < kept.begin))
    BY <1>1, <2>1, AddedPacket
  <2>4. r.begin \in Int /\ \A x \in Kept(r) : r.begin <= x /\ x \in Int
    BY <2>3, KeptInWindow
  <2>5. s = IF from >= r.begin THEN from ELSE r.begin
    BY <2>1, <2>4, EitherExtreme
  <2>6. \A x \in Kept(r) : x >= from => x >= s
    BY <2>4, <2>5
  <2>7. CASE Added(r, kept, n, t)
    <3>1. r.begin <= n
      <4>1. n \in r.begin .. r.end - 1
        BY <2>7 DEF Added
      <4>2. r.end \in Int
        BY <2>3, KeptInWindow
      <4> QED BY <2>4, <4>1, <4>2
    <3>2. s >= from /\ s <= n
      BY <1>4, <2>4, <2>5, <3>1
    <3> QED BY <1>8, <2>2, <2>3, <2>6, <2>7, <3>2 DEF old, new
  <2>8. CASE r = kept /\ n < kept.begin
    <3>1. \A x \in Kept(kept) : x >= s
      BY <1>3, <1>4, <2>4, <2>5, <2>8
    <3> QED BY <1>7, <2>8, <3>1 DEF old, new
  <2> QED BY <2>3, <2>7, <2>8
<1> QED BY <1>9, <1>10

-----------------------------------------------------------------------------
\* The state of the feedback: what the refinement needs of it.
Stamped == [seq : Int, at : Nat]
Datagram == {p \in [kind : {"primary", "rtx"}, n : Int, seq : Int] :
                p.kind = "primary" => p.seq = Rtp(p.n)}

FeedOK ==
    /\ now \in Nat /\ top \in Int /\ last \in Int /\ start \in Int
    /\ wire \in Seq(Datagram) /\ fifo \in Seq(Stamped)
    /\ RingOK(map)

LEMMA FeedBegins == Init => FeedOK
<1> SUFFICES ASSUME Init PROVE FeedOK
  OBVIOUS
<1>1. wire \in Seq(Datagram) /\ fifo \in Seq(Stamped)
  BY DEF Init
<1> QED BY <1>1, StampAssumption DEF Init, FeedOK, RingOK

\* The search for a stamp stops within the queue.
LEMMA SearchStops ==
  ASSUME FeedOK, NEW seq \in Int
  PROVE  /\ Searched(seq) \in Seq(Stamped) /\ Taken(seq) \in Seq(Stamped)
         /\ Stamp(seq) \in Nat
<1> DEFINE Stale(e) == (seq - e.seq) % RtpMod \in 1 .. EvictAhead
           Stops(k) == k < Len(fifo) => ~ Stale(fifo[k + 1])
           S == {k \in 0 .. Len(fifo) : Stops(k)}
           last1 == Evicted(seq)
<1>1. fifo \in Seq(Stamped) /\ Len(fifo) \in Nat /\ now \in Nat
  BY DEF FeedOK
<1>2. \E k \in S : \A j \in S : k <= j
  <2>1. Len(fifo) \in S
    BY <1>1
  <2>2. S \in SUBSET Int /\ S # {} /\ 0 \in Int /\ \A y \in S : 0 <= y
    BY <1>1, <2>1
  <2> HIDE DEF S
  <2> QED BY <2>2, LeastOf
<1>3. PICK k \in S : \A j \in S : k <= j
  BY <1>2
<1>4. k \in 0 .. Len(fifo) /\ Stops(k) /\ \A i \in 1 .. k : Stale(fifo[i])
  <2>1. k \in 0 .. Len(fifo) /\ Stops(k)
    BY <1>3
  <2>2. ASSUME NEW i \in 1 .. k PROVE Stale(fifo[i])
    <3>1. i - 1 \in 0 .. Len(fifo) /\ i - 1 < k /\ i - 1 < Len(fifo) /\ i - 1 + 1 = i
      BY <1>1, <2>1
    <3>2. i - 1 \notin S
      BY <1>3, <2>1, <3>1
    <3>3. ~ Stops(i - 1)
      BY <3>1, <3>2
    <3> HIDE DEF Stale
    <3> QED BY <3>1, <3>3
  <2> QED BY <2>1, <2>2
<1>5. last1 \in 0 .. Len(fifo)
  <2>1. \E j \in 0 .. Len(fifo) :
           /\ \A i \in 1 .. j : Stale(fifo[i])
           /\ j < Len(fifo) => ~ Stale(fifo[j + 1])
    BY <1>4
  <2> QED BY <2>1, Zenon DEF Evicted
<1> HIDE DEF last1
<1>6. Searched(seq) \in Seq(Stamped)
  <2>1. Searched(seq) = SubSeq(fifo, last1 + 1, Len(fifo))
    BY DEF Searched, last1
  <2>2. last1 + 1 \in 1 .. Len(fifo) + 1 /\ Len(fifo) \in 0 .. Len(fifo)
    BY <1>1, <1>5
  <2> QED BY <1>1, <2>1, <2>2, SubSeqProperties
<1>7. Searched(seq) # <<>> => Head(Searched(seq)) \in Stamped /\ Tail(Searched(seq)) \in Seq(Stamped)
  BY <1>6, HeadTailProperties
<1>8. Taken(seq) \in Seq(Stamped)
  BY <1>6, <1>7 DEF Taken, Found
<1>9. Stamp(seq) \in Nat
  BY <1>1, <1>7, StampAssumption DEF Stamp, Found, Stamped
<1> QED BY <1>6, <1>8, <1>9

LEMMA UnwrapType ==
  ASSUME last \in Int, NEW seq \in Int
  PROVE  Unwrap(seq) \in Int
<1>1. WideMod \in Nat \ {0} /\ Half \in Int
  BY RingBounds DEF WideMod, Half
<1>2. last % WideMod \in Int
  BY <1>1
<1> QED BY <1>1, <1>2 DEF Unwrap

LEMMA WideType == \A n \in Int : Wide(n) \in Int /\ Rtp(n) \in Int
<1>1. WideMod \in Nat \ {0} /\ RtpMod \in Nat \ {0}
  BY RingBounds, StampAssumption DEF WideMod
<1> QED BY <1>1 DEF Wide, Rtp

LEMMA RecordStep ==
  ASSUME FeedOK, NEW seq \in Int, NEW t \in Nat, Record(seq, t)
  PROVE  /\ last' \in Int /\ start' \in Int /\ RingOK(map')
         /\ \/ Heard(Ring!Arrivals(map), Unreported(map, start),
                    Ring!Arrivals(map'), Unreported(map', start'))
            \/ HeardAgain(Ring!Arrivals(map), Unreported(map, start),
                         Ring!Arrivals(map'), Unreported(map', start'))
<1> DEFINE n == Unwrap(seq)
           from == IF ~ Started \/ n < start THEN n ELSE start
           r == IF Ring!HasReceived(Culled(n, t), n) THEN Culled(n, t)
                ELSE Ring!AddPacket(Culled(n, t), n, t)
           s == IF Ring!HasReceived(Culled(n, t), n) THEN from ELSE Max({from, r.begin})
<1>1. n \in Int /\ start \in Int /\ RingOK(map)
  BY UnwrapType DEF FeedOK
<1>2. last' = n /\ map' = r /\ start' = s
  BY Zenon DEF Record
<1> HIDE DEF n
<1>3. from \in Int
  BY <1>1
<1>4. s \in Int
  <2>1. RingOK(Culled(n, t))
    BY <1>1, CulledRing
  <2>2. RingOK(r)
    BY <1>1, <2>1, AddedPacket
  <2> HIDE DEF r, from
  <2>3. r.begin \in Int
    BY <2>2, KeptInWindow
  <2>4. Max({from, r.begin}) \in Int
    BY <1>3, <2>3, EitherExtreme
  <2> QED BY <1>3, <2>4
<1>5. /\ RingOK(r)
      /\ \/ Heard(Ring!Arrivals(map), Unreported(map, start), Ring!Arrivals(r), Unreported(r, s))
         \/ HeardAgain(Ring!Arrivals(map), Unreported(map, start),
                       Ring!Arrivals(r), Unreported(r, s))
  <2> DEFINE r1 == r
             s1 == s
             from1 == from
  <2>1. /\ from1 = (IF ~ Started \/ n < start THEN n ELSE start)
        /\ r1 = (IF Ring!HasReceived(Culled(n, t), n) THEN Culled(n, t)
                 ELSE Ring!AddPacket(Culled(n, t), n, t))
        /\ s1 = (IF Ring!HasReceived(Culled(n, t), n) THEN from1 ELSE Max({from1, r1.begin}))
    BY Zenon
  <2>2. from1 \in Int /\ s1 \in Int
    BY <1>3, <1>4
  <2> HIDE DEF r1, s1, from1
  <2>3. /\ RingOK(r1)
        /\ \/ Heard(Ring!Arrivals(map), Unreported(map, start), Ring!Arrivals(r1), Unreported(r1, s1))
           \/ HeardAgain(Ring!Arrivals(map), Unreported(map, start),
                         Ring!Arrivals(r1), Unreported(r1, s1))
    BY <1>1, <2>1, <2>2, RecordIsHeard
  <2> QED BY <2>3 DEF r1, s1
<1> HIDE DEF r, s
<1> QED BY <1>1, <1>2, <1>4, <1>5

LEMMA LedgerSteps ==
    /\ Ledger!Hear <=> Heard(Ring!Arrivals(map), Unreported(map, start),
                            Ring!Arrivals(map'), Unreported(map', start'))
    /\ Ledger!HearAgain <=> HeardAgain(Ring!Arrivals(map), Unreported(map, start),
                                      Ring!Arrivals(map'), Unreported(map', start'))
    /\ Ledger!Report <=> Unreported(map', start') = {} /\ Ring!Arrivals(map') = Ring!Arrivals(map)
    /\ map' = map /\ start' = start => UNCHANGED Ledger!vars
  BY DEF Ledger!Hear, Ledger!HearAgain, Ledger!Report, Ledger!vars, Ledger!MayForget,
         Heard, HeardAgain, Unreported

LEMMA ReportedAll ==
  ASSUME FeedOK, Due # {}
  PROVE  Max(Due) + 1 \in Int /\ Unreported(map, Max(Due) + 1) = {}
<1>1. RingOK(map) /\ start \in Int
  BY DEF FeedOK
<1>2. map.begin \in Int /\ map.end \in Int /\ DOMAIN Ring!Arrivals(map) = Kept(map)
  BY <1>1, KeptInWindow, ArrivalsOf
<1>3. \A x \in Kept(map) : x \in Int /\ map.begin <= x /\ x < map.end
  BY <1>1, KeptInWindow
<1>4. \A x \in Kept(map) : x >= start => x \in Due
  BY <1>2, <1>3 DEF Due, Kept, Ring!HasReceived
<1>5. Due \in SUBSET Int /\ \A x \in Due : x <= map.end /\ x >= start
  BY <1>1, <1>2 DEF Due
<1>6. Max(Due) \in Due /\ \A y \in Due : y <= Max(Due)
  BY <1>2, <1>5, MaxIsGreatest, Zenon
<1> DEFINE high == Max(Due)
<1> HIDE DEF high
<1>7. high \in Int /\ high >= start /\ \A y \in Due : y <= high
  BY <1>5, <1>6 DEF high
<1>8. Unreported(map, high + 1) = {}
  <2> SUFFICES ASSUME NEW x \in Kept(map), x >= high + 1 PROVE FALSE
    BY <1>2 DEF Unreported
  <2> QED BY <1>1, <1>3, <1>4, <1>7
<1> QED BY <1>7, <1>8 DEF high

LEMMA CaptureKeeps ==
  ASSUME FeedOK, NEW p \in Datagram, NEW gap \in Gaps, Capture(p, gap)
  PROVE  now' \in Nat /\ wire' \in Seq(Datagram) /\ fifo' \in Seq(Stamped)
<1>1. now' \in Nat
  BY StampAssumption DEF FeedOK, Capture
<1>2. wire' \in Seq(Datagram)
  BY AppendProperties DEF FeedOK, Capture
<1> DEFINE entry == [seq |-> p.seq, at |-> now']
<1>3. entry \in Stamped
  BY <1>1 DEF Stamped, Datagram
<1>4. Len(fifo) >= FifoCap => fifo # <<>>
  BY StampAssumption DEF FeedOK
<1>5. Len(fifo) >= FifoCap => Tail(fifo) \in Seq(Stamped)
  BY <1>4, HeadTailProperties DEF FeedOK
<1>6. fifo' = Append(IF Len(fifo) >= FifoCap THEN Tail(fifo) ELSE fifo, entry)
  BY DEF Capture, Offer
<1> HIDE DEF entry
<1>7. fifo \in Seq(Stamped)
  BY DEF FeedOK
<1>8. fifo' \in Seq(Stamped)
  BY <1>3, <1>5, <1>6, <1>7, AppendProperties
<1> QED BY <1>1, <1>2, <1>8

LEMMA HandedOver ==
  ASSUME FeedOK, wire # <<>>
  PROVE  Head(wire) \in Datagram /\ Tail(wire) \in Seq(Datagram)
  BY HeadTailProperties DEF FeedOK

\* Every step of the ring and the recorder is one of the ledger, or none.
LEMMA FeedStep ==
  ASSUME FeedOK, [Next]_vars
  PROVE  FeedOK' /\ [Ledger!Next]_(Ledger!vars)
<1> DEFINE Stays == map' = map /\ start' = start /\ last' = last
<1>0. RingOK(map) /\ top \in Int /\ last \in Int /\ start \in Int
  BY DEF FeedOK
<1>s. Stays => RingOK(map') /\ last' \in Int /\ start' \in Int /\ UNCHANGED Ledger!vars
  BY <1>0, LedgerSteps
<1>1. CASE CapturePrimary
  <2>1. PICK d \in Jumps, gap \in Gaps :
          /\ Capture([kind |-> "primary", n |-> top + d, seq |-> Rtp(top + d)], gap)
          /\ top' = Max({top, top + d}) /\ Stays
    BY <1>1 DEF CapturePrimary
  <2>2. top + d \in Int
    BY <1>0, StampAssumption
  <2> DEFINE p == [kind |-> "primary", n |-> top + d, seq |-> Rtp(top + d)]
  <2>3. p \in Datagram
    BY <2>2, WideType DEF Datagram
  <2>4. Capture(p, gap)
    BY <2>1
  <2> HIDE DEF p
  <2>5. now' \in Nat /\ wire' \in Seq(Datagram) /\ fifo' \in Seq(Stamped)
    BY <2>3, <2>4, CaptureKeeps
  <2>6. top' \in Int
    BY <1>0, <2>1, <2>2, EitherExtreme
  <2> QED BY <1>s, <2>1, <2>5, <2>6 DEF FeedOK
<1>2. CASE CaptureRtx
  <2> DEFINE p == [kind |-> "rtx", n |-> 0, seq |-> RtxSeq]
  <2>1. PICK gap \in Gaps : Capture(p, gap) /\ top' = top /\ Stays
    BY <1>2 DEF CaptureRtx
  <2>2. p \in Datagram
    BY StampAssumption DEF Datagram
  <2> HIDE DEF p
  <2>3. now' \in Nat /\ wire' \in Seq(Datagram) /\ fifo' \in Seq(Stamped)
    BY <2>1, <2>2, CaptureKeeps
  <2> QED BY <1>0, <1>s, <2>1, <2>3 DEF FeedOK
<1>3. CASE SrtpDrops
  <2>1. wire' \in Seq(Datagram)
    BY <1>3, HandedOver DEF SrtpDrops
  <2> QED BY <1>3, <1>s, <2>1 DEF SrtpDrops, FeedOK
<1>4. CASE ReceivePrimary
  <2> DEFINE p == Head(wire)
  <2>1. /\ p \in Datagram /\ wire' \in Seq(Datagram)
        /\ fifo' = Taken(p.seq) /\ Record(Wide(p.n), Stamp(p.seq))
        /\ now' = now /\ top' = top
    BY <1>4, HandedOver DEF ReceivePrimary
  <2> HIDE DEF p
  <2>2. p.seq \in Int /\ p.n \in Int
    BY <2>1 DEF Datagram
  <2>3. Taken(p.seq) \in Seq(Stamped) /\ Stamp(p.seq) \in Nat /\ Wide(p.n) \in Int
    BY <2>2, SearchStops, WideType
  <2>4. /\ last' \in Int /\ start' \in Int /\ RingOK(map')
        /\ \/ Heard(Ring!Arrivals(map), Unreported(map, start),
                   Ring!Arrivals(map'), Unreported(map', start'))
           \/ HeardAgain(Ring!Arrivals(map), Unreported(map, start),
                        Ring!Arrivals(map'), Unreported(map', start'))
    BY <2>1, <2>3, RecordStep
  <2>5. Ledger!Next
    BY <2>4, LedgerSteps DEF Ledger!Next
  <2> QED BY <2>1, <2>3, <2>4, <2>5 DEF FeedOK
<1>5. CASE ReceiveRtx
  <2>1. wire' \in Seq(Datagram)
    BY <1>5, HandedOver DEF ReceiveRtx
  <2> QED BY <1>5, <1>s, <2>1 DEF ReceiveRtx, FeedOK
<1>6. CASE SendTwcc
  <2>1. Due # {} /\ start' = Max(Due) + 1 /\ map' = map
    BY <1>6 DEF SendTwcc
  <2>2. start' \in Int /\ Unreported(map', start') = {}
    BY <2>1, ReportedAll
  <2>3. Ledger!Next
    BY <2>1, <2>2, LedgerSteps DEF Ledger!Next
  <2> QED BY <1>6, <2>1, <2>2, <2>3 DEF SendTwcc, FeedOK
<1>7. CASE SendRr
  BY <1>7, <1>s DEF SendRr, FeedOK
<1>8. CASE UNCHANGED vars
  BY <1>8, <1>s DEF vars, FeedOK
<1> QED BY <1>1, <1>2, <1>3, <1>4, <1>5, <1>6, <1>7, <1>8 DEF Next

\* The ring and the recorder keep the ledger's promise, whatever is lost, repeated or
\* reordered and however far a number jumps (arrival_time_map.rs, recorder.rs): the
\* first arrival of a number keeps its time until it has been reported.
THEOREM LedgerIsKept == Spec => KeepsTheLedger
<1>1. Init => FeedOK /\ Ledger!Init
  <2>1. Init => FeedOK
    BY FeedBegins
  <2>2. ASSUME Init PROVE Ledger!Init
    <3>1. map = Ring!EmptyMap
      BY <2>2 DEF Init
    <3>2. DOMAIN Ring!Arrivals(map) = {}
      BY <3>1, EmptyRing, ArrivalsOf DEF RingOK, Kept
    <3>3. Ring!Arrivals(map) = [n \in {} |-> 0]
      BY <3>2 DEF Ring!Arrivals
    <3> QED BY <3>2, <3>3 DEF Ledger!Init
  <2> QED BY <2>1, <2>2
<1>2. FeedOK /\ [Next]_vars => FeedOK' /\ [Ledger!Next]_(Ledger!vars)
  BY FeedStep
<1> QED BY <1>1, <1>2, PTL DEF Spec, KeepsTheLedger, Ledger!Spec

-----------------------------------------------------------------------------
\* The receiver report: what is heard, and how the 16-bit numbers count it.
Seen(h) == {h[i] : i \in DOMAIN h}

\* RFC 3550 tells new numbers from old ones by half a turn: the next number handed over
\* lies within half a turn of the highest.
Near ==
    wire # <<>> /\ Head(wire).kind = "primary" /\ heard # <<>> =>
        Head(wire).n - Max(Seen(heard)) \in 1 - RtpMod \div 2 .. RtpMod \div 2 - 1

CountInv ==
    /\ heard \in Seq(Int) /\ (heard # <<>> <=> rr.started)
    /\ rr \in [started : BOOLEAN, base : Int, max : Int, cycles : Int,
               received : Int, expectedPrior : Int, receivedPrior : Int]
    /\ rr.started =>
         /\ Max(Seen(heard)) \in Seen(heard)
         /\ \A n \in Seen(heard) : n <= Max(Seen(heard))
         /\ rr.received = Len(heard) /\ rr.max = Rtp(Max(Seen(heard)))
         /\ Highest - rr.base = Max(Seen(heard)) - heard[1]

\* Of two numbers within half a turn the remainders tell which is newer, and by how much.
LEMMA NewerNumber ==
  ASSUME NEW m \in Int, NEW n \in Int, n - m \in 1 - RtpMod \div 2 .. RtpMod \div 2 - 1
  PROVE  /\ (Rtp(n) - Rtp(m)) % RtpMod \in 1 .. RtpMod \div 2 - 1 <=> n > m
         /\ n > m => n - m = Rtp(n) - Rtp(m) + (IF Rtp(n) < Rtp(m) THEN RtpMod ELSE 0)
<1> DEFINE half == RtpMod \div 2
           step == (Rtp(n) - Rtp(m)) % RtpMod
<1>0. RtpMod \in Nat \ {0} /\ half \in Nat /\ 2 * half <= RtpMod
  BY StampAssumption
<1>1. Rtp(n) \in 0 .. RtpMod - 1 /\ \E k \in Int : n = RtpMod * k + Rtp(n)
  BY <1>0, Slots DEF Rtp
<1>2. Rtp(m) \in 0 .. RtpMod - 1 /\ \E k \in Int : m = RtpMod * k + Rtp(m)
  BY <1>0, Slots DEF Rtp
<1>3. PICK k \in Int : n = RtpMod * k + Rtp(n)
  BY <1>1
<1>4. PICK l \in Int : m = RtpMod * l + Rtp(m)
  BY <1>2
<1>5. Rtp(n) - Rtp(m) \in Int
  BY <1>1, <1>2
<1>6. step \in 0 .. RtpMod - 1 /\ \E j \in Int : Rtp(n) - Rtp(m) = RtpMod * j + step
  BY <1>0, <1>5, Slots
<1>7. PICK j \in Int : Rtp(n) - Rtp(m) = RtpMod * j + step
  BY <1>6
<1>8. n - m \in 1 - half .. half - 1
  OBVIOUS
<1> DEFINE rn == Rtp(n)
           rm == Rtp(m)
<1> HIDE DEF half, step, rn, rm
<1>9. ASSUME NEW turns \in Int, RtpMod * turns < RtpMod, RtpMod * turns > -RtpMod
      PROVE  turns = 0
  <2>1. turns >= 1 => RtpMod * turns >= RtpMod
    BY <1>0
  <2>2. turns <= -1 => RtpMod * turns <= -RtpMod
    BY <1>0
  <2> QED BY <1>0, <1>9, <2>1, <2>2
<1>10. rn \in 0 .. RtpMod - 1 /\ rm \in 0 .. RtpMod - 1 /\ step \in 0 .. RtpMod - 1
  BY <1>1, <1>2, <1>6 DEF rn, rm
<1>11. n = RtpMod * k + rn /\ m = RtpMod * l + rm /\ rn - rm = RtpMod * j + step
  BY <1>3, <1>4, <1>7 DEF rn, rm
<1>12. n - m - step = RtpMod * (k - l + j)
  BY <1>0, <1>10, <1>11
<1>13. step \in 1 .. half - 1 <=> n > m
  <2>1. ASSUME n > m PROVE step \in 1 .. half - 1
    <3> DEFINE turns == k - l + j
    <3>1. turns \in Int /\ n - m - step = RtpMod * turns
      BY <1>12
    <3> HIDE DEF turns
    <3>2. turns = 0
      BY <1>0, <1>8, <1>9, <1>10, <2>1, <3>1
    <3> QED BY <1>0, <1>8, <1>10, <2>1, <3>1, <3>2
  <2>2. ASSUME ~ (n > m), step \in 1 .. half - 1 PROVE FALSE
    <3> DEFINE turns == k - l + j
    <3>1. turns \in Int /\ n - m - step = RtpMod * turns
      BY <1>12
    <3> HIDE DEF turns
    <3>2. turns = 0
      BY <1>0, <1>8, <1>9, <2>2, <3>1
    <3> QED BY <1>0, <1>8, <2>2, <3>1, <3>2
  <2> QED BY <2>1, <2>2
<1>14. n > m => n - m = rn - rm + (IF rn < rm THEN RtpMod ELSE 0)
  <2> DEFINE turns == k - l
  <2>1. turns \in Int /\ n - m = rn - rm + RtpMod * turns
    BY <1>0, <1>10, <1>11
  <2> HIDE DEF turns
  <2>2. ASSUME n > m, rn < rm PROVE n - m = rn - rm + RtpMod
    <3>1. RtpMod * (turns - 1) < RtpMod /\ RtpMod * (turns - 1) > -RtpMod /\ turns - 1 \in Int
      BY <1>0, <1>8, <1>10, <2>1, <2>2
    <3>2. turns - 1 = 0
      BY <3>1, <1>9
    <3> QED BY <1>0, <2>1, <3>2
  <2>3. ASSUME n > m, ~ (rn < rm) PROVE n - m = rn - rm
    <3>1. turns = 0
      BY <1>0, <1>8, <1>9, <1>10, <2>1, <2>3
    <3> QED BY <1>0, <1>10, <2>1, <3>1
  <2> QED BY <1>10, <2>2, <2>3
<1> QED BY <1>13, <1>14 DEF half, step, rn, rm

\* What is missing below the highest number, and what is heard in vain, make up for the
\* numbers heard.
Missing(h) == (h[1] .. Max(Seen(h))) \ Seen(h)
Spare(h) == {i \in DOMAIN h : h[i] < h[1] \/ \E j \in 1 .. i - 1 : h[j] = h[i]}

LEMMA Counting ==
  ASSUME NEW h \in Seq(Int), h # <<>>,
         Max(Seen(h)) \in Seen(h), \A n \in Seen(h) : n <= Max(Seen(h))
  PROVE  /\ Cardinality(Missing(h)) \in Nat /\ Cardinality(Spare(h)) \in Nat
         /\ Cardinality(Missing(h)) - Cardinality(Spare(h)) = Max(Seen(h)) - h[1] + 1 - Len(h)
<1> DEFINE high == Max(Seen(h))
           window == h[1] .. high
           fresh == DOMAIN h \ Spare(h)
           present == window \cap Seen(h)
           f == [i \in fresh |-> h[i]]
<1>1. /\ Len(h) \in Nat \ {0} /\ DOMAIN h = 1 .. Len(h) /\ \A i \in 1 .. Len(h) : h[i] \in Int
  BY EmptySeq, LenProperties
<1>2. high \in Int /\ h[1] \in Int /\ h[1] <= high /\ Seen(h) \subseteq Int
  BY <1>1 DEF Seen
<1> HIDE DEF high
<1>3. IsFiniteSet(window) /\ Cardinality(window) = high - h[1] + 1
  <2> DEFINE first == h[1]
  <2>1. first \in Int /\ high \in Int /\ first <= high
    BY <1>2
  <2> HIDE DEF first
  <2>2. IsFiniteSet(first .. high) /\ Cardinality(first .. high) = high - first + 1
    BY <2>1, FS_Interval
  <2> QED BY <2>2 DEF first
<1>4. IsFiniteSet(DOMAIN h) /\ Cardinality(DOMAIN h) = Len(h)
  BY <1>1, FS_Interval
<1>5. Spare(h) \in SUBSET DOMAIN h
  BY DEF Spare
<1>6. IsFiniteSet(Spare(h)) /\ Cardinality(Spare(h)) \in Nat
  BY <1>4, <1>5, FS_Subset, FS_CardinalityType
<1>7. IsFiniteSet(fresh) /\ Cardinality(fresh) = Len(h) - Cardinality(Spare(h))
  <2>1. DOMAIN h \cap Spare(h) = Spare(h)
    BY <1>5
  <2> QED BY <1>4, <2>1, FS_Difference
<1>8. IsFiniteSet(Missing(h)) /\ Cardinality(Missing(h)) = high - h[1] + 1 - Cardinality(present)
  <2>1. Missing(h) = window \ Seen(h)
    BY DEF Missing, high
  <2>2. \A W, S : IsFiniteSet(W) =>
          IsFiniteSet(W \ S) /\ Cardinality(W \ S) = Cardinality(W) - Cardinality(W \cap S)
    BY FS_Difference, Zenon
  <2>3. IsFiniteSet(window \ Seen(h))
        /\ Cardinality(window \ Seen(h)) = Cardinality(window) - Cardinality(present)
    BY <1>3, <2>2, Zenon
  <2> HIDE DEF window, present
  <2>4. IsFiniteSet(Missing(h))
    BY <2>1, <2>3, Zenon
  <2>5. Cardinality(Missing(h)) = Cardinality(window) - Cardinality(present)
    BY <2>1, <2>3, Zenon
  <2> DEFINE size == high - h[1] + 1
  <2>6. Cardinality(window) = size
    BY <1>3
  <2> HIDE DEF size
  <2>7. Cardinality(Missing(h)) = size - Cardinality(present)
    BY <2>5, <2>6, Zenon
  <2>8. present \in SUBSET window
    BY DEF present
  <2>9. Cardinality(present) \in Nat
    BY <1>3, <2>8, FS_Subset, FS_CardinalityType, Zenon
  <2>10. Cardinality(Missing(h)) = high - h[1] + 1 - Cardinality(present)
    BY <1>2, <2>7, <2>9 DEF size
  <2> QED BY <2>4, <2>10, Zenon
<1>9. f \in [fresh -> present]
  <2>1. ASSUME NEW i \in fresh PROVE h[i] \in present
    <3>1. i \in DOMAIN h /\ ~ (h[i] < h[1]) /\ h[i] \in Seen(h)
      BY DEF Spare, Seen
    <3> QED BY <1>1, <1>2, <3>1 DEF high
  <2> QED BY <2>1
<1>10. \A v \in present : \E i \in fresh : f[i] = v
  <2> SUFFICES ASSUME NEW v \in present PROVE \E i \in fresh : f[i] = v
    OBVIOUS
  <2> DEFINE Places == {i \in DOMAIN h : h[i] = v}
  <2>1. Places \in SUBSET Int /\ Places # {} /\ \A i \in Places : 0 <= i
    BY <1>1 DEF Seen
  <2>2. PICK i \in Places : \A j \in Places : i <= j
    <3> HIDE DEF Places
    <3>1. 0 \in Int
      OBVIOUS
    <3> QED BY <2>1, <3>1, LeastOf
  <2>3. i \in DOMAIN h /\ h[i] = v /\ i \in 1 .. Len(h)
    BY <1>1
  <2>4. ~ (h[i] < h[1])
    BY <1>2, <2>3
  <2>5. \A j \in 1 .. i - 1 : h[j] # h[i]
    <3> SUFFICES ASSUME NEW j \in 1 .. i - 1, h[j] = h[i] PROVE FALSE
      OBVIOUS
    <3>1. j \in DOMAIN h /\ j < i /\ j \in Int /\ i \in Int
      BY <1>1, <2>3
    <3> QED BY <2>2, <2>3, <3>1
  <2>6. i \in fresh
    BY <2>3, <2>4, <2>5 DEF Spare
  <2> QED BY <2>3, <2>6
<1>11. \A i, j \in fresh : f[i] = f[j] => i = j
  <2> SUFFICES ASSUME NEW i \in fresh, NEW j \in fresh, h[i] = h[j] PROVE i = j
    OBVIOUS
  <2>1. i \in 1 .. Len(h) /\ j \in 1 .. Len(h)
    BY <1>1
  <2>2. ~ (j \in 1 .. i - 1) /\ ~ (i \in 1 .. j - 1)
    BY DEF Spare
  <2> QED BY <2>1, <2>2
<1> HIDE DEF fresh, present, f
<1>12. f \in Surjection(fresh, present) /\ f \in Injection(fresh, present)
  BY <1>9, <1>10, <1>11 DEF Surjection, Injection, IsInjective
<1>13. Cardinality(present) = Cardinality(fresh)
  BY <1>7, <1>12, FS_Surjection
<1>14. Cardinality(Missing(h)) \in Nat
  BY <1>8, FS_CardinalityType
<1> QED BY <1>1, <1>2, <1>6, <1>7, <1>8, <1>13, <1>14 DEF high

LEMMA CountBegins == Init => CountInv
<1> SUFFICES ASSUME Init PROVE CountInv
  OBVIOUS
<1>1. heard = <<>> /\ rr = NewStats
  BY DEF Init
<1>2. rr = [started |-> FALSE, base |-> 0, max |-> 0, cycles |-> 0,
            received |-> 1, expectedPrior |-> 1, receivedPrior |-> 1]
  BY <1>1 DEF NewStats, FirstOf
<1> QED BY <1>1, <1>2 DEF CountInv

\* A number more: the highest so far or another.
LEMMA SeenMore ==
  ASSUME NEW h \in Seq(Int), NEW n \in Int,
         h # <<>> => Max(Seen(h)) \in Seen(h) /\ \A x \in Seen(h) : x <= Max(Seen(h))
  PROVE  /\ Append(h, n) \in Seq(Int) /\ Append(h, n) # <<>>
         /\ Len(Append(h, n)) = Len(h) + 1
         /\ Append(h, n)[1] = IF h = <<>> THEN n ELSE h[1]
         /\ Seen(Append(h, n)) = Seen(h) \cup {n}
         /\ Max(Seen(Append(h, n))) =
              IF h # <<>> /\ n <= Max(Seen(h)) THEN Max(Seen(h)) ELSE n
         /\ Max(Seen(Append(h, n))) \in Seen(Append(h, n))
         /\ \A x \in Seen(Append(h, n)) : x <= Max(Seen(Append(h, n)))
<1> DEFINE longer == Append(h, n)
           high == Max(Seen(h))
           top1 == IF h # <<>> /\ n <= high THEN high ELSE n
<1>1. /\ longer \in Seq(Int) /\ longer # <<>> /\ Len(longer) = Len(h) + 1
      /\ \A i \in 1 .. Len(h) : longer[i] = h[i]
      /\ longer[Len(h) + 1] = n
  BY AppendProperties
<1>2. Len(h) \in Nat /\ DOMAIN h = 1 .. Len(h) /\ DOMAIN longer = 1 .. Len(h) + 1
      /\ (h = <<>> <=> Len(h) = 0) /\ \A i \in 1 .. Len(h) : h[i] \in Int
  BY <1>1, EmptySeq, LenProperties
<1> HIDE DEF longer
<1>3. Seen(longer) = Seen(h) \cup {n}
  <2>1. ASSUME NEW i \in 1 .. Len(h) + 1 PROVE longer[i] \in Seen(h) \cup {n}
    <3>1. i \in 1 .. Len(h) \/ i = Len(h) + 1
      BY <1>2
    <3> QED BY <1>1, <1>2, <3>1 DEF Seen
  <2>2. n \in Seen(longer)
    <3>1. Len(h) + 1 \in DOMAIN longer
      BY <1>2
    <3> QED BY <1>1, <3>1 DEF Seen
  <2>3. ASSUME NEW i \in 1 .. Len(h) PROVE h[i] \in Seen(longer)
    <3>1. i \in DOMAIN longer
      BY <1>2
    <3> QED BY <1>1, <3>1 DEF Seen
  <2> QED BY <1>2, <2>1, <2>2, <2>3 DEF Seen
<1>4. Seen(h) \subseteq Int /\ (h = <<>> => Seen(h) = {})
  BY <1>2 DEF Seen
<1>5. top1 \in Seen(longer) /\ top1 \in Int /\ \A x \in Seen(longer) : x <= top1
  BY <1>3, <1>4
<1> HIDE DEF top1
<1>6. Max(Seen(longer)) = top1
  <2>1. Seen(longer) \in SUBSET Int /\ Seen(longer) # {}
    BY <1>3, <1>4
  <2>2. Max(Seen(longer)) \in Seen(longer) /\ \A y \in Seen(longer) : y <= Max(Seen(longer))
    BY <1>5, <2>1, MaxIsGreatest, Zenon
  <2>3. Max(Seen(longer)) <= top1 /\ top1 <= Max(Seen(longer)) /\ Max(Seen(longer)) \in Int
    BY <1>5, <2>1, <2>2
  <2> QED BY <1>5, <2>3
<1>7. longer[1] = IF h = <<>> THEN n ELSE h[1]
  BY <1>1, <1>2
<1> QED BY <1>1, <1>3, <1>5, <1>6, <1>7 DEF longer, top1

LEMMA CountStep ==
  ASSUME FeedOK, CountInv, Near, [Next]_vars
  PROVE  CountInv'
<1>1. CASE ReceivePrimary
  <2> DEFINE n == Head(wire).n
             s == Head(wire).seq
             high == Max(Seen(heard))
             high2 == Max(Seen(heard'))
             newer == Newer(s)
  <2>1. /\ wire # <<>> /\ Head(wire).kind = "primary" /\ Head(wire) \in Datagram
        /\ heard' = Append(heard, n) /\ OnPacket(s)
    BY <1>1, HandedOver DEF ReceivePrimary
  <2>2. n \in Int /\ s = Rtp(n)
    BY <2>1 DEF Datagram
  <2>3. heard \in Seq(Int) /\ (heard # <<>> <=> rr.started)
    BY DEF CountInv
  <2>4. heard # <<>> => high \in Seen(heard) /\ \A x \in Seen(heard) : x <= high
    BY <2>3 DEF CountInv
  <2>5. heard # <<>> => n - high \in 1 - RtpMod \div 2 .. RtpMod \div 2 - 1
    BY <2>1 DEF Near
  <2> HIDE DEF n, s, high
  <2>6. /\ heard' \in Seq(Int) /\ heard' # <<>> /\ Len(heard') = Len(heard) + 1
        /\ heard'[1] = (IF heard = <<>> THEN n ELSE heard[1])
        /\ high2 = (IF heard # <<>> /\ n <= high THEN high ELSE n)
        /\ high2 \in Seen(heard') /\ \A x \in Seen(heard') : x <= high2
    BY <2>1, <2>2, <2>3, <2>4, SeenMore DEF high
  <2> HIDE DEF high2
  <2>7. s \in Int /\ RtpMod \in Nat \ {0}
    BY <2>2, WideType, StampAssumption
  <2>8. CASE ~ rr.started
    <3>1. rr' = FirstOf(s)
      BY <2>1, <2>8 DEF OnPacket
    <3>2. rr' = [started |-> TRUE, base |-> s, max |-> s, cycles |-> 0, received |-> 1,
                 expectedPrior |-> 1, receivedPrior |-> 1]
      BY <3>1 DEF FirstOf
    <3>3. rr' \in [started : BOOLEAN, base : Int, max : Int, cycles : Int,
                   received : Int, expectedPrior : Int, receivedPrior : Int]
      BY <2>7, <3>2
    <3>4. heard = <<>> /\ Len(heard) = 0
      BY <2>3, <2>8
    <3>5. high2 = n /\ heard'[1] = n /\ Len(heard') = 1
      BY <2>6, <3>4
    <3>6. rr'.started /\ rr'.received = 1 /\ rr'.max = s /\ rr'.cycles = 0 /\ rr'.base = s
      BY <3>2
    <3>7. Highest' - rr'.base = high2 - heard'[1]
      BY <2>2, <2>7, <3>5, <3>6 DEF Highest
    <3> QED BY <2>2, <2>6, <3>3, <3>5, <3>6, <3>7 DEF CountInv, high2
  <2>9. CASE rr.started
    <3>1. /\ rr \in [started : BOOLEAN, base : Int, max : Int, cycles : Int,
                     received : Int, expectedPrior : Int, receivedPrior : Int]
          /\ rr.received = Len(heard) /\ rr.max = Rtp(high)
          /\ rr.cycles + rr.max - rr.base = high - heard[1]
      BY <2>9 DEF CountInv, Highest, high
    <3>2. rr' = [rr EXCEPT !.received = @ + 1,
                          !.max      = IF newer THEN s ELSE @,
                          !.cycles   = IF newer /\ Wrapped(s) THEN @ + RtpMod ELSE @]
      BY <2>1, <2>9 DEF OnPacket
    <3>3. newer <=> n > high
      <4>1. high \in Int
        BY <2>3, <2>4, <2>9 DEF Seen
      <4> QED BY <2>2, <2>3, <2>5, <2>9, <3>1, <4>1, NewerNumber DEF Newer
    <3>4. newer => n - high = s - rr.max + (IF s < rr.max THEN RtpMod ELSE 0)
      <4>1. high \in Int
        BY <2>3, <2>4, <2>9 DEF Seen
      <4> QED BY <2>2, <2>3, <2>5, <2>9, <3>1, <3>3, <4>1, NewerNumber
    <3> HIDE DEF newer
    <3>5. /\ rr'.started = rr.started /\ rr'.base = rr.base /\ rr'.received = rr.received + 1
          /\ rr'.expectedPrior = rr.expectedPrior /\ rr'.receivedPrior = rr.receivedPrior
          /\ rr'.max = (IF newer THEN s ELSE rr.max)
          /\ rr'.cycles = (IF newer /\ Wrapped(s) THEN rr.cycles + RtpMod ELSE rr.cycles)
      BY <3>1, <3>2
    <3>6. rr' \in [started : BOOLEAN, base : Int, max : Int, cycles : Int,
                   received : Int, expectedPrior : Int, receivedPrior : Int]
      <4> DEFINE high3 == IF newer THEN s ELSE rr.max
                 turns == IF newer /\ Wrapped(s) THEN rr.cycles + RtpMod ELSE rr.cycles
      <4>1. rr' = [rr EXCEPT !.received = rr.received + 1, !.max = high3, !.cycles = turns]
        BY <3>2, Zenon
      <4>2. high3 \in Int /\ turns \in Int
        BY <2>7, <3>1
      <4> HIDE DEF high3, turns
      <4> DEFINE Stats == [started : BOOLEAN, base : Int, max : Int, cycles : Int,
                           received : Int, expectedPrior : Int, receivedPrior : Int]
                 one == [rr EXCEPT !.received = rr.received + 1]
                 two == [one EXCEPT !.max = high3]
                 three == [two EXCEPT !.cycles = turns]
      <4>3. rr.received + 1 \in Int /\ rr \in Stats
        BY <3>1
      <4>4. one \in Stats
        BY <4>3
      <4>5. ASSUME NEW r \in Stats PROVE [r EXCEPT !.max = high3] \in Stats
        BY <4>2
      <4>6. ASSUME NEW r \in Stats PROVE [r EXCEPT !.cycles = turns] \in Stats
        BY <4>2
      <4>7. three \in Stats
        <5> HIDE DEF one, Stats
        <5>1. two \in Stats
          BY <4>4, <4>5
        <5> HIDE DEF two
        <5> QED BY <4>6, <5>1
      <4>8. rr' = three
        <5> HIDE DEF Stats
        <5> QED BY <4>1
      <4> HIDE DEF three
      <4> QED BY <4>7, <4>8
    <3>7. heard # <<>> /\ heard[1] \in Int /\ high \in Int /\ Len(heard) \in Nat
      BY <2>3, <2>4, <2>9 DEF Seen
    <3>8. rr'.received = Len(heard') /\ rr'.max = Rtp(high2)
      BY <2>2, <2>6, <3>1, <3>3, <3>5, <3>7
    <3>9. rr'.cycles + rr'.max - rr'.base = high2 - heard'[1]
      <4>1. CASE newer
        <5>1. high2 = n /\ heard'[1] = heard[1]
          BY <2>2, <2>6, <3>3, <3>7, <4>1
        <5>2. rr'.max = s /\ rr'.cycles = (IF s < rr.max THEN rr.cycles + RtpMod ELSE rr.cycles)
          BY <3>5, <4>1 DEF Wrapped
        <5>3. rr.max \in Int /\ rr.cycles \in Int /\ rr.base \in Int
          BY <3>1
        <5>4. n - high = s - rr.max + (IF s < rr.max THEN RtpMod ELSE 0)
          BY <3>4, <4>1, Zenon
        <5>5. rr'.base = rr.base /\ rr.cycles + rr.max - rr.base = high - heard[1]
          BY <3>1, <3>5, Zenon
        <5>6. rr'.cycles \in Int /\ rr'.cycles + (s - rr.base) = n - heard[1]
          <6> DEFINE first == heard[1]
                     oldMax == rr.max
                     old == rr.cycles
                     base == rr.base
                     turned == rr'.cycles
          <6>1. /\ first \in Int /\ oldMax \in Int /\ old \in Int /\ base \in Int
                /\ turned = (IF s < oldMax THEN old + RtpMod ELSE old)
                /\ n - high = s - oldMax + (IF s < oldMax THEN RtpMod ELSE 0)
                /\ old + oldMax - base = high - first
            BY <3>7, <5>2, <5>3, <5>4, <5>5, Zenon
          <6> HIDE DEF first, oldMax, old, base, turned
          <6>2. ASSUME s < oldMax PROVE turned \in Int /\ turned + (s - base) = n - first
            <7>1. turned = old + RtpMod /\ n - high = s - oldMax + RtpMod
              BY <6>1, <6>2
            <7> QED BY <2>2, <2>7, <3>7, <6>1, <7>1
          <6>3. ASSUME ~ (s < oldMax) PROVE turned \in Int /\ turned + (s - base) = n - first
            <7>1. turned = old /\ n - high = s - oldMax + 0
              BY <6>1, <6>3
            <7> QED BY <2>2, <2>7, <3>7, <6>1, <7>1
          <6>4. turned \in Int /\ turned + (s - base) = n - first
            BY <6>2, <6>3, Zenon
          <6> QED BY <6>4, Zenon DEF first, base, turned
        <5> QED BY <5>1, <5>2, <5>5, <5>6, Zenon
      <4>2. CASE ~ newer
        BY <2>2, <2>6, <3>1, <3>3, <3>5, <3>7, <4>2
      <4>3. newer \/ ~ newer
        BY Zenon
      <4> QED BY <4>1, <4>2, <4>3, Zenon
    <3>10. Highest' - rr'.base = high2 - heard'[1]
      <4>1. Highest' = rr'.cycles + rr'.max
        BY DEF Highest
      <4>2. rr'.cycles \in Int /\ rr'.max \in Int /\ rr'.base \in Int
        BY <3>6
      <4> QED BY <3>9, <4>1, <4>2
    <3> QED BY <2>6, <2>9, <3>5, <3>6, <3>8, <3>10 DEF CountInv, high2
  <2> QED BY <2>8, <2>9
<1>2. CASE SendRr
  <2>1. rr' = [rr EXCEPT !.expectedPrior = Max({0, Expected}), !.receivedPrior = rr.received]
        /\ heard' = heard
    BY <1>2 DEF SendRr
  <2>2. rr \in [started : BOOLEAN, base : Int, max : Int, cycles : Int,
                received : Int, expectedPrior : Int, receivedPrior : Int]
    BY DEF CountInv
  <2>3. Max({0, Expected}) \in Int
    <3>1. Expected \in Int /\ 0 \in Int
      BY <2>2 DEF Expected, Highest
    <3> QED BY <3>1, EitherExtreme, Zenon
  <2>4. /\ rr'.started = rr.started /\ rr'.base = rr.base /\ rr'.received = rr.received
        /\ rr'.max = rr.max /\ rr'.cycles = rr.cycles
    BY <2>1, <2>2
  <2>5. rr' \in [started : BOOLEAN, base : Int, max : Int, cycles : Int,
                 received : Int, expectedPrior : Int, receivedPrior : Int]
    BY <2>1, <2>2, <2>3
  <2> QED BY <2>1, <2>4, <2>5 DEF CountInv, Highest
<1>3. CASE rr' = rr /\ heard' = heard
  BY <1>3 DEF CountInv, Highest
<1> QED BY <1>1, <1>2, <1>3 DEF Next, vars, CapturePrimary, CaptureRtx, SrtpDrops, ReceiveRtx, SendTwcc

LEMMA CountedLoss == CountInv => LossIsWhatIsMissing
<1> SUFFICES ASSUME CountInv, rr.started PROVE LossIsWhatIsMissing
  BY DEF LossIsWhatIsMissing
<1> DEFINE high == Max(Seen(heard))
           missing == Cardinality(Missing(heard))
           spare == Cardinality(Spare(heard))
<1>1. /\ heard \in Seq(Int) /\ heard # <<>> /\ high \in Seen(heard)
      /\ \A n \in Seen(heard) : n <= high
      /\ rr.received = Len(heard) /\ Highest - rr.base = high - heard[1]
      /\ rr \in [started : BOOLEAN, base : Int, max : Int, cycles : Int,
                  received : Int, expectedPrior : Int, receivedPrior : Int]
  BY DEF CountInv
<1>2. missing \in Nat /\ spare \in Nat /\ missing - spare = high - heard[1] + 1 - Len(heard)
  BY <1>1, Counting
<1> HIDE DEF high, missing, spare
<1>3. Expected - rr.received = missing - spare
  <2>1. Highest \in Int /\ rr.base \in Int /\ rr.received \in Int
    BY <1>1 DEF Highest
  <2>2. Expected - rr.received = Highest - rr.base + 1 - rr.received
    BY <2>1 DEF Expected
  <2>3. Highest - rr.base + 1 - rr.received = high - heard[1] + 1 - Len(heard)
    BY <1>1
  <2> QED BY <1>2, <2>2, <2>3
<1>4. Lost = Max({0, missing - spare}) /\ Highest - rr.base = high - heard[1]
  BY <1>1, <1>3 DEF Lost
<1> QED BY <1>4, Zenon DEF LossIsWhatIsMissing, high, missing, spare, Missing, Spare, Seen

\* While no number lies half a turn from the highest, the loss reported is what is
\* missing below the highest number, less the repeats and stragglers that RFC 3550
\* counts as received (reception_stats.rs).
THEOREM LossIsCounted == Spec /\ []Near => []LossIsWhatIsMissing
<1>1. Init => FeedOK /\ CountInv
  BY FeedBegins, CountBegins
<1>2. FeedOK /\ CountInv /\ Near /\ [Next]_vars => FeedOK' /\ CountInv'
  BY FeedStep, CountStep
<1>3. CountInv => LossIsWhatIsMissing
  BY CountedLoss
<1> QED BY <1>1, <1>2, <1>3, PTL DEF Spec

-----------------------------------------------------------------------------
(* Folds from the left, unfolded; the queue delay over them.               *)

\* What holds of 0 and with every number of the next holds of all up to m.
LEMMA UpTo ==
  ASSUME NEW m \in Nat, NEW P, 0 \in P, \A n \in 1 .. m : n - 1 \in P => n \in P
  PROVE  \A n \in 0 .. m : n \in P
<1> DEFINE bad == {n \in 0 .. m : n \notin P}
<1>1. SUFFICES ASSUME bad # {} PROVE FALSE
  OBVIOUS
<1>2. bad \in SUBSET Int /\ \A n \in bad : 0 <= n
  OBVIOUS
<1>3. PICK n \in bad : \A k \in bad : n <= k
  <2> HIDE DEF bad
  <2>1. 0 \in Int /\ bad \in SUBSET Int
    BY <1>2
  <2> QED BY <1>1, <1>2, <2>1, LeastOf, Zenon
<1>4. n \in 1 .. m
  BY <1>3
<1>5. n - 1 \in 0 .. m /\ n - 1 \notin bad
  BY <1>3, <1>4
<1> QED BY <1>3, <1>4, <1>5

\* The greatest number of a set that holds the bound.
LEMMA MaxIsTop ==
  ASSUME NEW m \in Int, NEW S \in SUBSET Int, m \in S, \A y \in S : y <= m
  PROVE  Max(S) = m /\ Clock!Max(S) = m
<1>1. \E x \in S : \A y \in S : x >= y
  OBVIOUS
<1>2. Max(S) \in S /\ \A y \in S : Max(S) >= y
  BY <1>1 DEF Max
<1>3. Clock!Max(S) \in S /\ \A y \in S : Clock!Max(S) >= y
  BY <1>1 DEF Clock!Max
<1>4. ASSUME NEW x \in S, x >= m PROVE x = m
  BY <1>4
<1> QED BY <1>2, <1>3, <1>4

\* The states of a fold from the left over any part of the indices.
Folding(h, step, b, m) ==
    h = [S \in SUBSET (1 .. m) |-> IF S = {} THEN b ELSE step[<<Max(S), h[S \ {Max(S)}]>>]]

LEMMA FoldGoesOn ==
  ASSUME NEW m \in Nat, NEW b, NEW step, NEW g, Folding(g, step, b, m)
  PROVE  \E h : Folding(h, step, b, m + 1)
<1> DEFINE crest == m + 1
           h == [S \in SUBSET (1 .. crest) |->
                   IF crest \in S THEN step[<<crest, g[S \ {crest}]>>] ELSE g[S]]
<1>1. ASSUME NEW S \in SUBSET (1 .. crest), crest \in S
      PROVE  Max(S) = crest /\ S \ {crest} \in SUBSET (1 .. m) /\ S # {}
  <2>1. S \in SUBSET Int /\ \A y \in S : y <= crest
    OBVIOUS
  <2>2. Max(S) = crest
    BY <1>1, <2>1, MaxIsTop
  <2> QED BY <2>2, <1>1
<1>2. ASSUME NEW S \in SUBSET (1 .. crest), crest \notin S
      PROVE  S \in SUBSET (1 .. m) 
  BY <1>2
<1>3. \A S \in SUBSET (1 .. m) : g[S] = IF S = {} THEN b ELSE step[<<Max(S), g[S \ {Max(S)}]>>]
  BY Zenon DEF Folding
<1>4. ASSUME NEW S \in SUBSET (1 .. m), S # {} PROVE S \ {Max(S)} \in SUBSET (1 .. m)
  OBVIOUS
<1>5. \A S \in SUBSET (1 .. m) : S \in SUBSET (1 .. crest) /\ crest \notin S
  OBVIOUS
<1>6. ASSUME NEW S \in SUBSET (1 .. crest)
      PROVE  h[S] = IF S = {} THEN b ELSE step[<<Max(S), h[S \ {Max(S)}]>>]
  <2>1. CASE crest \in S
    <3>1. S \ {crest} \in SUBSET (1 .. crest) /\ crest \notin S \ {crest}
      OBVIOUS
    <3>2. h[S] = step[<<crest, g[S \ {crest}]>>] /\ h[S \ {crest}] = g[S \ {crest}]
      BY <2>1, <3>1, Zenon
    <3> QED BY <2>1, <1>1, <3>2, Zenon
  <2>2. CASE crest \notin S
    <3>1. S \in SUBSET (1 .. m) /\ h[S] = g[S]
      BY <2>2, <1>2
    <3>2. S # {} => h[S \ {Max(S)}] = g[S \ {Max(S)}]
      BY <3>1, <1>4, <1>5, Zenon
    <3> QED BY <3>1, <3>2, <1>3, Zenon
  <2> QED BY <2>1, <2>2, Zenon
<1>7. Folding(h, step, b, crest)
  BY <1>6, Zenon DEF Folding
<1> QED BY <1>7, Zenon

\* A fold of typed steps has its states, for every part of the indices.
LEMMA FoldExists ==
  ASSUME NEW m \in Nat, NEW b, NEW step PROVE \E h : Folding(h, step, b, m)
<1> DEFINE P == {n \in 0 .. m : \E h : Folding(h, step, b, n)}
<1>1. 0 \in P
  <2> DEFINE h == [S \in SUBSET (1 .. 0) |-> b]
  <2>1. \A S \in SUBSET (1 .. 0) : S = {}
    OBVIOUS
  <2>2. Folding(h, step, b, 0)
    BY <2>1, Zenon DEF Folding
  <2> QED BY <2>2
<1>2. ASSUME NEW n \in 1 .. m, n - 1 \in P PROVE n \in P
  <2>1. PICK g : Folding(g, step, b, n - 1)
    BY <1>2
  <2>2. n - 1 \in Nat /\ (n - 1) + 1 = n
    OBVIOUS
  <2>3. \E h : Folding(h, step, b, (n - 1) + 1)
    BY <2>1, <2>2, FoldGoesOn
  <2> QED BY <2>2, <2>3
<1> HIDE DEF P
<1>3. \A n \in 0 .. m : n \in P
  BY <1>1, <1>2, UpTo
<1>4. m \in P
  BY <1>3
<1> QED BY <1>4 DEF P

\* A set of states closed under the steps holds them all.
LEMMA FoldTyped ==
  ASSUME NEW m \in Nat, NEW b, NEW step, NEW h, Folding(h, step, b, m),
         NEW T, b \in T, \A p \in (1 .. m) \X T : step[p] \in T
  PROVE  \A S \in SUBSET (1 .. m) : h[S] \in T
<1> DEFINE P == {n \in 0 .. m : \A S \in SUBSET (1 .. n) : h[S] \in T}
<1>0. \A S \in SUBSET (1 .. m) : h[S] = IF S = {} THEN b ELSE step[<<Max(S), h[S \ {Max(S)}]>>]
  BY Zenon DEF Folding
<1>1. 0 \in P
  <2>1. \A S \in SUBSET (1 .. 0) : S = {} /\ S \in SUBSET (1 .. m)
    OBVIOUS
  <2>2. \A S \in SUBSET (1 .. 0) : h[S] = b
    BY <1>0, <2>1
  <2> QED BY <2>2
<1>2. ASSUME NEW n \in 1 .. m, n - 1 \in P PROVE n \in P
  <2> SUFFICES ASSUME NEW S \in SUBSET (1 .. n) PROVE h[S] \in T
    OBVIOUS
  <2>1. S \in SUBSET (1 .. m) /\ (n - 1) \in Int
    OBVIOUS
  <2>2. CASE n \notin S
    <3>1. S \in SUBSET (1 .. n - 1)
      BY <2>2
    <3> QED BY <1>2, <3>1
  <2>3. CASE n \in S
    <3>1. S \in SUBSET Int /\ \A y \in S : y <= n
      OBVIOUS
    <3>2. Max(S) = n
      BY <2>3, <3>1, MaxIsTop
    <3>3. S \ {n} \in SUBSET (1 .. n - 1)
      OBVIOUS
    <3>4. h[S \ {n}] \in T
      BY <1>2, <3>3
    <3>5. h[S] = step[<<n, h[S \ {n}]>>]
      BY <1>0, <2>1, <2>3, <3>2, Zenon
    <3> QED BY <3>4, <3>5
  <2> QED BY <2>2, <2>3
<1> HIDE DEF P
<1>3. \A n \in 0 .. m : n \in P
  BY <1>1, <1>2, UpTo
<1>4. m \in P
  BY <1>3
<1> QED BY <1>4 DEF P

\* A fold from the left whose step stays in T: its states after each element.
FoldStates(g, step, b, m, T) ==
    /\ g \in [0 .. m -> T]
    /\ g[0] = b
    /\ \A n \in 1 .. m : g[n] = step[<<n, g[n - 1]>>]

Layers(h, m) == [n \in 0 .. m |-> h[1 .. n]]

LEMMA FoldLayers ==
  ASSUME NEW m \in Nat, NEW b, NEW step, NEW T, b \in T,
         \A p \in (1 .. m) \X T : step[p] \in T
  PROVE  \E h : /\ Folding(h, step, b, m)
                /\ \A S \in SUBSET (1 .. m) : h[S] \in T
                /\ FoldStates(Layers(h, m), step, b, m, T)
<1>1. PICK h : Folding(h, step, b, m)
  BY FoldExists
<1>2. \A S \in SUBSET (1 .. m) : h[S] \in T
  BY <1>1, FoldTyped
<1>3. \A S \in SUBSET (1 .. m) : h[S] = IF S = {} THEN b ELSE step[<<Max(S), h[S \ {Max(S)}]>>]
  BY <1>1, Zenon DEF Folding
<1> DEFINE g == [n \in 0 .. m |-> h[1 .. n]]
<1>4. \A n \in 0 .. m : 1 .. n \in SUBSET (1 .. m) /\ g[n] = h[1 .. n]
  OBVIOUS
<1>5. g \in [0 .. m -> T]
  BY <1>2, <1>4
<1>6. g[0] = b
  <2>1. 1 .. 0 = {} /\ 0 \in 0 .. m
    OBVIOUS
  <2> QED BY <1>3, <1>4, <2>1, Zenon
<1>7. ASSUME NEW n \in 1 .. m PROVE g[n] = step[<<n, g[n - 1]>>]
  <2>1. /\ n \in 1 .. n /\ 1 .. n \in SUBSET Int /\ \A y \in 1 .. n : y <= n
        /\ n \in 0 .. m /\ n - 1 \in 0 .. m /\ (1 .. n) \ {n} = 1 .. (n - 1)
        /\ 1 .. n \in SUBSET (1 .. m)
    OBVIOUS
  <2>2. Max(1 .. n) = n
    BY <2>1, MaxIsTop
  <2>3. 1 .. n # {}
    BY <2>1, Zenon
  <2>4. h[1 .. n] = step[<<n, h[1 .. (n - 1)]>>]
    <3>1. h[1 .. n] = step[<<Max(1 .. n), h[(1 .. n) \ {Max(1 .. n)}]>>]
      BY <1>3, <2>1, <2>3, Zenon
    <3> QED BY <2>1, <2>2, <3>1
  <2>5. g[n] = h[1 .. n] /\ g[n - 1] = h[1 .. (n - 1)]
    BY <1>4, <2>1, Zenon
  <2> HIDE DEF g
  <2> QED BY <2>4, <2>5, Zenon
<1>8. FoldStates(g, step, b, m, T)
  BY <1>5, <1>6, <1>7, Zenon DEF FoldStates
<1> HIDE DEF g
<1>9. g = Layers(h, m)
  BY Zenon DEF g, Layers
<1> QED BY <1>1, <1>2, <1>8, <1>9, Zenon

\* The recursion a fold over a sequence is defined by, once it has a solution.
LEMMA LastOf ==
  ASSUME NEW m \in Nat, NEW S \in SUBSET (1 .. m), S # {}
  PROVE  /\ Max(S) \in 1 .. m /\ S \ {Max(S)} \in SUBSET (1 .. m)
         /\ Clock!Max(S) = Max(S)
<1>1. S \in SUBSET Int /\ \A y \in S : y <= m
  OBVIOUS
<1>2. Max(S) \in S /\ \A y \in S : y <= Max(S)
  <2>1. m \in Int
    OBVIOUS
  <2> QED BY <1>1, <2>1, MaxIsGreatest, Zenon
<1>3. Max(S) \in 1 .. m /\ S \ {Max(S)} \in SUBSET (1 .. m)
  BY <1>2
<1>4. Clock!Max(S) = Max(S)
  BY <1>1, <1>2, MaxIsTop
<1> QED BY <1>3, <1>4

-----------------------------------------------------------------------------
\* A sample, the slots of the ring.
Ages == [ts : Int, owd : Int]
Cells == [0 .. RingSize - 1 -> Ages]
\* States of the move that may go on: a slot is fresh enough to be moved.
Moving == {s \in [data : Cells, read : 0 .. RingSize - 1, cutoff : Int] :
             \E p \in 0 .. RingSize - 1 : s.data[p].ts >= s.cutoff}

RingSizeOK == RingSize \in Nat \ {0}

LEMMA Ahead ==
  ASSUME RingSizeOK, NEW i \in 0 .. RingSize - 1, NEW j \in 0 .. RingSize - 1
  PROVE  \E ahead \in 0 .. RingSize - 1 : j = (i + ahead) % RingSize
<1> USE DEF RingSizeOK
<1>1. CASE j >= i
  <2>1. j - i \in 0 .. RingSize - 1 /\ (i + (j - i)) % RingSize = j
    BY <1>1
  <2> QED BY <2>1
<1>2. CASE j < i
  <2> DEFINE d == j - i + RingSize
  <2>1. d \in 0 .. RingSize - 1 /\ i + d = j + RingSize
    BY <1>2
  <2>2. (j + RingSize) % RingSize = j
    OBVIOUS
  <2> QED BY <2>1, <2>2
<1> QED BY <1>1, <1>2

LEMMA MoveTyped ==
  ASSUME RingSizeOK, NEW s \in Moving, NEW w \in 0 .. RingSize - 1
  PROVE  Clock!MoveOne(s, w) \in Moving
<1> USE DEF RingSizeOK
<1> DEFINE Fresh(p) == \E ahead \in 0 .. RingSize - 1 :
                  /\ p = (s.read + ahead) % RingSize
                  /\ s.data[p].ts >= s.cutoff
                  /\ \A a1 \in 0 .. ahead - 1 :
                       s.data[(s.read + a1) % RingSize].ts < s.cutoff
           slot1 == CHOOSE p \in 0 .. RingSize - 1 : Fresh(p)
<1>0. s \in [data : Cells, read : 0 .. RingSize - 1, cutoff : Int]
  BY DEF Moving
<1>1. \E p \in 0 .. RingSize - 1 : Fresh(p)
  <2> DEFINE A == {x \in 0 .. RingSize - 1 : s.data[(s.read + x) % RingSize].ts >= s.cutoff}
  <2>1. A # {}
    <3>1. PICK p \in 0 .. RingSize - 1 : s.data[p].ts >= s.cutoff
      BY DEF Moving
    <3>2. PICK ahead \in 0 .. RingSize - 1 : p = (s.read + ahead) % RingSize
      BY <1>0, Ahead
    <3> QED BY <3>1, <3>2
  <2>2. A \in SUBSET Int /\ 0 \in Int /\ \A y \in A : 0 <= y
    OBVIOUS
  <2>3. PICK x \in A : \A y \in A : x <= y
    <3> HIDE DEF A
    <3> QED BY <2>1, <2>2, LeastOf, Zenon
  <2> DEFINE p1 == (s.read + x) % RingSize
  <2>4. p1 \in 0 .. RingSize - 1 /\ x \in 0 .. RingSize - 1
    BY <1>0, <2>3
  <2>5. \A a1 \in 0 .. x - 1 : s.data[(s.read + a1) % RingSize].ts < s.cutoff
    <3> TAKE a1 \in 0 .. x - 1
    <3>1. a1 \in 0 .. RingSize - 1 /\ a1 \notin A
      <4>1. a1 \in Int /\ ~(x <= a1)
        BY <2>4
      <4> QED BY <2>3, <2>4, <4>1
    <3>2. (s.read + a1) % RingSize \in 0 .. RingSize - 1
      BY <1>0, <3>1
    <3>3. s.data[(s.read + a1) % RingSize].ts \in Int /\ s.cutoff \in Int
      BY <1>0, <3>2 DEF Cells, Ages
    <3>4. ~ (s.data[(s.read + a1) % RingSize].ts >= s.cutoff)
      BY <3>1
    <3> QED BY <3>3, <3>4
  <2>6. s.data[p1].ts >= s.cutoff
    BY <2>3
  <2>7. Fresh(p1)
    BY <2>4, <2>5, <2>6
  <2> QED BY <2>4, <2>7
<1>2. slot1 \in 0 .. RingSize - 1 /\ Fresh(slot1)
  <2> HIDE DEF Fresh
  <2> QED BY <1>1
<1>3. s.data[slot1].ts >= s.cutoff
  BY <1>2
<1>4. Clock!MoveOne(s, w) = [s EXCEPT !.data[w] = s.data[slot1], !.read = (slot1 + 1) % RingSize]
  BY Zenon DEF Clock!MoveOne
<1> HIDE DEF slot1
<1> DEFINE t == [s EXCEPT !.data[w] = s.data[slot1], !.read = (slot1 + 1) % RingSize]
<1>5. /\ t.data = [s.data EXCEPT ![w] = s.data[slot1]] /\ t.read = (slot1 + 1) % RingSize
      /\ t.cutoff = s.cutoff
      /\ t \in [data : Cells, read : 0 .. RingSize - 1, cutoff : Int]
  <2>1. s.data \in Cells /\ s.data[slot1] \in Ages
    BY <1>0, <1>2 DEF Cells
  <2>2. [s.data EXCEPT ![w] = s.data[slot1]] \in Cells
    BY <2>1 DEF Cells
  <2>3. (slot1 + 1) % RingSize \in 0 .. RingSize - 1
    BY <1>2
  <2> QED BY <1>0, <2>2, <2>3
<1>6. t.data[w] = s.data[slot1]
  BY <1>0, <1>5 DEF Cells
<1>7. t \in Moving
  <2>1. t.data[w].ts >= t.cutoff
    BY <1>3, <1>5, <1>6
  <2> HIDE DEF t
  <2> QED BY <1>5, <2>1 DEF Moving
<1> QED BY <1>4, <1>7

\* The moves of evict, one after the other.
LEMMA MovesUnfold ==
  ASSUME RingSizeOK, NEW k \in Nat, k <= RingSize, NEW s0 \in Moving
  PROVE  \E g : /\ g \in [0 .. k -> Moving] /\ g[0] = s0
                /\ \A n \in 1 .. k : g[n] = Clock!MoveOne(g[n - 1], n - 1)
                /\ Clock!FoldLeft(Clock!MoveOne, s0, [i \in 1 .. k |-> i - 1]) = g[k]
<1> USE DEF RingSizeOK
<1> DEFINE order == [i \in 1 .. k |-> i - 1]
           step == [p \in (1 .. k) \X Moving |-> Clock!MoveOne(p[2], p[1] - 1)]
           Sol(h) == h = [S \in SUBSET DOMAIN order |->
                           IF S = {} THEN s0
                           ELSE Clock!MoveOne(h[S \ {Clock!Max(S)}], order[Clock!Max(S)])]
           it == CHOOSE h : Sol(h)
<1>0. DOMAIN order = 1 .. k /\ \A i \in 1 .. k : order[i] = i - 1 /\ i - 1 \in 0 .. RingSize - 1
  OBVIOUS
<1>1. Clock!FoldLeft(Clock!MoveOne, s0, order) = it[DOMAIN order]
  BY Zenon DEF Clock!FoldLeft, Clock!MapThenFoldSet
<1>2. \A p \in (1 .. k) \X Moving : step[p] = Clock!MoveOne(p[2], p[1] - 1) /\ step[p] \in Moving
  <2> TAKE p \in (1 .. k) \X Moving
  <2>1. p[2] \in Moving /\ p[1] - 1 \in 0 .. RingSize - 1
    OBVIOUS
  <2> QED BY <2>1, MoveTyped
<1> HIDE DEF step
<1>3. PICK h : /\ Folding(h, step, s0, k)
               /\ \A S \in SUBSET (1 .. k) : h[S] \in Moving
               /\ FoldStates(Layers(h, k), step, s0, k, Moving)
  <2>1. \A p \in (1 .. k) \X Moving : step[p] \in Moving
    BY <1>2
  <2> HIDE DEF order
  <2> QED BY <2>1, FoldLayers, Zenon
<1>4. Sol(h)
  <2>1. \A S \in SUBSET (1 .. k) : h[S] = IF S = {} THEN s0 ELSE step[<<Max(S), h[S \ {Max(S)}]>>]
    BY <1>3, Zenon DEF Folding
  <2>2. h = [S \in SUBSET (1 .. k) |-> h[S]]
    BY <1>3, Zenon DEF Folding
  <2>3. ASSUME NEW S \in SUBSET (1 .. k), S # {}
        PROVE  h[S] = Clock!MoveOne(h[S \ {Clock!Max(S)}], order[Clock!Max(S)])
    <3>1. Max(S) \in 1 .. k /\ S \ {Max(S)} \in SUBSET (1 .. k) /\ Clock!Max(S) = Max(S)
      BY <2>3, LastOf
    <3>2. <<Max(S), h[S \ {Max(S)}]>> \in (1 .. k) \X Moving
      BY <1>3, <3>1
    <3>3. step[<<Max(S), h[S \ {Max(S)}]>>] = Clock!MoveOne(h[S \ {Max(S)}], Max(S) - 1)
      BY <1>2, <3>2
    <3>4. order[Max(S)] = Max(S) - 1
      BY <1>0, <3>1
    <3> QED BY <2>1, <2>3, <3>1, <3>3, <3>4, Zenon
  <2> QED BY <1>0, <2>1, <2>2, <2>3, Zenon
<1>5. Sol(it)
  BY <1>4, Zenon
<1> DEFINE g == [n \in 0 .. k |-> h[1 .. n]]
<1>6. g \in [0 .. k -> Moving] /\ g[0] = s0
  BY <1>3, Zenon DEF FoldStates, Layers
<1>7. ASSUME NEW n \in 1 .. k PROVE g[n] = Clock!MoveOne(g[n - 1], n - 1)
  <2>1. g[n] = step[<<n, g[n - 1]>>]
    BY <1>3, Zenon DEF FoldStates, Layers
  <2> HIDE DEF g
  <2>2. n - 1 \in 0 .. k
    OBVIOUS
  <2>3. <<n, g[n - 1]>> \in (1 .. k) \X Moving
    BY <1>6, <2>2
  <2> QED BY <1>2, <2>1, <2>3
<1>8. it[1 .. k] = g[k]
  <2>0. \A S \in SUBSET (1 .. k) : it[S] = IF S = {} THEN s0
                           ELSE Clock!MoveOne(it[S \ {Clock!Max(S)}], order[Clock!Max(S)])
    BY <1>0, <1>5, Zenon
  <2> HIDE DEF it, order
  <2> DEFINE P == {n \in 0 .. k : it[1 .. n] = g[n]}
  <2>1. 0 \in P
    <3>1. 1 .. 0 = {} /\ 1 .. 0 \in SUBSET (1 .. k) /\ 0 \in 0 .. k
      OBVIOUS
    <3>2. it[1 .. 0] = s0
      BY <2>0, <3>1, Zenon
    <3> QED BY <1>6, <3>1, <3>2
  <2>2. ASSUME NEW n \in 1 .. k, n - 1 \in P PROVE n \in P
    <3>1. /\ n \in 1 .. n /\ 1 .. n \in SUBSET Int /\ \A y \in 1 .. n : y <= n
          /\ n \in 0 .. k /\ n - 1 \in 0 .. k /\ (1 .. n) \ {n} = 1 .. (n - 1)
          /\ 1 .. n \in SUBSET (1 .. k)
      OBVIOUS
    <3>2. Clock!Max(1 .. n) = n
      BY <3>1, MaxIsTop
    <3>3. 1 .. n # {}
      BY <3>1, Zenon
    <3>4. it[1 .. n] = Clock!MoveOne(it[1 .. (n - 1)], order[n])
      BY <2>0, <3>1, <3>2, <3>3, Zenon
    <3>5. it[1 .. (n - 1)] = g[n - 1]
      BY <2>2
    <3> QED BY <1>0, <1>7, <3>1, <3>4, <3>5
  <2> HIDE DEF P
  <2>3. \A n \in 0 .. k : n \in P
    BY <2>1, <2>2, UpTo
  <2>4. k \in P
    BY <2>3
  <2> QED BY <2>4 DEF P
<1> HIDE DEF g, it, order
<1>9. Clock!FoldLeft(Clock!MoveOne, s0, order) = g[k]
  BY <1>0, <1>1, <1>8
<1> QED BY <1>6, <1>7, <1>9 DEF order

LEMMA OnceAround ==
  ASSUME RingSizeOK, NEW x \in -RingSize .. 2 * RingSize - 1
  PROVE  x % RingSize = IF x < 0 THEN x + RingSize ELSE IF x < RingSize THEN x ELSE x - RingSize
<1> USE DEF RingSizeOK
<1>1. CASE x < 0
  <2>1. x + RingSize \in 0 .. RingSize - 1
    BY <1>1
  <2>2. x % RingSize = x + RingSize
    BY <1>1, <2>1
  <2> QED BY <1>1, <2>2
<1>2. CASE x >= 0 /\ x < RingSize
  BY <1>2
<1>3. CASE x >= RingSize
  <2>1. x - RingSize \in 0 .. RingSize - 1
    BY <1>3
  <2>2. x % RingSize = x - RingSize
    BY <1>3, <2>1
  <2> QED BY <1>3, <2>2
<1> QED BY <1>1, <1>2, <1>3

\* The ring and where its i-th sample lies.
RingOf == [data : Cells, len : 0 .. RingSize, head : 0 .. RingSize - 1]
At(r, i) == IF r.head - r.len + i > 0 THEN r.head - r.len + i - 1
            ELSE r.head - r.len + i - 1 + RingSize

LEMMA SampleAt ==
  ASSUME RingSizeOK, NEW r \in RingOf
  PROVE  /\ DOMAIN Clock!Samples(r) = 1 .. r.len
         /\ \A i \in 1 .. r.len : /\ At(r, i) \in 0 .. RingSize - 1
                                  /\ Clock!Samples(r)[i] = r.data[At(r, i)]
                                  /\ Clock!Samples(r)[i] \in Ages
<1> USE DEF RingSizeOK
<1>0. r.data \in Cells /\ r.len \in 0 .. RingSize /\ r.head \in 0 .. RingSize - 1
  BY DEF RingOf
<1>1. Clock!First(r) = IF r.head < r.len THEN r.head - r.len + RingSize ELSE r.head - r.len
  <2>1. r.head - r.len \in -RingSize .. 2 * RingSize - 1
    BY <1>0
  <2> QED BY <1>0, <2>1, OnceAround DEF Clock!First
<1>2. ASSUME NEW i \in 1 .. r.len
      PROVE  /\ At(r, i) \in 0 .. RingSize - 1
             /\ (Clock!First(r) + i - 1) % RingSize = At(r, i)
  <2>1. Clock!First(r) + i - 1 \in -RingSize .. 2 * RingSize - 1
    BY <1>0, <1>1
  <2> QED BY <1>0, <1>1, <2>1, OnceAround DEF At
<1>3. Clock!Samples(r) = [i \in 1 .. r.len |-> r.data[(Clock!First(r) + i - 1) % RingSize]]
  BY Zenon DEF Clock!Samples
<1>4. ASSUME NEW i \in 1 .. r.len
      PROVE  Clock!Samples(r)[i] = r.data[At(r, i)] /\ Clock!Samples(r)[i] \in Ages
  <2>1. Clock!Samples(r)[i] = r.data[At(r, i)]
    BY <1>2, <1>3
  <2> QED BY <1>0, <1>2, <2>1 DEF Cells
<1>5. DOMAIN Clock!Samples(r) = 1 .. r.len
  BY <1>3
<1> QED BY <1>2, <1>4, <1>5

LEMMA Pushed ==
  ASSUME RingSizeOK, NEW r \in RingOf, NEW s \in Ages
  PROVE  LET new == Clock!Push(r, s)
             over == IF r.len < RingSize THEN 0 ELSE 1
         IN  /\ new \in RingOf
             /\ new.len = r.len + 1 - over
             /\ Clock!Samples(new)[new.len] = s
             /\ \A i \in 1 .. new.len - 1 : Clock!Samples(new)[i] = Clock!Samples(r)[i + over]
<1> USE DEF RingSizeOK
<1> DEFINE new == Clock!Push(r, s)
           over == IF r.len < RingSize THEN 0 ELSE 1
<1>0. r.data \in Cells /\ r.len \in 0 .. RingSize /\ r.head \in 0 .. RingSize - 1
  BY DEF RingOf
<1>1. /\ new.data = [r.data EXCEPT ![r.head] = s]
      /\ new.head = (r.head + 1) % RingSize
      /\ new.len = r.len + 1 - over
      /\ new = [data |-> new.data, head |-> new.head, len |-> new.len]
  BY <1>0 DEF Clock!Push
<1>2. new.head = IF r.head + 1 < RingSize THEN r.head + 1 ELSE 0
  <2>1. r.head + 1 \in -RingSize .. 2 * RingSize - 1
    BY <1>0
  <2> QED BY <1>0, <1>1, <2>1, OnceAround
<1>3. new.data \in Cells /\ new.len \in 1 .. RingSize /\ new.head \in 0 .. RingSize - 1
  <2>1. new.data \in Cells
    BY <1>0, <1>1 DEF Cells
  <2> QED BY <1>0, <1>1, <1>2, <2>1
<1> HIDE DEF new, over
<1>4. new \in RingOf
  BY <1>1, <1>3 DEF RingOf
<1>5. over \in {0, 1} /\ (over = 0 <=> r.len < RingSize)
  BY <1>0 DEF over
<1>6. Clock!Samples(new)[new.len] = s
  <2>1. new.len \in 1 .. new.len
    BY <1>3
  <2>2. Clock!Samples(new)[new.len] = new.data[At(new, new.len)]
    BY <1>4, <2>1, SampleAt
  <2>3. At(new, new.len) = r.head
    BY <1>0, <1>2, <1>3 DEF At
  <2> QED BY <1>0, <1>1, <2>2, <2>3 DEF Cells
<1>7. ASSUME NEW i \in 1 .. new.len - 1
      PROVE  Clock!Samples(new)[i] = Clock!Samples(r)[i + over]
  <2>1. i \in 1 .. new.len /\ i + over \in 1 .. r.len
    BY <1>0, <1>1, <1>3, <1>5
  <2>2. /\ Clock!Samples(new)[i] = new.data[At(new, i)] /\ At(new, i) \in 0 .. RingSize - 1
        /\ Clock!Samples(r)[i + over] = r.data[At(r, i + over)]
    BY <1>4, <2>1, SampleAt
  <2>3. At(new, i) = At(r, i + over) /\ At(new, i) # r.head
    <3> DEFINE head == r.head
               len == r.len
               head1 == new.head
               len1 == new.len
    <3>1. /\ len \in 0 .. RingSize /\ head \in 0 .. RingSize - 1 /\ len1 \in 1 .. RingSize
          /\ head1 = (IF head + 1 < RingSize THEN head + 1 ELSE 0) /\ len1 = len + 1 - over
          /\ i \in 1 .. len1 /\ i <= len1 - 1
      BY <1>0, <1>1, <1>2, <1>3, <2>1
    <3>2. /\ At(r, i + over) = IF head - len + (i + over) > 0 THEN head - len + (i + over) - 1
                               ELSE head - len + (i + over) - 1 + RingSize
          /\ At(new, i) = IF head1 - len1 + i > 0 THEN head1 - len1 + i - 1
                         ELSE head1 - len1 + i - 1 + RingSize
      BY DEF At
    <3> HIDE DEF head, len, head1, len1
    <3>a. CASE over = 0
      <4>1. i <= len /\ len1 = len + 1 /\ len < RingSize
        BY <3>a, <3>1, <1>5 DEF len
      <4>2. CASE head + 1 < RingSize
        <5>1. head1 = head + 1
          BY <3>1, <4>2
        <5> QED BY <3>1, <3>2, <3>a, <4>1, <5>1 DEF head
      <4>3. CASE ~(head + 1 < RingSize)
        <5>1. head1 = 0 /\ head = RingSize - 1
          BY <3>1, <4>3
        <5>2. At(new, i) = i - len - 2 + RingSize
          BY <3>1, <3>2, <4>1, <5>1
        <5>3. At(r, i + over) = RingSize - 1 - len + i - 1
          BY <3>1, <3>2, <4>1, <5>1, <3>a
        <5> QED BY <3>1, <4>1, <5>1, <5>2, <5>3 DEF head
      <4> QED BY <4>2, <4>3
    <3>b. CASE over = 1
      <4>1. len = RingSize /\ len1 = RingSize /\ i < RingSize
        BY <3>b, <3>1, <1>5 DEF len
      <4>2. CASE head + 1 < RingSize
        <5>1. head1 = head + 1
          BY <3>1, <4>2
        <5> QED BY <3>1, <3>2, <3>b, <4>1, <5>1 DEF head
      <4>3. CASE ~(head + 1 < RingSize)
        <5>1. head1 = 0 /\ head = RingSize - 1
          BY <3>1, <4>3
        <5>2. At(new, i) = i - 1
          BY <3>1, <3>2, <4>1, <5>1
        <5>3. At(r, i + over) = i - 1
          BY <3>1, <3>2, <4>1, <5>1, <3>b
        <5> QED BY <3>1, <4>1, <5>1, <5>2, <5>3 DEF head
      <4> QED BY <4>2, <4>3
    <3> QED BY <1>5, <3>a, <3>b
  <2> QED BY <1>0, <1>1, <2>2, <2>3 DEF Cells
<1> QED BY <1>1, <1>4, <1>6, <1>7 DEF new, over

\* A ring that does not wrap holds its samples side by side.
LEMMA SideBySide ==
  ASSUME RingSizeOK, NEW r \in RingOf, Clock!First(r) + r.len <= RingSize
  PROVE  /\ Clock!First(r) \in 0 .. RingSize - 1
         /\ \A i \in 1 .. r.len : At(r, i) = Clock!First(r) + i - 1
<1> USE DEF RingSizeOK
<1>0. r.data \in Cells /\ r.len \in 0 .. RingSize /\ r.head \in 0 .. RingSize - 1
  BY DEF RingOf
<1>1. Clock!First(r) = IF r.head < r.len THEN r.head - r.len + RingSize ELSE r.head - r.len
  <2>1. r.head - r.len \in -RingSize .. 2 * RingSize - 1
    BY <1>0
  <2> QED BY <1>0, <2>1, OnceAround DEF Clock!First
<1> QED BY <1>0, <1>1 DEF At

\* One kept sample moved to the front of a ring that does not wrap.
Shifted(r, gone, cutoff, n) ==
    [data   |-> [j \in 0 .. RingSize - 1 |->
                   IF j < n THEN r.data[Clock!First(r) + gone + j] ELSE r.data[j]],
     read   |-> IF n = 0 THEN Clock!First(r) ELSE (Clock!First(r) + gone + n) % RingSize,
     cutoff |-> cutoff]

Stale(r, gone, cutoff) ==
    /\ gone \in 0 .. r.len - 1
    /\ \A i \in 1 .. gone : Clock!Samples(r)[i].ts < cutoff
    /\ \A i \in gone + 1 .. r.len : Clock!Samples(r)[i].ts >= cutoff

LEMMA MoveShifts ==
  ASSUME RingSizeOK, NEW r \in RingOf, Clock!First(r) + r.len <= RingSize,
         NEW gone, NEW cutoff \in Int, Stale(r, gone, cutoff),
         NEW n \in 1 .. r.len - gone
  PROVE  Clock!MoveOne(Shifted(r, gone, cutoff, n - 1), n - 1) = Shifted(r, gone, cutoff, n)
<1> USE DEF RingSizeOK
<1> DEFINE s == Shifted(r, gone, cutoff, n - 1)
           t == Shifted(r, gone, cutoff, n)
           F == Clock!First(r)
           from == F + gone + n - 1
           w == n - 1
           Fresh(p) == \E ahead \in 0 .. RingSize - 1 :
                  /\ p = (s.read + ahead) % RingSize
                  /\ s.data[p].ts >= s.cutoff
                  /\ \A a1 \in 0 .. ahead - 1 :
                       s.data[(s.read + a1) % RingSize].ts < s.cutoff
           slot1 == CHOOSE p \in 0 .. RingSize - 1 : Fresh(p)
<1>0. /\ r.data \in Cells /\ r.len \in 0 .. RingSize /\ r.head \in 0 .. RingSize - 1
      /\ gone \in 0 .. r.len - 1
  BY DEF RingOf, Stale
<1>1. F \in 0 .. RingSize - 1 /\ \A i \in 1 .. r.len : At(r, i) = F + i - 1
  BY SideBySide
<1>2. /\ from \in 0 .. RingSize - 1 /\ w \in 0 .. RingSize - 1 /\ w <= from
      /\ n \in 1 .. r.len /\ gone + n \in gone + 1 .. r.len
  BY <1>0, <1>1
<1>3. /\ s.data = [j \in 0 .. RingSize - 1 |-> IF j < w THEN r.data[F + gone + j] ELSE r.data[j]]
      /\ s.read = (IF w = 0 THEN F ELSE (F + gone + w) % RingSize)
      /\ s.cutoff = cutoff
  BY DEF Shifted
<1>a. \A x \in 0 .. RingSize - 1 : x % RingSize = x
  <2> TAKE x \in 0 .. RingSize - 1
  <2>1. x \in -RingSize .. 2 * RingSize - 1
    OBVIOUS
  <2> QED BY <2>1, OnceAround
<1> DEFINE skip == IF w = 0 THEN gone ELSE 0
<1>4. /\ s.read \in 0 .. RingSize - 1 /\ skip \in 0 .. RingSize - 1 /\ s.read + skip = from
      /\ (s.read + skip) % RingSize = from
  <2>1. CASE w = 0
    <3>1. s.read = F /\ skip = gone /\ from = F + gone
      BY <1>3, <2>1, <1>0, <1>1, <1>2
    <3> HIDE DEF s, F, from, w
    <3>2. skip = gone /\ gone \in 0 .. RingSize - 1
      BY <1>0, <2>1
    <3>3. s.read + skip = from
      BY <3>1, <3>2
    <3> HIDE DEF skip
    <3> QED BY <1>a, <1>1, <1>2, <3>1, <3>2, <3>3
  <2>2. CASE w # 0
    <3>1. F + gone + w = from
      BY <1>0, <1>1
    <3>2. s.read = from % RingSize
      BY <1>3, <2>2, <3>1
    <3>3. skip = 0
      BY <2>2
    <3> HIDE DEF s, F, from, w, skip
    <3>4. s.read = from
      BY <1>a, <1>2, <3>2
    <3>5. s.read + skip = from
      BY <1>2, <3>3, <3>4
    <3> QED BY <1>a, <1>2, <3>3, <3>4, <3>5
  <2> QED BY <2>1, <2>2
<1>5. s.data[from] = r.data[from] /\ r.data[from].ts >= cutoff
  <2>1. s.data[from] = r.data[from]
    BY <1>2, <1>3
  <2>2. Clock!Samples(r)[gone + n].ts >= cutoff
    BY <1>2 DEF Stale
  <2>3. gone + n \in 1 .. r.len /\ At(r, gone + n) = from
    BY <1>0, <1>1, <1>2
  <2>4. Clock!Samples(r)[gone + n] = r.data[At(r, gone + n)]
    BY <2>3, SampleAt
  <2> QED BY <2>1, <2>2, <2>3, <2>4
<1>6. \A a1 \in 0 .. skip - 1 : s.data[(s.read + a1) % RingSize].ts < cutoff
  <2> SUFFICES ASSUME NEW a1 \in 0 .. skip - 1
               PROVE  s.data[(s.read + a1) % RingSize].ts < cutoff
    OBVIOUS
  <2>1. w = 0 /\ skip = gone /\ s.read = F
    BY <1>3, <1>4
  <2>2. F + a1 \in 0 .. RingSize - 1 /\ (F + a1) % RingSize = F + a1 /\ a1 + 1 \in 1 .. gone /\ a1 + 1 \in 1 .. r.len
    <3>1. a1 \in Int /\ 0 <= a1 /\ a1 < gone
      BY <1>0, <2>1
    <3>2. F + a1 \in 0 .. RingSize - 1 /\ a1 + 1 \in 1 .. gone /\ a1 + 1 \in 1 .. r.len
      BY <1>0, <1>1, <1>2, <3>1
    <3> HIDE DEF F
    <3> QED BY <1>a, <3>2
  <2>3. s.data[F + a1] = r.data[F + a1]
    BY <1>3, <2>1, <2>2
  <2>4. Clock!Samples(r)[a1 + 1] = r.data[F + a1]
    <3>1. At(r, a1 + 1) = F + a1
      BY <1>1, <2>2
    <3> QED BY <2>2, <3>1, SampleAt
  <2>5. Clock!Samples(r)[a1 + 1].ts < cutoff
    BY <2>2 DEF Stale
  <2> QED BY <2>1, <2>2, <2>3, <2>4, <2>5
<1> HIDE DEF skip, s, F, from, w
<1>7. Fresh(from)
  BY <1>3, <1>4, <1>5, <1>6
<1>8. ASSUME NEW p \in 0 .. RingSize - 1, Fresh(p) PROVE p = from
  <2>1. PICK ahead \in 0 .. RingSize - 1 :
          /\ p = (s.read + ahead) % RingSize
          /\ s.data[p].ts >= cutoff
          /\ \A a1 \in 0 .. ahead - 1 : s.data[(s.read + a1) % RingSize].ts < cutoff
    BY <1>3, <1>8
  <2>2. cutoff \in Int /\ \A j \in 0 .. RingSize - 1 : s.data[j].ts \in Int
    <3> SUFFICES ASSUME NEW j \in 0 .. RingSize - 1 PROVE s.data[j].ts \in Int
      OBVIOUS
    <3>1. CASE j < w
      <4>1. F + gone + j \in 0 .. RingSize - 1
        BY <1>0, <1>1, <1>2, <3>1 DEF from, w
      <4>2. s.data[j] = r.data[F + gone + j]
        BY <1>3, <3>1
      <4> QED BY <1>0, <4>1, <4>2 DEF Cells, Ages
    <3>2. CASE ~(j < w)
      <4>1. s.data[j] = r.data[j]
        BY <1>3, <3>2
      <4> QED BY <1>0, <4>1 DEF Cells, Ages
    <3> QED BY <3>1, <3>2
  <2>3. ~(ahead < skip)
    <3> SUFFICES ASSUME ahead < skip PROVE FALSE
      OBVIOUS
    <3>1. ahead \in 0 .. skip - 1
      BY <1>4
    <3>2. s.data[p].ts < cutoff
      BY <1>6, <2>1, <3>1
    <3> QED BY <2>1, <2>2, <3>2
  <2>4. ~(skip < ahead)
    <3> SUFFICES ASSUME skip < ahead PROVE FALSE
      OBVIOUS
    <3>1. skip \in 0 .. ahead - 1
      BY <1>4
    <3>2. s.data[from].ts < cutoff
      BY <1>4, <2>1, <3>1
    <3> QED BY <1>2, <1>5, <2>2, <3>2
  <2>5. ahead = skip
    BY <1>4, <2>3, <2>4
  <2> QED BY <1>4, <2>1, <2>5
<1>9. slot1 = from
  <2> HIDE DEF Fresh
  <2> QED BY <1>2, <1>7, <1>8
<1>10. Clock!MoveOne(s, w) = [s EXCEPT !.data[w] = s.data[slot1], !.read = (slot1 + 1) % RingSize]
  BY Zenon DEF Clock!MoveOne
<1> HIDE DEF slot1, Fresh
<1>11. s = [data |-> s.data, read |-> s.read, cutoff |-> s.cutoff]
  BY DEF s, Shifted
<1>12. Clock!MoveOne(s, w) = [data |-> [s.data EXCEPT ![w] = r.data[from]],
                              read |-> (from + 1) % RingSize, cutoff |-> cutoff]
  BY <1>3, <1>5, <1>9, <1>10, <1>11
<1>13. [s.data EXCEPT ![w] = r.data[from]]
         = [j \in 0 .. RingSize - 1 |-> IF j < n THEN r.data[F + gone + j] ELSE r.data[j]]
  <2>1. F + gone + w = from /\ \A j \in 0 .. RingSize - 1 : j < n <=> (j < w \/ j = w)
    BY <1>0, <1>1 DEF from, w
  <2> QED BY <1>2, <1>3, <2>1
<1>14. F + gone + n = from + 1 /\ n # 0
  BY <1>0, <1>1 DEF from
<1>15. t = [data |-> [j \in 0 .. RingSize - 1 |-> IF j < n THEN r.data[F + gone + j] ELSE r.data[j]],
            read |-> (from + 1) % RingSize, cutoff |-> cutoff]
  BY <1>14 DEF Shifted, F
<1> QED BY <1>12, <1>13, <1>15 DEF s, t, w

\* A ring without its stale samples, and a move that may be made.
Freshened(r, e, cutoff) ==
    \E gone \in 0 .. r.len - 1 :
       /\ Stale(r, gone, cutoff)
       /\ e \in RingOf /\ e.len = r.len - gone
       /\ \A i \in 1 .. e.len : Clock!Samples(e)[i] = Clock!Samples(r)[i + gone]
InOneRow(r, e) == e = r \/ Clock!First(r) + r.len <= RingSize

\* What evict leaves of a ring in order whose last sample is fresh: the fresh samples,
\* unless a ring that wraps was moved.
LEMMA EvictKeeps ==
  ASSUME RingSizeOK, NEW r \in RingOf, r.len >= 1, NEW cutoff \in Int,
         \A i \in 1 .. r.len : \A j \in 1 .. r.len :
            i <= j => Clock!Samples(r)[i].ts <= Clock!Samples(r)[j].ts,
         Clock!Samples(r)[r.len].ts >= cutoff,
         NEW e, e = Clock!Evict(r, cutoff),
         InOneRow(r, e)
  PROVE  Freshened(r, e, cutoff)
<1> USE DEF RingSizeOK
<1>0. r.data \in Cells /\ r.len \in 1 .. RingSize /\ r.head \in 0 .. RingSize - 1
  BY DEF RingOf
<1>1. \A i \in 1 .. r.len : Clock!Samples(r)[i].ts \in Int
  BY SampleAt DEF Ages
<1> DEFINE C == {n \in 0 .. r.len : \A i \in 1 .. n : Clock!Samples(r)[i].ts < cutoff}
           gone == Clock!StaleCount(r, cutoff)
           kept == r.len - gone
<1>2. gone \in C /\ \A n \in C : n <= gone
  <2>1. gone = Clock!Max(C)
    BY Zenon DEF Clock!StaleCount
  <2>2. 0 \in C
    BY <1>0
  <2>3. C \in SUBSET (0 .. r.len)
    OBVIOUS
  <2> HIDE DEF C, gone
  <2>4. \E x \in C : \A y \in C : x >= y
    <3>1. C \in SUBSET Int /\ r.len \in Int /\ \A y \in C : y <= r.len
      BY <1>0, <2>3
    <3>2. Max(C) \in C /\ \A y \in C : y <= Max(C)
      BY <2>2, <3>1, MaxIsGreatest, Zenon
    <3>3. \A y \in C : Max(C) >= y
      BY <3>1, <3>2
    <3> QED BY <3>2, <3>3
  <2>5. Clock!Max(C) \in C /\ \A y \in C : Clock!Max(C) >= y
    BY <2>4 DEF Clock!Max
  <2> QED BY <2>1, <2>3, <2>5
<1> HIDE DEF gone
<1>3. gone \in 0 .. r.len /\ \A i \in 1 .. gone : Clock!Samples(r)[i].ts < cutoff
  BY <1>2
<1>4. gone \in 0 .. r.len - 1
  <2>1. gone # r.len
    BY <1>0, <1>1, <1>3
  <2> QED BY <1>0, <1>3, <2>1
<1>5. Clock!Samples(r)[gone + 1].ts >= cutoff
  <2> SUFFICES ASSUME ~(Clock!Samples(r)[gone + 1].ts >= cutoff) PROVE FALSE
    OBVIOUS
  <2>1. gone + 1 \in 0 .. r.len /\ gone + 1 \in 1 .. r.len /\ \A i \in 1 .. gone + 1 : i \in 1 .. gone \/ i = gone + 1
    BY <1>4, <1>0
  <2>2. Clock!Samples(r)[gone + 1].ts < cutoff
    BY <1>1, <2>1
  <2>3. gone + 1 \in C
    BY <1>3, <2>1, <2>2
  <2>4. gone + 1 <= gone
    BY <1>2, <2>3
  <2> QED BY <1>4, <2>4
<1>6. \A i \in gone + 1 .. r.len : Clock!Samples(r)[i].ts >= cutoff
  <2> TAKE i \in gone + 1 .. r.len
  <2>1. gone + 1 \in 1 .. r.len /\ i \in 1 .. r.len /\ gone + 1 <= i
    BY <1>0, <1>4
  <2>2. Clock!Samples(r)[gone + 1].ts <= Clock!Samples(r)[i].ts
    BY <2>1
  <2> QED BY <1>1, <1>5, <2>1, <2>2
<1>7. Stale(r, gone, cutoff)
  BY <1>3, <1>4, <1>6 DEF Stale
<1> HIDE DEF C
<1> DEFINE s0 == [data |-> r.data, read |-> Clock!First(r), cutoff |-> cutoff]
           moved == Clock!FoldLeft(Clock!MoveOne, s0, [i \in 1 .. kept |-> i - 1])
<1>8. e = IF gone = 0 THEN r
          ELSE IF kept = 0 THEN [r EXCEPT !.len = 0, !.head = 0]
          ELSE [data |-> moved.data, len |-> kept, head |-> kept]
  BY Zenon DEF Clock!Evict, gone
<1>9. CASE gone = 0
  <2>1. e = r /\ \A i \in 1 .. r.len : i + gone = i
    BY <1>8, <1>9
  <2>2. e.len = r.len - gone
    BY <1>0, <1>9, <2>1
  <2> QED BY <1>0, <1>4, <1>7, <2>1, <2>2 DEF Freshened
<1>10. CASE gone # 0
  <2>1. kept \in 1 .. RingSize - 1 /\ kept <= RingSize /\ kept # r.len /\ kept \in Nat /\ kept \in 0 .. RingSize /\ kept # 0
    BY <1>0, <1>4, <1>10
  <2> HIDE DEF moved
  <2>2. e = [data |-> moved.data, len |-> kept, head |-> kept]
    BY <1>8, <1>10, <2>1
  <2>3. e.len = kept /\ e.head = kept /\ e.data = moved.data /\ e # r
    BY <2>1, <2>2
  <2>4. Clock!First(r) + r.len <= RingSize
    BY <2>3 DEF InOneRow
  <2>5. Clock!First(r) \in 0 .. RingSize - 1 /\ \A i \in 1 .. r.len : At(r, i) = Clock!First(r) + i - 1
    BY <2>4, SideBySide
  <2>6. s0 = Shifted(r, gone, cutoff, 0)
    <3>1. r.data = [j \in 0 .. RingSize - 1 |-> IF j < 0 THEN r.data[Clock!First(r) + gone + j] ELSE r.data[j]]
      BY <1>0 DEF Cells
    <3> QED BY <3>1, Zenon DEF Shifted
  <2>7. s0 \in Moving
    <3>1. r.len \in 1 .. r.len
      BY <1>0
    <3>2. At(r, r.len) \in 0 .. RingSize - 1 /\ r.data[At(r, r.len)] = Clock!Samples(r)[r.len]
      BY <3>1, SampleAt
    <3>3. s0 \in [data : Cells, read : 0 .. RingSize - 1, cutoff : Int]
      BY <1>0, <2>5
    <3>4. s0.data[At(r, r.len)].ts >= s0.cutoff
      BY <3>2
    <3> QED BY <3>2, <3>3, <3>4 DEF Moving
  <2> HIDE DEF kept
  <2>8. PICK g : /\ g \in [0 .. kept -> Moving] /\ g[0] = s0
                 /\ \A n \in 1 .. kept : g[n] = Clock!MoveOne(g[n - 1], n - 1)
                 /\ moved = g[kept]
    <3> HIDE DEF s0
    <3> QED BY <2>1, <2>7, MovesUnfold, Zenon DEF moved
  <2> DEFINE P == {n \in 0 .. kept : g[n] = Shifted(r, gone, cutoff, n)}
  <2>9. 0 \in P
    BY <2>1, <2>6, <2>8
  <2>10. ASSUME NEW n \in 1 .. kept, n - 1 \in P PROVE n \in P
    <3>1. g[n] = Clock!MoveOne(g[n - 1], n - 1) /\ g[n - 1] = Shifted(r, gone, cutoff, n - 1)
      BY <2>8, <2>10
    <3>2. n \in 1 .. r.len - gone
      BY DEF kept
    <3>3. Clock!MoveOne(Shifted(r, gone, cutoff, n - 1), n - 1) = Shifted(r, gone, cutoff, n)
      BY <1>7, <2>4, <3>2, MoveShifts
    <3>4. n \in 0 .. kept
      BY <2>1
    <3> QED BY <3>1, <3>3, <3>4
  <2>11. \A n \in 0 .. kept : n \in P
    <3> HIDE DEF P
    <3> QED BY <2>1, <2>9, <2>10, UpTo
  <2>12. moved = Shifted(r, gone, cutoff, kept)
    <3>1. kept \in 0 .. kept
      BY <2>1
    <3> QED BY <2>8, <2>11, <3>1
  <2>13. e.data = [j \in 0 .. RingSize - 1 |->
                    IF j < kept THEN r.data[Clock!First(r) + gone + j] ELSE r.data[j]]
    BY <2>3, <2>12 DEF Shifted
  <2>14. \A j \in 0 .. RingSize - 1 : j < kept => Clock!First(r) + gone + j \in 0 .. RingSize - 1
    BY <1>0, <1>4, <2>1, <2>4, <2>5 DEF kept
  <2>15. e \in RingOf
    <3>1. e.data \in Cells
      BY <1>0, <2>13, <2>14 DEF Cells
    <3> QED BY <2>1, <2>2, <2>3, <3>1 DEF RingOf
  <2>16. \A i \in 1 .. e.len : Clock!Samples(e)[i] = Clock!Samples(r)[i + gone]
    <3> SUFFICES ASSUME NEW i \in 1 .. kept PROVE Clock!Samples(e)[i] = Clock!Samples(r)[i + gone]
      BY <2>3
    <3>1. i + gone \in 1 .. r.len /\ i - 1 \in 0 .. RingSize - 1 /\ i - 1 < kept
      BY <1>0, <1>4, <2>1 DEF kept
    <3>2. At(e, i) = i - 1
      BY <2>1, <2>3 DEF At
    <3>3. Clock!Samples(e)[i] = e.data[i - 1]
      BY <2>3, <2>15, <3>2, SampleAt
    <3>4. e.data[i - 1] = r.data[Clock!First(r) + gone + (i - 1)]
      BY <2>13, <3>1
    <3>5. At(r, i + gone) = Clock!First(r) + gone + (i - 1)
      BY <2>5, <3>1, <1>4
    <3>6. Clock!Samples(r)[i + gone] = r.data[At(r, i + gone)]
      BY <3>1, SampleAt
    <3> QED BY <3>3, <3>4, <3>5, <3>6
  <2>17. e.len = r.len - gone
    BY <2>3 DEF kept
  <2> QED BY <1>4, <1>7, <2>15, <2>16, <2>17 DEF Freshened
<1> QED BY <1>9, <1>10

LEMMA RingTurns == RingSizeOK /\ Span \in Nat /\ Delays \subseteq Nat
  BY TurnAssumption DEF RingSizeOK

Delayed == [ts : Int, delay : Int]

Row(f, len) == {f[i] : i \in 1 .. len}

\* The lowest of a row of numbers is one of them.
LEMMA LowestIsThere ==
  ASSUME NEW len \in Nat, len >= 1, NEW f, \A i \in 1 .. len : f[i] \in Int
  PROVE  \E k \in 1 .. len : /\ Clock!Min(Row(f, len)) = f[k]
                              /\ \A i \in 1 .. len : f[k] <= f[i]
<1> DEFINE F == {f[i] : i \in 1 .. len}
<1>2. PICK k \in 1 .. len : \A i \in 1 .. len : f[k] <= f[i]
  <2> DEFINE P == {n \in 0 .. len : n = 0 \/ \E k \in 1 .. n : \A i \in 1 .. n : f[k] <= f[i]}
  <2>1. 0 \in P
    OBVIOUS
  <2>2. ASSUME NEW n \in 1 .. len, n - 1 \in P PROVE n \in P
    <3>1. CASE n = 1
      <4>1. 1 \in 1 .. n /\ \A i \in 1 .. n : f[1] <= f[i]
        BY <3>1
      <4> QED BY <4>1
    <3>2. CASE n # 1
      <4>1. PICK k \in 1 .. n - 1 : \A i \in 1 .. n - 1 : f[k] <= f[i]
        BY <2>2, <3>2
      <4>2. f[k] \in Int /\ f[n] \in Int /\ k \in 1 .. n /\ n \in 1 .. n
        OBVIOUS
      <4>3. \A i \in 1 .. n : i \in 1 .. n - 1 \/ i = n
        OBVIOUS
      <4>4. CASE f[k] <= f[n]
        <5>1. \A i \in 1 .. n : f[k] <= f[i]
          BY <4>1, <4>3, <4>4
        <5> QED BY <4>2, <5>1
      <4>5. CASE ~(f[k] <= f[n])
        <5>1. \A i \in 1 .. n : f[n] <= f[i]
          BY <4>1, <4>2, <4>3, <4>5
        <5> QED BY <4>2, <5>1
      <4> QED BY <4>4, <4>5
    <3> QED BY <3>1, <3>2
  <2>3. \A n \in 0 .. len : n \in P
    <3> HIDE DEF P
    <3> QED BY <2>1, <2>2, UpTo
  <2>4. len \in 0 .. len /\ len # 0
    OBVIOUS
  <2> QED BY <2>3, <2>4
<1>3. Clock!Min(F) = f[k]
  <2>1. f[k] \in F /\ \A y \in F : f[k] <= y
    BY <1>2
  <2>2. Clock!Min(F) \in F /\ \A y \in F : Clock!Min(F) <= y
    BY <2>1 DEF Clock!Min
  <2>3. Clock!Min(F) <= f[k] /\ f[k] <= Clock!Min(F)
    BY <2>1, <2>2
  <2>4. Clock!Min(F) \in Int /\ f[k] \in Int
    BY <2>2
  <2> HIDE DEF F
  <2> QED BY <2>3, <2>4
<1> QED BY <1>2, <1>3 DEF Row

\* The lowest of a row of numbers, moved by c.
LEMMA LowestMoves ==
  ASSUME NEW len \in Nat, len >= 1, NEW c \in Int,
         NEW f, NEW g, \A i \in 1 .. len : f[i] \in Int /\ g[i] = f[i] + c
  PROVE  /\ Clock!Min(Row(f, len)) \in Int
         /\ Clock!Min(Row(g, len)) = Clock!Min(Row(f, len)) + c
<1>0. \A i \in 1 .. len : f[i] \in Int /\ g[i] \in Int
  OBVIOUS
<1>1. PICK k \in 1 .. len : /\ Clock!Min(Row(f, len)) = f[k]
                            /\ \A i \in 1 .. len : f[k] <= f[i]
  BY <1>0, LowestIsThere
<1>2. PICK n \in 1 .. len : /\ Clock!Min(Row(g, len)) = g[n]
                            /\ \A i \in 1 .. len : g[n] <= g[i]
  BY <1>0, LowestIsThere
<1>3. f[k] <= f[n] /\ g[n] <= g[k] /\ f[k] \in Int /\ f[n] \in Int
      /\ g[n] = f[n] + c /\ g[k] = f[k] + c
  BY <1>0, <1>1, <1>2
<1>4. g[n] = f[k] + c
  BY <1>3
<1> QED BY <1>1, <1>2, <1>3, <1>4

\* The samples of the ring and those remembered, one by one: the same times, in order,
\* and one-way delays that differ from the true ones by a constant.
Alike(r, seen, owd) ==
    /\ r \in RingOf /\ r.len >= 1 /\ r.len = Len(seen) /\ seen \in Seq(Delayed) /\ owd \in Int
    /\ \A i \in 1 .. r.len :
         /\ Clock!Samples(r)[i].ts = seen[i].ts
         /\ Clock!Samples(r)[i].owd = seen[i].delay - seen[r.len].delay + owd
    /\ \A i \in 1 .. r.len : \A j \in 1 .. r.len : i <= j => seen[i].ts <= seen[j].ts

\* The last RingSize samples with one more.
Longer(seen, s) ==
    IF Len(Append(seen, s)) > RingSize THEN Tail(Append(seen, s)) ELSE Append(seen, s)

LEMMA PushAlike ==
  ASSUME RingSizeOK, NEW r, NEW seen, NEW owd, Alike(r, seen, owd),
         NEW ts \in Int, NEW delay \in Int, seen[r.len].ts <= ts
  PROVE  LET next == owd + (delay - seen[r.len].delay)
             full == Clock!Push(r, [ts |-> ts, owd |-> next])
             all == Longer(seen, [ts |-> ts, delay |-> delay])
         IN  Alike(full, all, next) /\ all[full.len] = [ts |-> ts, delay |-> delay]
<1> USE DEF RingSizeOK
<1> DEFINE next == owd + (delay - seen[r.len].delay)
           s == [ts |-> ts, owd |-> next]
           d == [ts |-> ts, delay |-> delay]
           full == Clock!Push(r, s)
           all == Longer(seen, d)
           over == IF r.len < RingSize THEN 0 ELSE 1
<1>0. /\ r \in RingOf /\ r.len >= 1 /\ r.len = Len(seen) /\ seen \in Seq(Delayed) /\ owd \in Int
      /\ r.len \in 1 .. RingSize
  BY DEF Alike, RingOf
<1>1. \A i \in 1 .. r.len : seen[i] \in Delayed
  BY <1>0
<1>2. seen[r.len].delay \in Int /\ next \in Int /\ s \in Ages /\ d \in Delayed
  BY <1>0, <1>1 DEF Delayed, Ages
<1>3. /\ full \in RingOf /\ full.len = r.len + 1 - over
      /\ Clock!Samples(full)[full.len] = s
      /\ \A i \in 1 .. full.len - 1 : Clock!Samples(full)[i] = Clock!Samples(r)[i + over]
  BY <1>0, <1>2, Pushed, Zenon
<1>4. over \in {0, 1} /\ (over = 0 <=> r.len < RingSize) /\ full.len \in 1 .. RingSize
  BY <1>0, <1>3
<1> HIDE DEF s, d, next, over, full
<1>5. /\ Append(seen, d) \in Seq(Delayed) /\ Len(Append(seen, d)) = r.len + 1
      /\ \A i \in 1 .. r.len : Append(seen, d)[i] = seen[i]
      /\ Append(seen, d)[r.len + 1] = d
  BY <1>0, <1>2
<1>6. all = IF over = 1 THEN Tail(Append(seen, d)) ELSE Append(seen, d)
  BY <1>0, <1>4, <1>5 DEF Longer
<1> HIDE DEF all
<1>7. all \in Seq(Delayed) /\ Len(all) = full.len /\ \A i \in 1 .. full.len : all[i] = Append(seen, d)[i + over]
  <2>1. CASE over = 0
    BY <1>0, <1>3, <1>5, <1>6, <2>1
  <2>2. CASE over = 1
    <3> DEFINE longer == Append(seen, d)
    <3> HIDE DEF longer
    <3>1. longer \in Seq(Delayed) /\ Len(longer) = r.len + 1
      BY <1>5 DEF longer
    <3>2. Tail(longer) \in Seq(Delayed) /\ Len(Tail(longer)) = r.len
          /\ \A i \in 1 .. r.len : Tail(longer)[i] = longer[i + 1]
      BY <1>0, <3>1
    <3> QED BY <1>3, <1>6, <2>2, <3>2 DEF longer
  <2> QED BY <1>4, <2>1, <2>2
<1>8. \A i \in 1 .. full.len - 1 : i + over \in 1 .. r.len /\ all[i] = seen[i + over]
  <2> TAKE i \in 1 .. full.len - 1
  <2>1. i + over \in 1 .. r.len /\ i \in 1 .. full.len
    BY <1>0, <1>3, <1>4
  <2> QED BY <1>5, <1>7, <2>1
<1>9. all[full.len] = d
  <2>1. full.len \in 1 .. full.len /\ full.len + over = r.len + 1
    BY <1>0, <1>3, <1>4
  <2> QED BY <1>5, <1>7, <2>1
<1>10. ASSUME NEW i \in 1 .. full.len
       PROVE  /\ Clock!Samples(full)[i].ts = all[i].ts
              /\ Clock!Samples(full)[i].owd = all[i].delay - all[full.len].delay + next
  <2>1. CASE i = full.len
    <3>1. Clock!Samples(full)[i] = s /\ all[i] = d /\ all[full.len] = d
      BY <1>3, <1>9, <2>1
    <3>2. s.ts = ts /\ s.owd = next /\ d.ts = ts /\ d.delay = delay /\ delay - delay + next = next
      BY <1>2 DEF s, d
    <3> QED BY <3>1, <3>2
  <2>2. CASE i # full.len
    <3>1. i \in 1 .. full.len - 1
      BY <1>4, <2>2
    <3>2. i + over \in 1 .. r.len /\ all[i] = seen[i + over]
          /\ Clock!Samples(full)[i] = Clock!Samples(r)[i + over]
      BY <1>3, <1>8, <3>1
    <3> DEFINE k == i + over
    <3> HIDE DEF k
    <3>3. Clock!Samples(r)[k].ts = seen[k].ts /\ seen[k] \in Delayed
          /\ Clock!Samples(r)[k].owd = seen[k].delay - seen[r.len].delay + owd
      BY <1>1, <3>2 DEF Alike, k
    <3>4. next = owd + (delay - seen[r.len].delay) /\ all[full.len].delay = delay
      BY <1>9 DEF next, d
    <3>5. seen[k].delay \in Int /\ seen[r.len].delay \in Int /\ owd \in Int /\ delay \in Int
      BY <1>0, <1>2, <3>3 DEF Delayed
    <3>6. all[i] = seen[k] /\ Clock!Samples(full)[i] = Clock!Samples(r)[k]
      BY <3>2 DEF k
    <3>7. Clock!Samples(r)[k].owd = seen[k].delay - delay + next
      BY <3>3, <3>4, <3>5
    <3> QED BY <3>3, <3>4, <3>6, <3>7
  <2> QED BY <2>1, <2>2
<1>11. ASSUME NEW i \in 1 .. full.len, NEW j \in 1 .. full.len, i <= j PROVE all[i].ts <= all[j].ts
  <2>1. CASE i = full.len
    <3>1. j = full.len
      BY <1>4, <1>11, <2>1
    <3> QED BY <1>9, <2>1, <3>1 DEF d
  <2>2. CASE i # full.len /\ j = full.len
    <3>1. i + over \in 1 .. r.len /\ all[i] = seen[i + over]
      BY <1>8, <1>4, <2>2
    <3>2. seen[i + over].ts <= seen[r.len].ts /\ seen[i + over].ts \in Int /\ seen[r.len].ts \in Int
      BY <1>0, <1>1, <3>1 DEF Alike, Delayed
    <3>3. all[j].ts = ts
      BY <1>9, <2>2 DEF d
    <3> QED BY <3>1, <3>2, <3>3
  <2>3. CASE i # full.len /\ j # full.len
    <3>1. i + over \in 1 .. r.len /\ all[i] = seen[i + over]
          /\ j + over \in 1 .. r.len /\ all[j] = seen[j + over] /\ i + over <= j + over
      BY <1>8, <1>4, <1>11, <2>3
    <3>2. seen[i + over].ts <= seen[j + over].ts
      BY <3>1 DEF Alike
    <3> QED BY <3>1, <3>2
  <2> QED BY <2>1, <2>2, <2>3
<1>12. Alike(full, all, next)
  BY <1>2, <1>3, <1>4, <1>7, <1>10, <1>11 DEF Alike
<1> QED BY <1>9, <1>12 DEF full, all, next, s, d

\* The samples after the last one before the cutoff.
Recalled(all, cutoff) ==
    SubSeq(all, Clock!Max({i \in DOMAIN all : all[i].ts < cutoff} \cup {0}) + 1, Len(all))

LEMMA EvictAlike ==
  ASSUME RingSizeOK, NEW r, NEW seen, NEW owd, Alike(r, seen, owd),
         NEW cutoff \in Int, seen[r.len].ts >= cutoff,
         NEW e, e = Clock!Evict(r, cutoff), InOneRow(r, e)
  PROVE  /\ Alike(e, Recalled(seen, cutoff), owd)
         /\ Recalled(seen, cutoff)[e.len] = seen[r.len]
<1> USE DEF RingSizeOK
<1>0. /\ r \in RingOf /\ r.len >= 1 /\ r.len = Len(seen) /\ seen \in Seq(Delayed) /\ owd \in Int
      /\ r.len \in 1 .. RingSize
      /\ \A i \in 1 .. r.len : Clock!Samples(r)[i].ts = seen[i].ts
  BY DEF Alike, RingOf
<1>1. PICK gone \in 0 .. r.len - 1 :
           /\ Stale(r, gone, cutoff)
           /\ e \in RingOf /\ e.len = r.len - gone
           /\ \A i \in 1 .. e.len : Clock!Samples(e)[i] = Clock!Samples(r)[i + gone]
  <2>1. \A i \in 1 .. r.len : \A j \in 1 .. r.len :
            i <= j => Clock!Samples(r)[i].ts <= Clock!Samples(r)[j].ts
    BY <1>0 DEF Alike
  <2>2. Clock!Samples(r)[r.len].ts >= cutoff
    BY <1>0
  <2>3. Freshened(r, e, cutoff)
    BY <1>0, <2>1, <2>2, EvictKeeps
  <2> QED BY <2>3 DEF Freshened
<1> DEFINE old == {i \in DOMAIN seen : seen[i].ts < cutoff}
           kept == Recalled(seen, cutoff)
<1>2. \A i \in 1 .. r.len : seen[i] \in Delayed /\ seen[i].ts \in Int /\ seen[i].delay \in Int
  <2>1. \A i \in 1 .. r.len : seen[i] \in Delayed
    BY <1>0
  <2> QED BY <2>1 DEF Delayed
<1>3. old = 1 .. gone
  <2>1. DOMAIN seen = 1 .. r.len
    BY <1>0
  <2>2. \A i \in 1 .. gone : i \in 1 .. r.len /\ seen[i].ts < cutoff
    <3> TAKE i \in 1 .. gone
    <3>1. i \in 1 .. r.len
      BY <1>0, <1>1
    <3>2. Clock!Samples(r)[i].ts < cutoff /\ Clock!Samples(r)[i].ts = seen[i].ts
      BY <1>0, <1>1, <3>1, Zenon DEF Stale
    <3> QED BY <3>1, <3>2
  <2>3. \A i \in 1 .. r.len : i \notin 1 .. gone => seen[i].ts >= cutoff
    <3> SUFFICES ASSUME NEW i \in 1 .. r.len, i \notin 1 .. gone PROVE seen[i].ts >= cutoff
      OBVIOUS
    <3>1. i \in gone + 1 .. r.len
      BY <1>1
    <3> QED BY <1>0, <1>1, <3>1 DEF Stale
  <2> QED BY <1>2, <2>1, <2>2, <2>3
<1>4. Clock!Max(old \cup {0}) = gone
  <2>1. old \cup {0} \in SUBSET Int /\ gone \in Int /\ gone \in old \cup {0}
        /\ \A y \in old \cup {0} : y <= gone
    BY <1>1, <1>3
  <2> QED BY <2>1, MaxIsTop
<1>5. kept = SubSeq(seen, gone + 1, r.len)
  BY <1>0, <1>4, Zenon DEF Recalled
<1> HIDE DEF kept, old
<1>6. /\ kept \in Seq(Delayed) /\ Len(kept) = r.len - gone
      /\ \A i \in 1 .. r.len - gone : kept[i] = seen[i + gone]
  <2>1. gone + 1 \in 1 .. Len(seen) + 1 /\ r.len \in gone .. Len(seen)
    BY <1>0, <1>1
  <2>2. \A i \in gone + 1 .. r.len : seen[i] \in Delayed
    BY <1>0, <1>1
  <2>3. /\ kept \in Seq(Delayed)
        /\ Len(kept) = IF gone + 1 <= r.len THEN r.len - (gone + 1) + 1 ELSE 0
        /\ \A i \in 1 .. r.len - (gone + 1) + 1 : kept[i] = seen[(gone + 1) + i - 1]
    BY <1>0, <1>1, <1>5, <2>2, SubSeqProperties
  <2> QED BY <1>0, <1>1, <2>3
<1>7. e.len \in 1 .. RingSize /\ e.len + gone = r.len /\ Len(kept) = e.len
      /\ \A i \in 1 .. e.len : i + gone \in 1 .. r.len /\ kept[i] = seen[i + gone]
  BY <1>0, <1>1, <1>6
<1>8. kept[e.len] = seen[r.len]
  <2>1. e.len \in 1 .. e.len
    BY <1>7
  <2> QED BY <1>7, <2>1
<1>9. ASSUME NEW i \in 1 .. e.len
      PROVE  /\ Clock!Samples(e)[i].ts = kept[i].ts
             /\ Clock!Samples(e)[i].owd = kept[i].delay - kept[e.len].delay + owd
  <2> DEFINE k == i + gone
  <2>1. k \in 1 .. r.len /\ kept[i] = seen[k] /\ Clock!Samples(e)[i] = Clock!Samples(r)[k]
    BY <1>1, <1>7
  <2> HIDE DEF k
  <2>2. /\ Clock!Samples(r)[k].ts = seen[k].ts
        /\ Clock!Samples(r)[k].owd = seen[k].delay - seen[r.len].delay + owd
    BY <2>1 DEF Alike
  <2> QED BY <1>8, <2>1, <2>2
<1>10. ASSUME NEW i \in 1 .. e.len, NEW j \in 1 .. e.len, i <= j PROVE kept[i].ts <= kept[j].ts
  <2>1. i + gone \in 1 .. r.len /\ j + gone \in 1 .. r.len /\ i + gone <= j + gone
    BY <1>1, <1>7, <1>10
  <2>2. seen[i + gone].ts <= seen[j + gone].ts
    BY <2>1 DEF Alike
  <2> QED BY <1>7, <2>2
<1> QED BY <1>0, <1>1, <1>6, <1>7, <1>8, <1>9, <1>10 DEF Alike, kept

\* The first sample of an empty ring.
LEMMA FirstAlike ==
  ASSUME RingSizeOK, NEW ts \in Int, NEW delay \in Int
  PROVE  LET r == Clock!Push(Clock!NewRing, [ts |-> ts, owd |-> 0])
         IN  /\ Alike(r, <<[ts |-> ts, delay |-> delay]>>, 0)
             /\ r.len = 1 /\ Clock!Samples(r)[1] = [ts |-> ts, owd |-> 0]
<1> USE DEF RingSizeOK
<1> DEFINE s == [ts |-> ts, owd |-> 0]
           d == [ts |-> ts, delay |-> delay]
           r == Clock!Push(Clock!NewRing, s)
<1>1. Clock!NewRing \in RingOf /\ Clock!NewRing.len = 0
  BY DEF Clock!NewRing, RingOf, Cells, Ages
<1>2. s \in Ages /\ d \in Delayed
  BY DEF Ages, Delayed
<1> HIDE DEF s, d
<1>3. r \in RingOf /\ r.len = 1 /\ Clock!Samples(r)[1] = s
  <2>1. LET over == IF Clock!NewRing.len < RingSize THEN 0 ELSE 1
        IN  r \in RingOf /\ r.len = Clock!NewRing.len + 1 - over /\ Clock!Samples(r)[r.len] = s
    BY <1>1, <1>2, Pushed, Zenon
  <2>2. r.len = 1
    BY <1>1, <2>1
  <2> QED BY <2>1, <2>2
<1> HIDE DEF r
<1>4. <<d>> \in Seq(Delayed) /\ Len(<<d>>) = 1 /\ <<d>>[1] = d
  BY <1>2
<1>5. \A i \in 1 .. 1 : i = 1
  OBVIOUS
<1>6. s.ts = ts /\ s.owd = 0 /\ d.ts = ts /\ d.delay = delay /\ d.delay - d.delay + 0 = 0
  BY DEF s, d
<1>7. Alike(r, <<d>>, 0)
  BY <1>3, <1>4, <1>5, <1>6 DEF Alike
<1> QED BY <1>3, <1>7 DEF r, s, d

\* Nothing has come yet.
NothingCame ==
    /\ ~q.started /\ origin = Clock!Unset /\ arrived = 0
    /\ ring = Clock!NewRing /\ recent = <<>>

\* The estimator follows the true times: it stands at the last packet, and the ring
\* holds the samples remembered, their delays but for a constant.
Follows ==
    /\ origin \in Nat /\ arrived \in Nat /\ origin <= arrived
    /\ q \in [started : BOOLEAN, owd : Int, base : Int, group : Int, prevSend : Int, prevArrival : Int]
    /\ q.started /\ q.group = sent + Clock!Offset /\ q.prevSend = sent + Clock!Offset
    /\ q.prevArrival = arrived - origin
    /\ Alike(ring, recent, q.owd)
    /\ recent[ring.len] = [ts |-> arrived - origin, delay |-> arrived - origin - sent]
    /\ q.base = Clock!Lowest(ring)

DelayInv ==
    /\ shifted \in BOOLEAN
    /\ steady /\ ~shifted => IF packets = 0 THEN NothingCame ELSE Follows

LEMMA FollowedIsTheRise == ClockInv /\ DelayInv => QueueIsTheRise
<1> SUFFICES ASSUME ClockInv, DelayInv, q.started, steady, ~shifted
             PROVE  Clock!Q = recent[Len(recent)].delay - Clock!Min({recent[i].delay : i \in DOMAIN recent})
  BY DEF QueueIsTheRise, Clock!QueueIsTheRise
<1>1. Follows
  BY DEF DelayInv, NothingCame
<1>2. /\ ring \in RingOf /\ ring.len >= 1 /\ ring.len = Len(recent) /\ recent \in Seq(Delayed)
      /\ q.owd \in Int /\ ring.len \in Nat
      /\ \A i \in 1 .. ring.len :
           Clock!Samples(ring)[i].owd = recent[i].delay - recent[ring.len].delay + q.owd
  BY <1>1, RingTurns DEF Follows, Alike, RingOf, RingSizeOK
<1>3. \A i \in 1 .. ring.len : recent[i] \in Delayed
  BY <1>2
<1> DEFINE c == q.owd - recent[ring.len].delay
           low == Clock!Min({recent[i].delay : i \in 1 .. ring.len})
           f == [i \in 1 .. ring.len |-> recent[i].delay]
           g == [i \in 1 .. ring.len |-> Clock!Samples(ring)[i].owd]
<1>4. recent[ring.len].delay \in Int /\ \A i \in 1 .. ring.len : recent[i].delay \in Int
  BY <1>2, <1>3 DEF Delayed
<1>5. c \in Int /\ c = q.owd - recent[ring.len].delay
  BY <1>2, <1>4
<1> HIDE DEF c
<1>6. \A i \in 1 .. ring.len : f[i] \in Int /\ f[i] = recent[i].delay
  BY <1>4
<1>7. \A i \in 1 .. ring.len : g[i] = Clock!Samples(ring)[i].owd /\ g[i] = f[i] + c
  <2> TAKE i \in 1 .. ring.len
  <2>1. g[i] = Clock!Samples(ring)[i].owd /\ f[i] = recent[i].delay
    OBVIOUS
  <2>2. Clock!Samples(ring)[i].owd = recent[i].delay - recent[ring.len].delay + q.owd
    BY <1>2
  <2> HIDE DEF f, g
  <2> QED BY <1>2, <1>4, <1>5, <2>1, <2>2
<1> HIDE DEF f, g
<1>8. /\ Clock!Min(Row(f, ring.len)) \in Int
      /\ Clock!Min(Row(g, ring.len)) = Clock!Min(Row(f, ring.len)) + c
  <2>1. \A i \in 1 .. ring.len : f[i] \in Int /\ g[i] = f[i] + c
    BY <1>6, <1>7
  <2>2. ring.len \in Nat /\ ring.len >= 1 /\ c \in Int
    BY <1>2, <1>5
  <2> QED BY <2>1, <2>2, LowestMoves, Zenon
<1>9. /\ Row(g, ring.len) = {Clock!Samples(ring)[i].owd : i \in 1 .. ring.len}
      /\ Row(f, ring.len) = {recent[i].delay : i \in 1 .. ring.len}
  BY <1>6, <1>7 DEF Row
<1>10. Clock!Lowest(ring) = low + c /\ low \in Int
  BY <1>8, <1>9, Zenon DEF Clock!Lowest
<1>12. Clock!Q = q.owd - (low + c)
  BY <1>1, <1>10 DEF Clock!Q, Follows
<1>13. DOMAIN recent = 1 .. ring.len
  BY <1>2
<1> HIDE DEF low
<1>14. Clock!Q = recent[ring.len].delay - low
  BY <1>2, <1>4, <1>5, <1>10, <1>12
<1> QED BY <1>2, <1>13, <1>14 DEF low

LEMMA DelayBegins == Clock!Init => DelayInv
<1> SUFFICES ASSUME Clock!Init PROVE DelayInv
  OBVIOUS
<1>1. /\ q = [started |-> FALSE, owd |-> 0, base |-> 0, group |-> 0, prevSend |-> 0, prevArrival |-> 0]
      /\ packets = 0 /\ origin = Clock!Unset /\ arrived = 0
      /\ ring = Clock!NewRing /\ recent = <<>> /\ shifted = FALSE
  BY Zenon DEF Clock!Init
<1> HIDE DEF Clock!NewRing
<1>2. ~q.started
  BY <1>1
<1> QED BY <1>1, <1>2 DEF DelayInv, NothingCame

\* The first packet: the ring holds its sample, its delay is the base.
LEMMA FirstFollows ==
  ASSUME ClockInv, NothingCame, NEW when \in Nat, NEW time \in Int, NEW send \in Int,
         sent' = time, send = time + Clock!Offset', Clock!Offset' \in Int,
         arrived' = when, origin' = when,
         Clock!Estimate(send, 0), recent' = Clock!Remember(time, 0)
  PROVE  Follows' /\ shifted' = shifted
<1>1. /\ q' = [started |-> TRUE, owd |-> 0, base |-> 0, group |-> send,
               prevSend |-> send, prevArrival |-> 0]
      /\ ring' = Clock!Push(ring, [ts |-> 0, owd |-> 0])
      /\ shifted' = shifted
  BY DEF NothingCame, Clock!Estimate
<1>2. Clock!Cutoff(0) = 0
  <2>1. Clock!Cutoff(0) = Clock!Max({0, 0 - Span})
    BY Zenon DEF Clock!Cutoff
  <2>2. {0, 0 - Span} \in SUBSET Int /\ 0 \in {0, 0 - Span} /\ \A y \in {0, 0 - Span} : y <= 0
    BY RingTurns
  <2> QED BY <2>1, <2>2, MaxIsTop
<1> DEFINE d == [ts |-> 0, delay |-> 0 - time]
<1>3. recent' = <<d>>
  <2>1. Append(recent, d) = <<d>> /\ Len(<<d>>) = 1 /\ <<d>>[1] = d /\ DOMAIN <<d>> = {1} /\ d.ts = 0
    BY DEF NothingCame
  <2> HIDE DEF d
  <2>2. {i \in DOMAIN <<d>> : <<d>>[i].ts < 0} \cup {0} = {0}
    BY <2>1
  <2>3. Clock!Max({0}) = 0
    <3>1. {0} \in SUBSET Int /\ 0 \in {0} /\ \A y \in {0} : y <= 0
      OBVIOUS
    <3> QED BY <3>1, MaxIsTop
  <2>4. ~(Len(Append(recent, d)) > RingSize)
    BY <2>1, RingTurns DEF RingSizeOK
  <2>5. recent' = SubSeq(<<d>>, 0 + 1, 1)
    BY <1>2, <2>1, <2>2, <2>3, <2>4, Zenon DEF Clock!Remember, d
  <2> QED BY <2>1, <2>5
<1>4. Alike(ring', recent', 0) /\ ring'.len = 1 /\ Clock!Samples(ring')[1] = [ts |-> 0, owd |-> 0]
  <2>1. ring' = Clock!Push(Clock!NewRing, [ts |-> 0, owd |-> 0])
    BY <1>1 DEF NothingCame
  <2>2. 0 - time \in Int
    OBVIOUS
  <2> QED BY <1>3, <2>1, <2>2, FirstAlike, RingTurns
<1>5. Clock!Lowest(ring') = 0
  <2>1. {Clock!Samples(ring')[i].owd : i \in 1 .. ring'.len} = {0}
    BY <1>4
  <2>2. Clock!Min({0}) = 0
    <3>1. \E x \in {0} : \A y \in {0} : x <= y
      OBVIOUS
    <3>2. Clock!Min({0}) \in {0}
      BY <3>1 DEF Clock!Min
    <3> QED BY <3>2
  <2> QED BY <2>1, <2>2, Zenon DEF Clock!Lowest
<1>6. recent'[1] = [ts |-> 0, delay |-> 0 - time]
  BY <1>3
<1>7. (Clock!Lowest(ring))' = Clock!Lowest(ring')
  BY Zenon DEF Clock!Lowest, Clock!Samples, Clock!First
<1>8. when - when = 0
  OBVIOUS
<1> QED BY <1>1, <1>4, <1>5, <1>6, <1>7, <1>8 DEF Follows

\* A packet of a group of its own while the estimator follows.
LEMMA NextFollows ==
  ASSUME ClockInv, Follows, NEW gap \in Nat, NEW send \in Int, gap > Group,
         sent' = sent + gap, send = sent' + Clock!Offset, Clock!Offset' = Clock!Offset,
         NEW when \in Nat, arrived <= when, arrived' = when, origin' = origin,
         Clock!Estimate(send, when - origin), recent' = Clock!Remember(sent', when - origin),
         ~shifted'
  PROVE  Follows'
<1> DEFINE arrival == when - origin
           ring1 == ring
           owd == q.owd + (arrival - q.prevArrival) - (send - q.prevSend)
           s == [ts |-> arrival, owd |-> owd]
           delay == arrival - sent'
           d == [ts |-> arrival, delay |-> delay]
           full == Clock!Push(ring, s)
           kept == Clock!Evict(full, Clock!Cutoff(arrival))
           all == Longer(recent, d)
           latest == recent[ring.len]
<1>0. /\ sent \in Int /\ Clock!Offset \in Int /\ origin \in Int /\ arrived \in Int /\ arrival \in Int /\ 0 <= arrival
      /\ arrived - origin <= arrival /\ delay \in Int
      /\ Group \in Nat /\ sent' \in Nat
  BY Turns DEF ClockInv, ClockTypes, Follows
<1>1. /\ q \in [started : BOOLEAN, owd : Int, base : Int, group : Int, prevSend : Int, prevArrival : Int]
      /\ q.started /\ q.group = sent + Clock!Offset /\ q.prevSend = sent + Clock!Offset
      /\ q.prevArrival = arrived - origin
      /\ Alike(ring, recent, q.owd)
      /\ latest = [ts |-> arrived - origin, delay |-> arrived - origin - sent]
  BY DEF Follows
<1>2. ~Clock!SameGroup(send)
  BY <1>0, <1>1 DEF Clock!SameGroup
<1>3. /\ ring' = kept
      /\ q' = [q EXCEPT !.owd = owd, !.base = Clock!Base(kept), !.group = send,
                        !.prevSend = send, !.prevArrival = arrival]
      /\ shifted' = (shifted \/ (kept # full /\ Clock!First(full) + full.len > RingSize))
  <2> HIDE DEF Clock!Push, Clock!Evict, Clock!Cutoff, Clock!Base, Clock!First
  <2> QED BY <1>1, <1>2 DEF Clock!Estimate
<1>4. recent' = Recalled(all, Clock!Cutoff(arrival))
  BY Zenon DEF Clock!Remember, Recalled, Longer
<1>5. Clock!Cutoff(arrival) \in Int /\ Clock!Cutoff(arrival) <= arrival
  <2>1. Clock!Cutoff(arrival) = Clock!Max({0, arrival - Span})
    BY Zenon DEF Clock!Cutoff
  <2>2. arrival - Span \in Int /\ arrival - Span <= arrival
    BY <1>0, RingTurns
  <2> HIDE DEF arrival
  <2>3. CASE arrival - Span <= 0
    <3>1. {0, arrival - Span} \in SUBSET Int /\ 0 \in {0, arrival - Span}
          /\ \A y \in {0, arrival - Span} : y <= 0
      BY <2>2, <2>3
    <3> QED BY <1>0, <2>1, <3>1, MaxIsTop
  <2>4. CASE ~(arrival - Span <= 0)
    <3> DEFINE m == arrival - Span
    <3>1. m \in Int /\ {0, m} \in SUBSET Int /\ m \in {0, m} /\ \A y \in {0, m} : y <= m
      BY <2>2, <2>4
    <3> HIDE DEF m
    <3>2. Clock!Max({0, m}) = m
      BY <3>1, MaxIsTop
    <3> QED BY <2>1, <2>2, <3>2 DEF m
  <2> QED BY <2>3, <2>4
<1>6. /\ latest.ts = arrived - origin /\ latest.delay = arrived - origin - sent
      /\ owd = q.owd + (delay - latest.delay) /\ owd \in Int
  BY <1>0, <1>1
<1> HIDE DEF arrival, delay, owd
<1>7. Alike(full, all, owd) /\ all[full.len] = d
  <2>1. recent[ring.len].ts <= arrival
    BY <1>0, <1>6
  <2>2. owd = q.owd + (delay - recent[ring.len].delay)
    BY <1>6
  <2> HIDE DEF latest
  <2> QED BY <1>0, <1>1, <2>1, <2>2, PushAlike, RingTurns
<1>8. InOneRow(full, kept)
  <2>1. full \in RingOf
    BY <1>7 DEF Alike
  <2>2. Clock!First(full) + full.len <= RingSize \/ Clock!First(full) + full.len > RingSize
    <3>1. RingSize \in Nat \ {0} /\ full.len \in Int /\ full.head \in Int
      BY <2>1, RingTurns DEF RingOf, RingSizeOK
    <3>2. Clock!First(full) \in Int
      <4>1. full.head - full.len \in Int
        BY <3>1
      <4> HIDE DEF full
      <4> QED BY <3>1, <4>1 DEF Clock!First
    <3> QED BY <3>1, <3>2
  <2> HIDE DEF full, kept
  <2> QED BY <1>3, <2>2 DEF InOneRow
<1>9. Alike(kept, Recalled(all, Clock!Cutoff(arrival)), owd)
      /\ Recalled(all, Clock!Cutoff(arrival))[kept.len] = all[full.len]
  <2>1. all[full.len].ts >= Clock!Cutoff(arrival)
    BY <1>0, <1>5, <1>7
  <2> HIDE DEF full, all
  <2> QED BY <1>5, <1>7, <1>8, <2>1, EvictAlike, RingTurns
<1>10. Alike(ring', recent', owd) /\ recent'[ring'.len] = d
  BY <1>3, <1>4, <1>7, <1>9
<1>11. (Clock!Lowest(ring))' = Clock!Lowest(kept) /\ Clock!Base(kept) = Clock!Lowest(kept)
  BY <1>3, Zenon DEF Clock!Lowest, Clock!Samples, Clock!First, Clock!Base
<1>12. Clock!Lowest(kept) \in Int
  <2> DEFINE g == [i \in 1 .. kept.len |-> Clock!Samples(kept)[i].owd]
  <2> HIDE DEF kept
  <2>1. kept \in RingOf /\ kept.len \in Nat /\ kept.len >= 1
    BY <1>9, RingTurns DEF Alike, RingOf, RingSizeOK
  <2>2. \A i \in 1 .. kept.len : Clock!Samples(kept)[i] \in Ages
    BY <2>1, SampleAt, RingTurns
  <2>3. \A i \in 1 .. kept.len : g[i] \in Int /\ g[i] = Clock!Samples(kept)[i].owd
    BY <2>2 DEF Ages
  <2> HIDE DEF g
  <2>4. PICK k \in 1 .. kept.len : Clock!Min(Row(g, kept.len)) = g[k]
    BY <2>1, <2>3, LowestIsThere
  <2>5. Row(g, kept.len) = {Clock!Samples(kept)[i].owd : i \in 1 .. kept.len}
    BY <2>3 DEF Row
  <2> QED BY <2>3, <2>4, <2>5, Zenon DEF Clock!Lowest
<1> HIDE DEF full, kept, all, latest
<1>13. /\ q' \in [started : BOOLEAN, owd : Int, base : Int, group : Int, prevSend : Int, prevArrival : Int]
       /\ q'.started /\ q'.group = send /\ q'.prevSend = send /\ q'.prevArrival = arrival
       /\ q'.owd = owd /\ q'.base = Clock!Lowest(kept)
  BY <1>0, <1>1, <1>3, <1>6, <1>11, <1>12
<1>14. arrival = arrived' - origin' /\ delay = arrived' - origin' - sent' /\ origin' <= arrived'
       /\ origin' \in Nat /\ arrived' \in Nat
  BY <1>0 DEF arrival, delay, Follows
<1> QED BY <1>10, <1>11, <1>13, <1>14 DEF Follows

LEMMA PacketKeepsDelay ==
  ASSUME ClockInv, ClockInv', DelayInv, Clock!Packet
  PROVE  DelayInv'
<1>1. PICK gap \in SendGaps, delay \in Delays, annotates \in BOOLEAN :
        /\ packets' = packets + 1
        /\ sent' = sent + gap
        /\ began' = IF packets = 0 THEN sent' ELSE began
        /\ stamped' = IF annotates THEN sent' ELSE stamped
        /\ arrived' = Clock!Max({arrived, sent' + delay})
        /\ origin' = IF origin = Clock!Unset THEN arrived' ELSE origin
        /\ switch' = IF annotates THEN Clock!Switched(Clock!Media(sent'), unwrapper'.high) ELSE switch
        /\ LET send == IF annotates THEN switch'.media + (unwrapper'.high - switch'.ast)
                       ELSE Clock!Media(sent')
           IN  /\ Clock!Estimate(send, arrived' - origin')
               /\ recent' = Clock!Remember(sent', arrived' - origin')
               /\ steady' = (/\ steady /\ (packets = 0 \/ gap > Group)
                             /\ Clock!KeepsPace(sent', annotates))
  BY Zenon DEF Clock!Packet
<1> DEFINE send == IF annotates THEN switch'.media + (unwrapper'.high - switch'.ast)
                   ELSE Clock!Media(sent')
<1>2. /\ Clock!Estimate(send, arrived' - origin')
      /\ recent' = Clock!Remember(sent', arrived' - origin')
      /\ steady' = (/\ steady /\ (packets = 0 \/ gap > Group)
                    /\ Clock!KeepsPace(sent', annotates))
  BY <1>1, Zenon
<1>3. /\ sent \in Nat /\ packets \in Nat /\ gap \in Nat /\ delay \in Nat /\ sent' \in Nat
      /\ packets' # 0 /\ sent' + delay \in Nat
  BY <1>1, Turns, RingTurns DEF ClockInv, ClockTypes
<1>4. shifted' \in BOOLEAN /\ (~shifted' => ~shifted)
  <2>1. shifted \in BOOLEAN
    BY DEF DelayInv
  <2> QED BY <1>2, <2>1, Zenon DEF Clock!Estimate
<1> SUFFICES ASSUME steady', ~shifted' PROVE Follows'
  BY <1>3, <1>4 DEF DelayInv
<1>5. steady /\ ~shifted /\ (packets = 0 \/ gap > Group) /\ Clock!KeepsPace(sent', annotates)
  BY <1>2, <1>4, Zenon
<1>o. Clock!Offset' \in Int /\ (packets # 0 => Clock!Offset' = Clock!Offset)
  BY <1>1, <1>3, OffsetStays
<1>6. send = sent' + Clock!Offset' /\ send \in Int
  <2>1. CASE ~annotates
    <3>1. packets = 0 \/ Clock!Media(sent') - Clock!Media(began) = sent' - began
      BY <1>5, <2>1 DEF Clock!KeepsPace
    <3>2. Clock!Media(sent') - sent' = Clock!Offset' /\ Clock!Media(sent') \in Int
      BY <1>1, <1>3, <3>1, MediaKeepsPace, MediaType
    <3>3. send = Clock!Media(sent')
      BY <2>1
    <3> HIDE DEF send
    <3> QED BY <1>3, <1>o, <3>2, <3>3
  <2>2. CASE annotates
    <3>1. switch'.active
      BY <1>1, <2>2 DEF Clock!Switched
    <3>2. switch'.media + (unwrapper'.high - switch'.ast) - stamped' = Clock!Offset'
      BY <3>1 DEF ClockInv, InStep
    <3>3. unwrapper'.high \in Int /\ switch'.media \in Int /\ switch'.ast \in Int /\ stamped' = sent'
      BY <1>1, <2>2 DEF ClockInv, ClockTypes
    <3>4. send = switch'.media + (unwrapper'.high - switch'.ast)
      BY <2>2
    <3> HIDE DEF send
    <3> QED BY <1>3, <1>o, <3>2, <3>3, <3>4
  <2> QED BY <2>1, <2>2
<1>7. arrived \in Nat => arrived' \in Nat /\ arrived <= arrived'
  <2> SUFFICES ASSUME arrived \in Nat PROVE arrived' \in Nat /\ arrived <= arrived'
    OBVIOUS
  <2> DEFINE late == sent' + delay
  <2>1. late \in Nat
    BY <1>3
  <2> HIDE DEF late
  <2>2. arrived' = Clock!Max({arrived, late})
    BY <1>1 DEF late
  <2>3. CASE arrived <= late
    <3>1. {arrived, late} \in SUBSET Int /\ late \in {arrived, late} /\ \A y \in {arrived, late} : y <= late
      BY <2>1, <2>3
    <3> QED BY <2>1, <2>2, <2>3, <3>1, MaxIsTop
  <2>4. CASE ~(arrived <= late)
    <3>1. {arrived, late} \in SUBSET Int /\ arrived \in {arrived, late} /\ \A y \in {arrived, late} : y <= arrived
      BY <2>1, <2>4
    <3> QED BY <2>1, <2>2, <3>1, MaxIsTop
  <2> QED BY <2>3, <2>4
<1> HIDE DEF send
<1>8. CASE packets = 0
  <2>1. NothingCame
    BY <1>5, <1>8 DEF DelayInv
  <2>2. arrived' \in Nat /\ origin' = arrived' /\ arrived' - origin' = 0
    BY <1>1, <1>7, <2>1 DEF NothingCame
  <2>3. Clock!Estimate(send, 0) /\ recent' = Clock!Remember(sent', 0)
    BY <1>2, <2>2
  <2>4. sent' \in Int /\ arrived' \in Nat /\ origin' = arrived'
    BY <1>3, <2>2
  <2> QED BY <1>o, <1>6, <2>1, <2>3, <2>4, FirstFollows, Zenon
<1>9. CASE packets # 0
  <2>1. Follows /\ gap > Group
    BY <1>3, <1>5, <1>9, Turns DEF DelayInv
  <2>2. arrived \in Nat /\ origin \in Nat /\ arrived' \in Nat /\ arrived <= arrived' /\ origin' = origin
    BY <1>1, <1>7, <2>1 DEF Follows, Clock!Unset
  <2>3. send = sent' + Clock!Offset /\ Clock!Offset' = Clock!Offset
    BY <1>6, <1>9, <1>o
  <2>4. Clock!Estimate(send, arrived' - origin) /\ recent' = Clock!Remember(sent', arrived' - origin)
    BY <1>2, <2>2
  <2>5. sent' = sent + gap /\ send \in Int
    BY <1>1, <1>6
  <2> QED BY <1>3, <2>1, <2>2, <2>3, <2>4, <2>5, NextFollows
<1> QED BY <1>8, <1>9

LEMMA DelayStep == ClockInv /\ ClockInv' /\ DelayInv /\ [Clock!Next]_(Clock!vars) => DelayInv'
<1> SUFFICES ASSUME ClockInv, ClockInv', DelayInv, [Clock!Next]_(Clock!vars) PROVE DelayInv'
  OBVIOUS
<1>1. CASE Clock!ResetAnchor
  BY <1>1 DEF Clock!ResetAnchor, DelayInv
<1>2. CASE UNCHANGED Clock!vars
  <2>1. /\ sent' = sent /\ began' = began /\ arrived' = arrived /\ packets' = packets /\ origin' = origin /\ q' = q
        /\ ring' = ring /\ recent' = recent /\ steady' = steady /\ shifted' = shifted
    BY <1>2 DEF Clock!vars
  <2>2. (Clock!Lowest(ring))' = Clock!Lowest(ring)
    BY <2>1, Zenon DEF Clock!Lowest, Clock!Samples, Clock!First
  <2>3. Alike(ring, recent, q.owd)' = Alike(ring, recent, q.owd)
    BY <2>1, Zenon DEF Alike, Clock!Samples, Clock!First, RingOf, Cells, Ages, Delayed
  <2>4. Clock!Offset' = Clock!Offset
    BY <2>1 DEF Clock!Offset, Clock!Media
  <2> QED BY <2>1, <2>2, <2>3, <2>4 DEF DelayInv, NothingCame, Follows, Clock!Unset, Clock!NewRing
<1> QED BY <1>1, <1>2, PacketKeepsDelay DEF Clock!Next

\* The queue delay is how far the last packet's delay lies above the lowest of the window,
\* through every wrap of the stamps, the changes of clock and the turns of the ring, while
\* the stream is steady, every packet is a group and no wrapped ring was moved:
\* QueueDelayEstimator::push and RingBuf.
THEOREM QueueStaysTheRise == Clock!Spec => []QueueIsTheRise
<1>1. Clock!Init => ClockInv /\ DelayInv
  BY ClockBegins, DelayBegins
<1>2. ClockInv /\ DelayInv /\ [Clock!Next]_(Clock!vars) => ClockInv' /\ DelayInv'
  BY ClockStep, DelayStep
<1> QED BY <1>1, <1>2, FollowedIsTheRise, PTL DEF Clock!Spec

\* The recursion of a fold, seen from any solution: its values are the fold's states.
Iterates(it, step, b, m, T) ==
    /\ it[{}] = b
    /\ \A n \in 1 .. m : it[1 .. n - 1] \in T => it[1 .. n] = step[<<n, it[1 .. n - 1]>>]

\* Whatever a fold iterates to is what its states reach.
LEMMA FoldEnds ==
  ASSUME NEW m \in Nat, NEW b, NEW step, NEW T, NEW g, FoldStates(g, step, b, m, T),
         NEW it, Iterates(it, step, b, m, T)
  PROVE  it[1 .. m] = g[m]
<1> DEFINE P == {n \in 0 .. m : it[1 .. n] = g[n]}
<1>1. 0 \in P
  <2>1. 1 .. 0 = {} /\ 0 \in 0 .. m
    OBVIOUS
  <2> QED BY <2>1 DEF Iterates, FoldStates
<1>2. ASSUME NEW n \in 1 .. m, n - 1 \in P PROVE n \in P
  <2>1. n \in 0 .. m /\ n - 1 \in 0 .. m /\ it[1 .. n - 1] = g[n - 1]
    BY <1>2
  <2>2. g[n - 1] \in T /\ g[n] = step[<<n, g[n - 1]>>]
    BY <2>1 DEF FoldStates
  <2>3. it[1 .. n] = g[n]
    BY <2>1, <2>2, Zenon DEF Iterates
  <2> QED BY <2>1, <2>3
<1>3. \A n \in 0 .. m : n \in P
  <2> HIDE DEF P
  <2> QED BY <1>1, <1>2, UpTo
<1> QED BY <1>3

\* What a solution of the recursion owes to its definition.
LEMMA FoldUnwinds ==
  ASSUME NEW m \in Nat, NEW b, NEW step, NEW T, NEW it,
         it[{}] = b,
         \A S \in SUBSET (1 .. m) : S # {} /\ it[S \ {Max(S)}] \in T
                                      => it[S] = step[<<Max(S), it[S \ {Max(S)}]>>]
  PROVE  Iterates(it, step, b, m, T)
<1> SUFFICES ASSUME NEW n \in 1 .. m, it[1 .. n - 1] \in T
             PROVE  it[1 .. n] = step[<<n, it[1 .. n - 1]>>]
  BY DEF Iterates
<1>1. /\ n \in 1 .. n /\ 1 .. n \in SUBSET Int /\ \A y \in 1 .. n : y <= n
      /\ (1 .. n) \ {n} = 1 .. n - 1 /\ 1 .. n \in SUBSET (1 .. m) /\ n \in Int
  OBVIOUS
<1>2. Max(1 .. n) = n
  BY <1>1, MaxIsTop
<1>3. 1 .. n # {}
  BY <1>1, Zenon
<1> QED BY <1>1, <1>2, <1>3, Zenon

\* The sum of a sequence, number by number.
LEMMA SumIs ==
  ASSUME NEW m \in Nat, NEW s \in [1 .. m -> Int], NEW sums \in [0 .. m -> Int],
         sums[0] = 0, \A n \in 1 .. m : sums[n] = sums[n - 1] + s[n]
  PROVE  FoldLeft(+, 0, s) = sums[m]
<1> DEFINE step == [p \in (1 .. m) \X Int |-> p[2] + s[p[1]]]
           Sol(h) == h = [S \in SUBSET DOMAIN s |->
                           IF S = {} THEN 0 ELSE h[S \ {Max(S)}] + s[Max(S)]]
           it == CHOOSE h : Sol(h)
<1>0. DOMAIN s = 1 .. m
  OBVIOUS
<1>1. FoldLeft(+, 0, s) = it[DOMAIN s]
  BY Zenon DEF FoldLeft, MapThenFoldSet
<1>2. \A p \in (1 .. m) \X Int : step[p] = p[2] + s[p[1]] /\ step[p] \in Int
  OBVIOUS
<1> HIDE DEF step
<1>3. PICK h : Folding(h, step, 0, m) /\ \A S \in SUBSET (1 .. m) : h[S] \in Int
  <2>1. \A p \in (1 .. m) \X Int : step[p] \in Int
    BY <1>2
  <2>2. 0 \in Int
    OBVIOUS
  <2> QED BY <2>1, <2>2, FoldLayers, Zenon
<1>4. \A x \in Int : \A n \in 1 .. m : step[<<n, x>>] = x + s[n]
  <2> TAKE x \in Int
  <2> TAKE n \in 1 .. m
  <2>1. <<n, x>> \in (1 .. m) \X Int
    OBVIOUS
  <2> QED BY <1>2, <2>1
<1>5. Sol(h)
  <2>1. h = [S \in SUBSET (1 .. m) |-> IF S = {} THEN 0 ELSE step[<<Max(S), h[S \ {Max(S)}]>>]]
    BY <1>3, Zenon DEF Folding
  <2>2. ASSUME NEW S \in SUBSET (1 .. m), S # {}
        PROVE  step[<<Max(S), h[S \ {Max(S)}]>>] = h[S \ {Max(S)}] + s[Max(S)]
    <3>1. Max(S) \in 1 .. m /\ S \ {Max(S)} \in SUBSET (1 .. m)
      BY <2>2, LastOf
    <3> QED BY <1>3, <1>4, <3>1, Zenon
  <2> QED BY <1>0, <2>1, <2>2, Zenon
<1>6. Sol(it)
  BY <1>5, Zenon
<1>7. it = [S \in SUBSET (1 .. m) |-> IF S = {} THEN 0 ELSE it[S \ {Max(S)}] + s[Max(S)]]
  BY <1>0, <1>6, Zenon
<1> HIDE DEF it, Sol
<1>8. \A S \in SUBSET (1 .. m) : it[S] = IF S = {} THEN 0 ELSE it[S \ {Max(S)}] + s[Max(S)]
  BY <1>7, Zenon
<1>9. Iterates(it, step, 0, m, Int)
  <2>1. it[{}] = 0
    BY <1>8, Zenon
  <2>2. ASSUME NEW S \in SUBSET (1 .. m), S # {}, it[S \ {Max(S)}] \in Int
        PROVE  it[S] = step[<<Max(S), it[S \ {Max(S)}]>>]
    <3>1. Max(S) \in 1 .. m
      BY <2>2, LastOf
    <3> QED BY <1>4, <1>8, <2>2, <3>1, Zenon
  <2> QED BY <2>1, <2>2, FoldUnwinds, Zenon
<1>10. FoldStates(sums, step, 0, m, Int)
  <2>1. ASSUME NEW n \in 1 .. m PROVE sums[n] = step[<<n, sums[n - 1]>>]
    BY <1>4, <2>1
  <2> QED BY <2>1 DEF FoldStates
<1>11. it[1 .. m] = sums[m]
  BY <1>9, <1>10, FoldEnds
<1> QED BY <1>0, <1>1, <1>11

AddAll(b, s)    == FoldLeft(AddSymbol, b, s)
CloseAll(b, s)  == FoldLeft(CloseOne, b, s)
ExtendAll(b, s) == FoldLeft(Extend, b, s)

Adds(g, m, s, T, b) ==
  /\ g \in [0 .. m -> T] /\ g[0] = b
  /\ \A n \in 1 .. m : g[n] = AddSymbol(g[n - 1], s[n])
  /\ AddAll(b, s) = g[m]

Closes(g, m, s, T, b) ==
  /\ g \in [0 .. m -> T] /\ g[0] = b
  /\ \A n \in 1 .. m : g[n] = CloseOne(g[n - 1], s[n])
  /\ CloseAll(b, s) = g[m]

Extends(g, m, s, T, b) ==
  /\ g \in [0 .. m -> T] /\ g[0] = b
  /\ \A n \in 1 .. m : g[n] = Extend(g[n - 1], s[n])
  /\ ExtendAll(b, s) = g[m]

\* Symbols added one after the other.
LEMMA SymbolsAdded ==
  ASSUME NEW m \in Nat, NEW s, DOMAIN s = 1 .. m, NEW T, NEW b \in T,
         \A n \in 1 .. m : \A x \in T : AddSymbol(x, s[n]) \in T
  PROVE  \E g : Adds(g, m, s, T, b)
<1> DEFINE step == [p \in (1 .. m) \X T |-> AddSymbol(p[2], s[p[1]])]
           Sol(h) == h = [S \in SUBSET DOMAIN s |->
                           IF S = {} THEN b ELSE AddSymbol(h[S \ {Max(S)}], s[Max(S)])]
           it == CHOOSE h : Sol(h)
<1>1. FoldLeft(AddSymbol, b, s) = it[DOMAIN s]
  BY Zenon DEF FoldLeft, MapThenFoldSet
<1>2. ASSUME NEW x \in T, NEW n \in 1 .. m
      PROVE  step[<<n, x>>] = AddSymbol(x, s[n])
  <2>1. <<n, x>> \in (1 .. m) \X T
    OBVIOUS
  <2> QED BY <2>1
<1>3. \A p \in (1 .. m) \X T : step[p] \in T
  OBVIOUS
<1> HIDE DEF step
<1>4. PICK h : /\ Folding(h, step, b, m) /\ \A S \in SUBSET (1 .. m) : h[S] \in T
               /\ FoldStates(Layers(h, m), step, b, m, T)
  BY <1>3, FoldLayers, Zenon
<1>5. Sol(h)
  <2>1. h = [S \in SUBSET (1 .. m) |-> IF S = {} THEN b ELSE step[<<Max(S), h[S \ {Max(S)}]>>]]
    BY <1>4, Zenon DEF Folding
  <2>2. ASSUME NEW S \in SUBSET (1 .. m), S # {}
        PROVE  step[<<Max(S), h[S \ {Max(S)}]>>] = AddSymbol(h[S \ {Max(S)}], s[Max(S)])
    <3>1. Max(S) \in 1 .. m /\ S \ {Max(S)} \in SUBSET (1 .. m)
      BY <2>2, LastOf
    <3> QED BY <1>2, <1>4, <3>1, Zenon
  <2> QED BY <2>1, <2>2, Zenon
<1>6. it = [S \in SUBSET (1 .. m) |-> IF S = {} THEN b ELSE AddSymbol(it[S \ {Max(S)}], s[Max(S)])]
  BY <1>5, Zenon
<1> HIDE DEF it, Sol
<1>7. \A S \in SUBSET (1 .. m) : it[S] = IF S = {} THEN b ELSE AddSymbol(it[S \ {Max(S)}], s[Max(S)])
  BY <1>6, Zenon
<1>8. Iterates(it, step, b, m, T)
  <2>1. it[{}] = b
    BY <1>7, Zenon
  <2>2. ASSUME NEW S \in SUBSET (1 .. m), S # {}, it[S \ {Max(S)}] \in T
        PROVE  it[S] = step[<<Max(S), it[S \ {Max(S)}]>>]
    <3>1. Max(S) \in 1 .. m
      BY <2>2, LastOf
    <3> QED BY <1>2, <1>7, <2>2, <3>1, Zenon
  <2> QED BY <2>1, <2>2, FoldUnwinds, Zenon
<1> DEFINE g == Layers(h, m)
<1>9. it[1 .. m] = g[m]
  BY <1>4, <1>8, FoldEnds
<1>10. g \in [0 .. m -> T] /\ g[0] = b /\ \A n \in 1 .. m : g[n] = step[<<n, g[n - 1]>>]
  BY <1>4, Zenon DEF FoldStates
<1> HIDE DEF g
<1>11. ASSUME NEW n \in 1 .. m PROVE g[n] = AddSymbol(g[n - 1], s[n])
  <2>1. n - 1 \in 0 .. m
    OBVIOUS
  <2>2. g[n - 1] \in T
    BY <1>10, <2>1
  <2> QED BY <1>2, <1>10, <2>2, Zenon
<1>12. AddAll(b, s) = g[m]
  BY <1>1, <1>9, Zenon DEF AddAll
<1> QED BY <1>10, <1>11, <1>12, Zenon DEF Adds

\* A chunk written out time after time.
LEMMA Closing ==
  ASSUME NEW m \in Nat, NEW s, DOMAIN s = 1 .. m, NEW T, NEW b \in T,
         \A n \in 1 .. m : \A x \in T : CloseOne(x, s[n]) \in T
  PROVE  \E g : Closes(g, m, s, T, b)
<1> DEFINE step == [p \in (1 .. m) \X T |-> CloseOne(p[2], s[p[1]])]
           Sol(h) == h = [S \in SUBSET DOMAIN s |->
                           IF S = {} THEN b ELSE CloseOne(h[S \ {Max(S)}], s[Max(S)])]
           it == CHOOSE h : Sol(h)
<1>1. FoldLeft(CloseOne, b, s) = it[DOMAIN s]
  BY Zenon DEF FoldLeft, MapThenFoldSet
<1>2. ASSUME NEW x \in T, NEW n \in 1 .. m
      PROVE  step[<<n, x>>] = CloseOne(x, s[n])
  <2>1. <<n, x>> \in (1 .. m) \X T
    OBVIOUS
  <2> QED BY <2>1
<1>3. \A p \in (1 .. m) \X T : step[p] \in T
  OBVIOUS
<1> HIDE DEF step
<1>4. PICK h : /\ Folding(h, step, b, m) /\ \A S \in SUBSET (1 .. m) : h[S] \in T
               /\ FoldStates(Layers(h, m), step, b, m, T)
  BY <1>3, FoldLayers, Zenon
<1>5. Sol(h)
  <2>1. h = [S \in SUBSET (1 .. m) |-> IF S = {} THEN b ELSE step[<<Max(S), h[S \ {Max(S)}]>>]]
    BY <1>4, Zenon DEF Folding
  <2>2. ASSUME NEW S \in SUBSET (1 .. m), S # {}
        PROVE  step[<<Max(S), h[S \ {Max(S)}]>>] = CloseOne(h[S \ {Max(S)}], s[Max(S)])
    <3>1. Max(S) \in 1 .. m /\ S \ {Max(S)} \in SUBSET (1 .. m)
      BY <2>2, LastOf
    <3> QED BY <1>2, <1>4, <3>1, Zenon
  <2> QED BY <2>1, <2>2, Zenon
<1>6. it = [S \in SUBSET (1 .. m) |-> IF S = {} THEN b ELSE CloseOne(it[S \ {Max(S)}], s[Max(S)])]
  BY <1>5, Zenon
<1> HIDE DEF it, Sol
<1>7. \A S \in SUBSET (1 .. m) : it[S] = IF S = {} THEN b ELSE CloseOne(it[S \ {Max(S)}], s[Max(S)])
  BY <1>6, Zenon
<1>8. Iterates(it, step, b, m, T)
  <2>1. it[{}] = b
    BY <1>7, Zenon
  <2>2. ASSUME NEW S \in SUBSET (1 .. m), S # {}, it[S \ {Max(S)}] \in T
        PROVE  it[S] = step[<<Max(S), it[S \ {Max(S)}]>>]
    <3>1. Max(S) \in 1 .. m
      BY <2>2, LastOf
    <3> QED BY <1>2, <1>7, <2>2, <3>1, Zenon
  <2> QED BY <2>1, <2>2, FoldUnwinds, Zenon
<1> DEFINE g == Layers(h, m)
<1>9. it[1 .. m] = g[m]
  BY <1>4, <1>8, FoldEnds
<1>10. g \in [0 .. m -> T] /\ g[0] = b /\ \A n \in 1 .. m : g[n] = step[<<n, g[n - 1]>>]
  BY <1>4, Zenon DEF FoldStates
<1> HIDE DEF g
<1>11. ASSUME NEW n \in 1 .. m PROVE g[n] = CloseOne(g[n - 1], s[n])
  <2>1. n - 1 \in 0 .. m
    OBVIOUS
  <2>2. g[n - 1] \in T
    BY <1>10, <2>1
  <2> QED BY <1>2, <1>10, <2>2, Zenon
<1>12. CloseAll(b, s) = g[m]
  BY <1>1, <1>9, Zenon DEF CloseAll
<1> QED BY <1>10, <1>11, <1>12, Zenon DEF Closes

\* Arrivals taken one after the other.
LEMMA Extending ==
  ASSUME NEW m \in Nat, NEW s, DOMAIN s = 1 .. m, NEW T, NEW b \in T,
         \A n \in 1 .. m : \A x \in T : Extend(x, s[n]) \in T
  PROVE  \E g : Extends(g, m, s, T, b)
<1> DEFINE step == [p \in (1 .. m) \X T |-> Extend(p[2], s[p[1]])]
           Sol(h) == h = [S \in SUBSET DOMAIN s |->
                           IF S = {} THEN b ELSE Extend(h[S \ {Max(S)}], s[Max(S)])]
           it == CHOOSE h : Sol(h)
<1>1. FoldLeft(Extend, b, s) = it[DOMAIN s]
  BY Zenon DEF FoldLeft, MapThenFoldSet
<1>2. ASSUME NEW x \in T, NEW n \in 1 .. m
      PROVE  step[<<n, x>>] = Extend(x, s[n])
  <2>1. <<n, x>> \in (1 .. m) \X T
    OBVIOUS
  <2> QED BY <2>1
<1>3. \A p \in (1 .. m) \X T : step[p] \in T
  OBVIOUS
<1> HIDE DEF step
<1>4. PICK h : /\ Folding(h, step, b, m) /\ \A S \in SUBSET (1 .. m) : h[S] \in T
               /\ FoldStates(Layers(h, m), step, b, m, T)
  BY <1>3, FoldLayers, Zenon
<1>5. Sol(h)
  <2>1. h = [S \in SUBSET (1 .. m) |-> IF S = {} THEN b ELSE step[<<Max(S), h[S \ {Max(S)}]>>]]
    BY <1>4, Zenon DEF Folding
  <2>2. ASSUME NEW S \in SUBSET (1 .. m), S # {}
        PROVE  step[<<Max(S), h[S \ {Max(S)}]>>] = Extend(h[S \ {Max(S)}], s[Max(S)])
    <3>1. Max(S) \in 1 .. m /\ S \ {Max(S)} \in SUBSET (1 .. m)
      BY <2>2, LastOf
    <3> QED BY <1>2, <1>4, <3>1, Zenon
  <2> QED BY <2>1, <2>2, Zenon
<1>6. it = [S \in SUBSET (1 .. m) |-> IF S = {} THEN b ELSE Extend(it[S \ {Max(S)}], s[Max(S)])]
  BY <1>5, Zenon
<1> HIDE DEF it, Sol
<1>7. \A S \in SUBSET (1 .. m) : it[S] = IF S = {} THEN b ELSE Extend(it[S \ {Max(S)}], s[Max(S)])
  BY <1>6, Zenon
<1>8. Iterates(it, step, b, m, T)
  <2>1. it[{}] = b
    BY <1>7, Zenon
  <2>2. ASSUME NEW S \in SUBSET (1 .. m), S # {}, it[S \ {Max(S)}] \in T
        PROVE  it[S] = step[<<Max(S), it[S \ {Max(S)}]>>]
    <3>1. Max(S) \in 1 .. m
      BY <2>2, LastOf
    <3> QED BY <1>2, <1>7, <2>2, <3>1, Zenon
  <2> QED BY <2>1, <2>2, FoldUnwinds, Zenon
<1> DEFINE g == Layers(h, m)
<1>9. it[1 .. m] = g[m]
  BY <1>4, <1>8, FoldEnds
<1>10. g \in [0 .. m -> T] /\ g[0] = b /\ \A n \in 1 .. m : g[n] = step[<<n, g[n - 1]>>]
  BY <1>4, Zenon DEF FoldStates
<1> HIDE DEF g
<1>11. ASSUME NEW n \in 1 .. m PROVE g[n] = Extend(g[n - 1], s[n])
  <2>1. n - 1 \in 0 .. m
    OBVIOUS
  <2>2. g[n - 1] \in T
    BY <1>10, <2>1
  <2> QED BY <1>2, <1>10, <2>2, Zenon
<1>12. ExtendAll(b, s) = g[m]
  BY <1>1, <1>9, Zenon DEF ExtendAll
<1> QED BY <1>10, <1>11, <1>12, Zenon DEF Extends

\* The rows of s joined one after the other.
Joins(g, s, X) ==
  /\ g \in [0 .. Len(s) -> Seq(X)] /\ g[0] = <<>>
  /\ \A n \in 1 .. Len(s) : g[n] = g[n - 1] \o s[n]
  /\ FlattenSeq(s) = g[Len(s)]

\* A sequence of sequences laid end to end, one after the other.
LEMMA FlattenUnfolds ==
  ASSUME NEW X, NEW s \in Seq(Seq(X))
  PROVE  \E g : Joins(g, s, X)
<1> DEFINE m == Len(s)
           T == Seq(X)
           step == [p \in (1 .. m) \X T |-> p[2] \o s[p[1]]]
           Sol(h) == h = [i \in 1 .. Len(s) |-> IF i = 1 THEN s[i] ELSE h[i - 1] \o s[i]]
           it == CHOOSE h : Sol(h)
<1>0. m \in Nat /\ \A i \in 1 .. m : s[i] \in T
  BY LenProperties, ElementOfSeq
<1>e. <<>> \in T
  BY EmptySeq
<1>1. FlattenSeq(s) = IF m = 0 THEN s ELSE it[m]
  BY Zenon DEF FlattenSeq
<1> HIDE DEF m, T
<1>2. ASSUME NEW x \in T, NEW n \in 1 .. m
      PROVE  step[<<n, x>>] = x \o s[n] /\ x \o s[n] \in T
  <2>1. <<n, x>> \in (1 .. m) \X T
    OBVIOUS
  <2>2. x \o s[n] \in T
    BY <1>0, ConcatProperties DEF T
  <2> QED BY <2>1, <2>2
<1>3. \A p \in (1 .. m) \X T : step[p] \in T
  <2> TAKE p \in (1 .. m) \X T
  <2>1. p[2] \in T /\ p[1] \in 1 .. m /\ step[p] = p[2] \o s[p[1]]
    OBVIOUS
  <2>2. p[2] \o s[p[1]] \in T
    BY <1>2, <2>1
  <2> QED BY <2>1, <2>2
<1> HIDE DEF step
<1>4. PICK h : FoldStates(Layers(h, m), step, <<>>, m, T)
  BY <1>0, <1>e, <1>3, FoldLayers, Zenon
<1> DEFINE g == Layers(h, m)
<1>5. g \in [0 .. m -> T] /\ g[0] = <<>> /\ \A n \in 1 .. m : g[n] = step[<<n, g[n - 1]>>]
  BY <1>4, Zenon DEF FoldStates
<1> HIDE DEF g
<1>6. ASSUME NEW n \in 1 .. m PROVE g[n] = g[n - 1] \o s[n]
  <2>1. n - 1 \in 0 .. m
    BY <1>0
  <2>2. g[n - 1] \in T
    BY <1>5, <2>1
  <2> QED BY <1>2, <1>5, <2>2, Zenon
<1>7. FlattenSeq(s) = g[m]
  <2>1. CASE m = 0
    <3>1. s = <<>>
      BY <2>1, EmptySeq DEF m
    <3> QED BY <1>1, <1>5, <2>1, <3>1
  <2>2. CASE m # 0
    <3> DEFINE f == [i \in 1 .. m |-> g[i]]
    <3>1. 1 \in 1 .. m /\ g[1] = s[1]
      <4>1. 1 \in 1 .. m /\ 1 - 1 = 0
        BY <1>0, <2>2
      <4>2. g[1] = <<>> \o s[1] /\ s[1] \in Seq(X)
        BY <1>0, <1>5, <1>6, <4>1 DEF T
      <4> QED BY <4>1, <4>2, ConcatEmptySeq
    <3>2. Sol(f)
      <4>1. \A i \in 1 .. m : f[i] = g[i] /\ (i # 1 => f[i - 1] = g[i - 1])
        BY <1>0
      <4>2. ASSUME NEW i \in 1 .. m PROVE g[i] = IF i = 1 THEN s[i] ELSE f[i - 1] \o s[i]
        BY <1>6, <3>1, <4>1, Zenon
      <4> QED BY <4>2, Zenon DEF m
    <3>3. it = [i \in 1 .. m |-> IF i = 1 THEN s[i] ELSE it[i - 1] \o s[i]]
      BY <3>2, Zenon DEF m
    <3> HIDE DEF it, f, Sol
    <3>4. \A i \in 1 .. m : it[i] = IF i = 1 THEN s[i] ELSE it[i - 1] \o s[i]
      BY <3>3, Zenon
    <3> DEFINE P == {n \in 0 .. m : n = 0 \/ it[n] = g[n]}
    <3>5. 0 \in P
      BY <1>0
    <3>6. ASSUME NEW n \in 1 .. m, n - 1 \in P PROVE n \in P
      <4>1. CASE n = 1
        BY <1>0, <3>1, <3>4, <4>1
      <4>2. CASE n # 1
        <5>1. it[n - 1] = g[n - 1] /\ n \in 0 .. m
          BY <1>0, <3>6, <4>2
        <5>2. it[n] = it[n - 1] \o s[n]
          BY <3>4, <4>2
        <5> QED BY <1>6, <5>1, <5>2
      <4> QED BY <4>1, <4>2
    <3>7. \A n \in 0 .. m : n \in P
      <4> HIDE DEF P
      <4> QED BY <1>0, <3>5, <3>6, UpTo
    <3> QED BY <1>0, <1>1, <2>2, <3>7
  <2> QED BY <2>1, <2>2
<1>8. Joins(g, s, X)
  BY <1>5, <1>6, <1>7 DEF m, T, Joins
<1> QED BY <1>8

\* Flattening starts empty, stays a sequence, and one row more goes to the end.
LEMMA FlattenAppends ==
  ASSUME NEW X
  PROVE  /\ FlattenSeq(<<>>) = <<>>
         /\ \A s \in Seq(Seq(X)) : FlattenSeq(s) \in Seq(X)
         /\ \A s \in Seq(Seq(X)) : \A x \in Seq(X) :
              FlattenSeq(Append(s, x)) = FlattenSeq(s) \o x
<1>1. FlattenSeq(<<>>) = <<>>
  BY EmptySeq DEF FlattenSeq
<1>2. ASSUME NEW s \in Seq(Seq(X)) PROVE FlattenSeq(s) \in Seq(X)
  <2>1. PICK g : Joins(g, s, X)
    BY FlattenUnfolds
  <2>2. Len(s) \in 0 .. Len(s)
    BY LenProperties
  <2> QED BY <2>1, <2>2 DEF Joins
<1>3. ASSUME NEW s \in Seq(Seq(X)), NEW x \in Seq(X)
      PROVE  FlattenSeq(Append(s, x)) = FlattenSeq(s) \o x
  <2> DEFINE m == Len(s)
             t == Append(s, x)
  <2>1. m \in Nat /\ t \in Seq(Seq(X)) /\ Len(t) = m + 1
        /\ (\A i \in 1 .. m : t[i] = s[i]) /\ t[m + 1] = x
    BY LenProperties, AppendProperties
  <2>a. PICK g : Joins(g, s, X)
    BY FlattenUnfolds
  <2>2. /\ g \in [0 .. m -> Seq(X)] /\ g[0] = <<>>
        /\ \A n \in 1 .. m : g[n] = g[n - 1] \o s[n]
        /\ FlattenSeq(s) = g[m]
    BY <2>a DEF Joins
  <2>b. PICK f : Joins(f, t, X)
    BY <2>1, FlattenUnfolds
  <2> HIDE DEF t, m
  <2>3. /\ f[0] = <<>>
        /\ \A n \in 1 .. m + 1 : f[n] = f[n - 1] \o t[n]
        /\ FlattenSeq(t) = f[m + 1]
    BY <2>1, <2>b, Zenon DEF Joins
  <2> DEFINE P == {n \in 0 .. m : f[n] = g[n]}
  <2>4. 0 \in P
    BY <2>1, <2>2, <2>3
  <2>5. ASSUME NEW n \in 1 .. m, n - 1 \in P PROVE n \in P
    <3>1. n \in 1 .. m + 1 /\ n \in 0 .. m /\ f[n - 1] = g[n - 1]
      BY <2>1, <2>5
    <3>2. f[n] = f[n - 1] \o s[n]
      BY <2>1, <2>3, <3>1
    <3> QED BY <2>2, <3>1, <3>2
  <2>6. \A n \in 0 .. m : n \in P
    <3> HIDE DEF P
    <3> QED BY <2>1, <2>4, <2>5, UpTo
  <2>7. f[m] = g[m] /\ m + 1 \in 1 .. m + 1 /\ (m + 1) - 1 = m
    BY <2>1, <2>6
  <2>8. f[m + 1] = f[m] \o x
    BY <2>1, <2>3, <2>7
  <2> QED BY <2>2, <2>3, <2>7, <2>8 DEF t
<1> QED BY <1>1, <1>2, <1>3

Rising(s, m) == \A i \in 1 .. m : \A j \in 1 .. m : i < j => s[i] < s[j]

\* A rising row has as many numbers as places.
LEMMA RowCounts ==
  ASSUME NEW m \in Nat, NEW s \in [1 .. m -> Int], Rising(s, m)
  PROVE  \A n \in 0 .. m : IsFiniteSet(Row(s, n)) /\ Cardinality(Row(s, n)) = n
<1> DEFINE P == {n \in 0 .. m : IsFiniteSet(Row(s, n)) /\ Cardinality(Row(s, n)) = n}
<1>1. 0 \in P
  <2>1. Row(s, 0) = {}
    BY DEF Row
  <2>2. IsFiniteSet({}) /\ Cardinality({}) = 0
    BY FS_EmptySet
  <2>3. 0 \in 0 .. m
    OBVIOUS
  <2> QED BY <2>1, <2>2, <2>3
<1>2. ASSUME NEW n \in 1 .. m, n - 1 \in P PROVE n \in P
  <2>1. Row(s, n) = Row(s, n - 1) \cup {s[n]}
    <3>1. \A i \in 1 .. n : i \in 1 .. n - 1 \/ i = n
      OBVIOUS
    <3>2. \A i \in 1 .. n - 1 : i \in 1 .. n
      OBVIOUS
    <3>3. n \in 1 .. n
      OBVIOUS
    <3> QED BY <3>1, <3>2, <3>3, Zenon DEF Row
  <2>2. s[n] \notin Row(s, n - 1)
    <3> SUFFICES ASSUME NEW i \in 1 .. n - 1, s[i] = s[n] PROVE FALSE
      BY DEF Row
    <3>1. i \in 1 .. m /\ n \in 1 .. m /\ i < n
      OBVIOUS
    <3>2. s[i] < s[n] /\ s[i] \in Int
      BY <3>1 DEF Rising
    <3> QED BY <3>2
  <2>3. IsFiniteSet(Row(s, n - 1)) /\ Cardinality(Row(s, n - 1)) = n - 1
    BY <1>2
  <2>4. IsFiniteSet(Row(s, n)) /\ Cardinality(Row(s, n)) = n - 1 + 1
    BY <2>1, <2>2, <2>3, FS_AddElement
  <2> QED BY <2>4
<1>3. \A n \in 0 .. m : n \in P
  <2> HIDE DEF P
  <2> QED BY <1>1, <1>2, UpTo
<1> QED BY <1>3

\* The numbers of a rising row in order are the row.
LEMMA AscendingRow ==
  ASSUME NEW m \in Nat, NEW s \in [1 .. m -> Int], Rising(s, m)
  PROVE  Ascending(Row(s, m)) = s
<1> DEFINE S == Row(s, m)
           below(x) == {y \in S : y < x}
<1>1. m \in 0 .. m /\ Cardinality(S) = m
  <2>1. m \in 0 .. m
    OBVIOUS
  <2> QED BY <2>1, RowCounts
<1>2. ASSUME NEW k \in 1 .. m PROVE Cardinality(below(s[k])) = k - 1
  <2>1. below(s[k]) = Row(s, k - 1)
    <3>1. ASSUME NEW i \in 1 .. m PROVE s[i] < s[k] <=> i \in 1 .. k - 1
      <4>1. s[i] \in Int /\ s[k] \in Int
        OBVIOUS
      <4>2. CASE i < k
        <5>1. s[i] < s[k]
          BY <4>2 DEF Rising
        <5> QED BY <4>2, <5>1
      <4>3. CASE i = k
        BY <4>1, <4>3
      <4>4. CASE k < i
        <5>1. s[k] < s[i]
          BY <4>4 DEF Rising
        <5> QED BY <4>1, <4>4, <5>1
      <4> QED BY <4>2, <4>3, <4>4
    <3>2. \A i \in 1 .. k - 1 : i \in 1 .. m
      OBVIOUS
    <3> QED BY <3>1, <3>2 DEF Row
  <2>2. k - 1 \in 0 .. m
    OBVIOUS
  <2> QED BY <2>1, <2>2, RowCounts
<1> DEFINE kth(k) == CHOOSE x \in S : Cardinality({y \in S : y < x}) = k - 1
<1>3. ASSUME NEW k \in 1 .. m PROVE kth(k) = s[k]
  <2>1. s[k] \in S
    BY DEF Row
  <2>2. kth(k) \in S /\ Cardinality(below(kth(k))) = k - 1
    <3> HIDE DEF S
    <3>1. \E x \in S : Cardinality({y \in S : y < x}) = k - 1
      BY <1>2, <2>1
    <3> QED BY <3>1, Zenon
  <2> HIDE DEF kth
  <2>3. PICK j \in 1 .. m : kth(k) = s[j]
    BY <2>2 DEF Row
  <2>4. Cardinality(below(s[j])) = j - 1
    BY <1>2
  <2>5. j - 1 = k - 1
    <3> HIDE DEF below
    <3> QED BY <2>2, <2>3, <2>4
  <2> QED BY <2>3, <2>5
<1>4. Ascending(S) = [k \in 1 .. m |-> kth(k)]
  BY <1>1, Zenon DEF Ascending
<1> HIDE DEF S, kth
<1>5. [k \in 1 .. m |-> kth(k)] = [k \in 1 .. m |-> s[k]]
  BY <1>3, Zenon
<1> QED BY <1>4, <1>5 DEF S

\* Numbers between bounds make a rising row.
InRow(S, m, s) == m \in Nat /\ s \in [1 .. m -> Int] /\ Rising(s, m) /\ S = Row(s, m)

\* Every set of numbers between bounds is such a row.
LEMMA RowOf ==
  ASSUME NEW lo \in Int, NEW b \in Int, NEW S \in SUBSET (lo .. b)
  PROVE  \E m : \E s : InRow(S, m, s)
<1> DEFINE Rowed(R) == \E m \in Nat : \E s \in [1 .. m -> Int] : Rising(s, m) /\ R = Row(s, m)
           upto(n) == {x \in S : x < lo + n}
           w == IF b < lo THEN 0 ELSE b - lo + 1
           P == {n \in 0 .. w : Rowed(upto(n))}
<1>a. \A x \in S : x \in Int /\ lo <= x /\ x <= b
  OBVIOUS
<1>b. w \in Nat /\ \A x \in S : x < lo + w
  <2>1. CASE b < lo
    <3>1. S = {}
      BY <1>a, <2>1
    <3> QED BY <2>1, <3>1
  <2>2. CASE ~(b < lo)
    <3>1. w = b - lo + 1
      BY <2>2
    <3> HIDE DEF w
    <3> QED BY <1>a, <2>2, <3>1
  <2> QED BY <2>1, <2>2
<1> HIDE DEF w
<1>0. w \in Nat /\ upto(w) = S /\ 0 \in 0 .. w
  <2>1. upto(w) = S
    BY <1>b, Zenon
  <2> HIDE DEF upto
  <2> QED BY <1>b, <2>1
<1>1. 0 \in P
  <2> DEFINE s == [i \in 1 .. 0 |-> 0]
  <2>1. Row(s, 0) = {} /\ Rising(s, 0)
    BY DEF Row, Rising
  <2>2. upto(0) = {}
    <3>1. \A x \in S : ~ (x < lo + 0)
      BY <1>a
    <3> QED BY <3>1, Zenon
  <2>3. s \in [1 .. 0 -> Int] /\ 0 \in Nat
    OBVIOUS
  <2> HIDE DEF s
  <2>4. Rowed(upto(0))
    BY <2>1, <2>2, <2>3, Zenon
  <2> QED BY <1>0, <2>4
<1>2. ASSUME NEW n \in 1 .. w, n - 1 \in P PROVE n \in P
  <2>1. PICK m \in Nat : \E s \in [1 .. m -> Int] : Rising(s, m) /\ upto(n - 1) = Row(s, m)
    BY <1>2
  <2>2. PICK s \in [1 .. m -> Int] : Rising(s, m) /\ upto(n - 1) = Row(s, m)
    BY <2>1
  <2> DEFINE crest == lo + n - 1
  <2>3. n \in 0 .. w /\ crest \in Int
    BY <1>0
  <2>4. CASE crest \notin S
    <3>1. upto(n) = upto(n - 1)
      <4>1. \A x \in S : x < lo + n <=> x < lo + (n - 1)
        BY <1>a, <2>4
      <4> QED BY <4>1
    <3> QED BY <1>2, <2>3, <3>1
  <2>5. CASE crest \in S
    <3>1. upto(n) = upto(n - 1) \cup {crest} /\ \A x \in upto(n - 1) : x < crest
      <4>1. \A x \in S : x < lo + n <=> x < lo + (n - 1) \/ x = crest
        BY <1>a, <2>3
      <4>2. crest < lo + n /\ lo + (n - 1) = crest
        OBVIOUS
      <4> QED BY <2>5, <4>1, <4>2
    <3> DEFINE r == [i \in 1 .. m + 1 |-> IF i = m + 1 THEN crest ELSE s[i]]
    <3> HIDE DEF upto, crest
    <3>2. r \in [1 .. m + 1 -> Int] /\ r[m + 1] = crest /\ \A i \in 1 .. m : r[i] = s[i]
      BY <2>3
    <3>3. \A i \in 1 .. m : s[i] < crest
      BY <2>2, <3>1 DEF Row
    <3>4. \A i \in 1 .. m + 1 : i \in 1 .. m \/ i = m + 1
      OBVIOUS
    <3> HIDE DEF r
    <3>5. Rising(r, m + 1)
      <4> SUFFICES ASSUME NEW i \in 1 .. m + 1, NEW j \in 1 .. m + 1, i < j PROVE r[i] < r[j]
        BY DEF Rising
      <4>1. i \in 1 .. m
        OBVIOUS
      <4>2. CASE j = m + 1
        BY <3>2, <3>3, <4>1, <4>2
      <4>3. CASE j \in 1 .. m
        BY <2>2, <3>2, <4>1, <4>3 DEF Rising
      <4> QED BY <3>4, <4>2, <4>3
    <3>6. Row(r, m + 1) = Row(s, m) \cup {crest}
      <4>1. m + 1 \in 1 .. m + 1 /\ \A i \in 1 .. m : i \in 1 .. m + 1
        OBVIOUS
      <4> QED BY <3>2, <3>4, <4>1 DEF Row
    <3>7. m + 1 \in Nat
      OBVIOUS
    <3> QED BY <2>2, <2>3, <3>1, <3>2, <3>5, <3>6, <3>7
  <2> QED BY <2>4, <2>5
<1>3. \A n \in 0 .. w : n \in P
  <2> HIDE DEF P
  <2> QED BY <1>0, <1>1, <1>2, UpTo
<1>4. w \in 0 .. w
  BY <1>0
<1>5. Rowed(S)
  BY <1>0, <1>3, <1>4
<1> QED BY <1>5, Zenon DEF InRow

-----------------------------------------------------------------------------
\* The packets.  A draft is a packet that still takes packets in: its chunks are full, and
\* its open chunk is one that some kind of chunk can hold.
Sym == {"lost", "small", "large"}

Coded == [kind : {"run", "onebit", "twobit"}, syms : Seq(Sym)]

Packet == [base : Int, ref : Int, lastTime : Int, next : Int, count : Int,
           open : Seq(Sym), chunks : Seq(Coded), deltas : Seq(Int)]

\* What an open chunk can have grown to: the next symbol would not fit a longer one.
Openable(c) ==
  \/ Len(c) <= TwoBitCap
  \/ Len(c) <= OneBitCap /\ ~ Contains(c, "large")
  \/ Len(c) <= RunCap /\ ~ Mixed(c)

\* A two-bit chunk without room left, which is read back as it is.
Full(e) == e.kind = "twobit" => Len(e.syms) = TwoBitCap

\* The symbols of a row of chunks as they are read back.
Flat(cs) == FlattenSeq([i \in DOMAIN cs |-> Padded(cs[i])])

\* All symbols of a packet under construction, and what holds of one at any time.
Told(f) == Flat(f.chunks) \o f.open

Draft(f) ==
  /\ f \in Packet /\ Openable(f.open)
  /\ \A i \in DOMAIN f.chunks : Carried(f.chunks[i]) /\ Full(f.chunks[i])

\* What the symbols leave alone.
SameHead(f, g) ==
  /\ g.base = f.base /\ g.ref = f.ref /\ g.lastTime = f.lastTime
  /\ g.next = f.next /\ g.count = f.count /\ g.deltas = f.deltas

\* The chunks hold more in the order two-bit, one-bit, run (ChunkAssumption).
LEMMA Caps ==
  /\ TwoBitCap \in Nat /\ TwoBitCap > 0
  /\ OneBitCap \in Nat /\ TwoBitCap < OneBitCap /\ OneBitCap <= 2 * TwoBitCap
  /\ RunCap \in Nat /\ OneBitCap <= RunCap
  BY ChunkAssumption

\* Min of two is the lesser.
LEMMA LesserOf ==
  ASSUME NEW c \in Int, NEW b \in Int
  PROVE  Min({c, b}) = IF c <= b THEN c ELSE b
<1> DEFINE least(x) == x \in {c, b} /\ \A y \in {c, b} : x <= y
           l == IF c <= b THEN c ELSE b
<1>1. least(l)
  OBVIOUS
<1>2. \A x : least(x) => x = l
  OBVIOUS
<1>3. Min({c, b}) = CHOOSE x \in {c, b} : \A y \in {c, b} : x <= y
  BY DEF Min
<1> HIDE DEF l
<1> QED BY <1>1, <1>2, <1>3

\* An open chunk that is written out leaves as c chunk its kind can hold, followed by less
\* than the smallest chunk; only the last of c packet is not full.
LEMMA Encodes ==
  ASSUME NEW c \in Seq(Sym), c # <<>>, Openable(c)
  PROVE  /\ Encoded(c) \in Coded /\ Carried(Encoded(c))
         /\ Rest(c) \in Seq(Sym) /\ Encoded(c).syms \o Rest(c) = c
         /\ Len(Rest(c)) < TwoBitCap /\ Len(Rest(c)) < Len(c)
         /\ (Full(Encoded(c)) \/ (Rest(c) = <<>> /\ Len(c) < TwoBitCap))
<1> DEFINE n == Len(c)
           k == Len(Encoded(c).syms)
<1>1. n \in Nat /\ n > 0
  BY EmptySeq, LenProperties
<1>2. ASSUME NEW m \in 1 .. n, Encoded(c).syms = SubSeq(c, 1, m)
      PROVE  /\ Encoded(c).syms \in Seq(Sym) /\ Len(Encoded(c).syms) = m
             /\ Rest(c) \in Seq(Sym) /\ Len(Rest(c)) = n - m
             /\ Encoded(c).syms \o Rest(c) = c
  <2>1. SubSeq(c, 1, m) \in Seq(Sym) /\ Len(SubSeq(c, 1, m)) = m
    BY SubSeqProperties
  <2>2. Rest(c) = SubSeq(c, m + 1, n)
    BY <1>2, <2>1 DEF Rest
  <2>3. SubSeq(c, m + 1, n) \in Seq(Sym) /\ Len(SubSeq(c, m + 1, n)) = n - m
    BY <1>1, SubSeqProperties
  <2>4. SubSeq(c, 1, m) \o SubSeq(c, m + 1, n) = SubSeq(c, 1, n)
    BY <1>1, ConcatAdjacentSubSeq
  <2>5. SubSeq(c, 1, n) = c
    BY SubSeqFull
  <2> QED BY <1>2, <2>1, <2>2, <2>3, <2>4, <2>5
<1>3. SubSeq(c, 1, n) = c
  BY SubSeqFull
<1>4. CASE ~ Mixed(c)
  <2>1. Encoded(c) = [kind |-> "run", syms |-> c]
    BY <1>4 DEF Encoded
  <2>2. n <= RunCap
    BY <1>1, Caps DEF Openable
  <2>3. Rest(c) \in Seq(Sym) /\ Len(Rest(c)) = 0 /\ Encoded(c).syms \o Rest(c) = c
    <3>1. n \in 1 .. n /\ Encoded(c).syms = SubSeq(c, 1, n)
      BY <1>1, <1>3, <2>1
    <3>2. n - n = 0
      BY <1>1
    <3> QED BY <1>2, <3>1, <3>2
  <2>4. Rest(c) = <<>>
    BY <2>3, EmptySeq
  <2> QED BY <1>1, <1>4, <2>1, <2>2, <2>3, <2>4, Caps DEF Carried, Coded, Full
<1>5. CASE Mixed(c) /\ n = OneBitCap
  <2>1. Encoded(c) = [kind |-> "onebit", syms |-> c]
    BY <1>5 DEF Encoded
  <2>2. ~ Contains(c, "large")
    BY <1>5, Caps DEF Openable
  <2>3. Rest(c) \in Seq(Sym) /\ Len(Rest(c)) = 0 /\ Encoded(c).syms \o Rest(c) = c
    <3>1. n \in 1 .. n /\ Encoded(c).syms = SubSeq(c, 1, n)
      BY <1>1, <1>3, <2>1
    <3>2. n - n = 0
      BY <1>1
    <3> QED BY <1>2, <3>1, <3>2
  <2>4. Rest(c) = <<>>
    BY <2>3, EmptySeq
  <2> QED BY <1>1, <1>5, <2>1, <2>2, <2>3, <2>4, Caps DEF Carried, Coded, Full
<1>6. CASE Mixed(c) /\ n # OneBitCap
  <2> DEFINE m == IF TwoBitCap <= n THEN TwoBitCap ELSE n
  <2>1. Min({TwoBitCap, n}) = m
    BY <1>1, Caps, LesserOf
  <2>2. m \in 1 .. n
    BY <1>1, Caps
  <2>3. Encoded(c) = [kind |-> "twobit", syms |-> SubSeq(c, 1, m)]
    BY <1>6, <2>1 DEF Encoded
  <2>4. /\ Encoded(c).syms \in Seq(Sym) /\ Len(Encoded(c).syms) = m
        /\ Rest(c) \in Seq(Sym) /\ Len(Rest(c)) = n - m
        /\ Encoded(c).syms \o Rest(c) = c
    <3> HIDE DEF m
    <3> QED BY <1>2, <2>2, <2>3
  <2>5. n < OneBitCap \/ n <= TwoBitCap
    BY <1>1, <1>6, Caps DEF Openable
  <2>6. n - m < TwoBitCap /\ m <= TwoBitCap /\ (m = TwoBitCap \/ (n - m = 0 /\ n < TwoBitCap))
    BY <1>1, <2>5, Caps
  <2>7. Encoded(c).kind = "twobit"
    BY <2>3
  <2>8. Encoded(c) \in Coded
    BY <2>3, <2>4 DEF Coded
  <2>9. Len(Rest(c)) = 0 => Rest(c) = <<>>
    BY <2>4, EmptySeq
  <2> HIDE DEF m
  <2>10. Carried(Encoded(c))
    BY <2>2, <2>4, <2>6, <2>7, Caps DEF Carried
  <2>11. Full(Encoded(c)) \/ (Rest(c) = <<>> /\ n < TwoBitCap)
    BY <2>2, <2>4, <2>6, <2>7, <2>9, Caps DEF Full
  <2> QED BY <1>1, <2>2, <2>4, <2>6, <2>8, <2>10, <2>11, Caps
<1> QED BY <1>4, <1>5, <1>6

\* A chunk is read back as its symbols and, if it is not full, some that were lost.
LEMMA Pads ==
  ASSUME NEW e \in Coded, Carried(e)
  PROVE  /\ Padded(e) \in Seq(Sym)
         /\ Full(e) => Padded(e) = e.syms
         /\ \E pad \in Seq(Sym) : Padded(e) = e.syms \o pad
<1> DEFINE n == Len(e.syms)
<1>1. e.kind \in {"run", "onebit", "twobit"} /\ e.syms \in Seq(Sym) /\ n \in Nat
  BY LenProperties DEF Coded
<1>2. CASE e.kind # "twobit"
  <2>1. Padded(e) = e.syms
    BY <1>1, <1>2 DEF Padded
  <2>2. <<>> \in Seq(Sym) /\ e.syms \o <<>> = e.syms
    BY <1>1, ConcatEmptySeq
  <2> QED BY <1>1, <2>1, <2>2
<1>3. CASE e.kind = "twobit"
  <2> DEFINE p == [i \in 1 .. TwoBitCap |-> IF i <= n THEN e.syms[i] ELSE "lost"]
             rest == [i \in 1 .. TwoBitCap - n |-> "lost"]
  <2>1. Padded(e) = p /\ n <= TwoBitCap
    BY <1>3 DEF Padded, Carried
  <2>2. \A i \in 1 .. n : e.syms[i] \in Sym
    BY <1>1, ElementOfSeq
  <2>3. p \in Seq(Sym) /\ Len(p) = TwoBitCap
    BY <1>1, <2>2, Caps DEF Sym
  <2>4. rest \in Seq(Sym) /\ Len(rest) = TwoBitCap - n
    BY <1>1, <2>1, Caps DEF Sym
  <2>5. /\ e.syms \o rest \in Seq(Sym) /\ Len(e.syms \o rest) = n + (TwoBitCap - n)
        /\ \A i \in 1 .. n + (TwoBitCap - n) :
             (e.syms \o rest)[i] = IF i <= n THEN e.syms[i] ELSE rest[i - n]
    <3> HIDE DEF rest
    <3> QED BY <1>1, <2>4, ConcatProperties
  <2>6. ASSUME NEW i \in 1 .. TwoBitCap PROVE (e.syms \o rest)[i] = p[i]
    BY <1>1, <2>1, <2>5, Caps
  <2>7. e.syms \o rest = p
    <3> HIDE DEF p, rest
    <3>1. n + (TwoBitCap - n) = TwoBitCap
      BY <1>1, Caps
    <3> QED BY <2>3, <2>5, <2>6, <3>1, SeqEqual
  <2>8. Full(e) => p = e.syms
    <3> SUFFICES ASSUME Full(e) PROVE p = e.syms
      OBVIOUS
    <3>1. n = TwoBitCap
      BY <1>3 DEF Full
    <3>2. \A i \in 1 .. TwoBitCap : p[i] = e.syms[i]
      BY <1>1, <3>1, Caps
    <3> HIDE DEF p
    <3> QED BY <1>1, <2>3, <3>1, <3>2, SeqEqual
  <2> HIDE DEF p, rest
  <2> QED BY <2>1, <2>3, <2>4, <2>7, <2>8
<1> QED BY <1>2, <1>3

\* One chunk more is its symbols more.
LEMMA FlatGrows ==
  ASSUME NEW cs \in Seq(Coded), \A i \in DOMAIN cs : Carried(cs[i]), NEW e \in Coded, Carried(e)
  PROVE  Flat(cs) \in Seq(Sym) /\ Flat(Append(cs, e)) = Flat(cs) \o Padded(e)
<1> DEFINE p == [i \in DOMAIN cs |-> Padded(cs[i])]
           ds == Append(cs, e)
           flat == [i \in DOMAIN ds |-> Padded(ds[i])]
<1>1. Len(cs) \in Nat /\ DOMAIN cs = 1 .. Len(cs)
  BY LenProperties
<1>2. ds \in Seq(Coded) /\ Len(ds) = Len(cs) + 1 /\ DOMAIN ds = 1 .. Len(cs) + 1
  BY <1>1, AppendProperties, LenProperties
<1>3. (\A i \in 1 .. Len(cs) : ds[i] = cs[i]) /\ ds[Len(cs) + 1] = e
  BY AppendProperties
<1>4. \A i \in 1 .. Len(cs) : cs[i] \in Coded /\ Padded(cs[i]) \in Seq(Sym)
  BY <1>1, ElementOfSeq, Pads
<1>5. p \in Seq(Seq(Sym)) /\ Len(p) = Len(cs) /\ \A i \in 1 .. Len(cs) : p[i] = Padded(cs[i])
  BY <1>1, <1>4
<1>6. Padded(e) \in Seq(Sym)
  BY Pads
<1>7. flat = Append(p, Padded(e))
  <2>1. \A i \in 1 .. Len(cs) + 1 : flat[i] = IF i <= Len(cs) THEN p[i] ELSE Padded(e)
    <3> HIDE DEF p, ds
    <3> QED BY <1>1, <1>2, <1>3, <1>5
  <2>2. flat \in Seq(Seq(Sym)) /\ Len(flat) = Len(cs) + 1
    <3>1. \A i \in 1 .. Len(cs) + 1 : Padded(ds[i]) \in Seq(Sym)
      <4> HIDE DEF ds
      <4>1. \A i \in 1 .. Len(cs) + 1 : i \in 1 .. Len(cs) \/ i = Len(cs) + 1
        BY <1>1
      <4> QED BY <1>3, <1>4, <1>6, <4>1
    <3> HIDE DEF ds
    <3>2. Len(cs) + 1 \in Nat
      BY <1>1
    <3> QED BY <1>2, <3>1, <3>2
  <2>3. Append(p, Padded(e)) \in Seq(Seq(Sym)) /\ Len(Append(p, Padded(e))) = Len(cs) + 1
        /\ (\A i \in 1 .. Len(cs) : Append(p, Padded(e))[i] = p[i])
        /\ Append(p, Padded(e))[Len(cs) + 1] = Padded(e)
    <3> HIDE DEF p
    <3> QED BY <1>5, <1>6, AppendProperties
  <2>4. \A i \in 1 .. Len(cs) + 1 : flat[i] = Append(p, Padded(e))[i]
    <3> HIDE DEF p, flat
    <3> QED BY <1>1, <2>1, <2>3
  <2> HIDE DEF p, flat
  <2> QED BY <2>2, <2>3, <2>4, SeqEqual
<1>8. Flat(cs) = FlattenSeq(p) /\ Flat(ds) = FlattenSeq(flat)
  BY DEF Flat
<1> HIDE DEF p, flat, ds
<1> QED BY <1>5, <1>6, <1>7, <1>8, FlattenAppends DEF ds

\* The open chunk written out: what is told stays.
LEMMA WritesOut ==
  ASSUME NEW f, f \in Packet, f.open # <<>>, Openable(f.open),
         \A i \in DOMAIN f.chunks : Carried(f.chunks[i])
  PROVE  /\ WriteOut(f) \in Packet /\ SameHead(f, WriteOut(f))
         /\ WriteOut(f).open = Rest(f.open)
         /\ WriteOut(f).chunks = Append(f.chunks, Encoded(f.open))
         /\ \A i \in DOMAIN WriteOut(f).chunks : Carried(WriteOut(f).chunks[i])
         /\ \A i \in DOMAIN WriteOut(f).chunks :
              \/ i \in DOMAIN f.chunks /\ WriteOut(f).chunks[i] = f.chunks[i]
              \/ WriteOut(f).chunks[i] = Encoded(f.open)
<1> DEFINE e == Encoded(f.open)
           g == [f EXCEPT !.chunks = Append(@, e), !.open = Rest(@)]
<1>1. f.open \in Seq(Sym) /\ f.chunks \in Seq(Coded)
  BY DEF Packet
<1>2. e \in Coded /\ Carried(e) /\ Rest(f.open) \in Seq(Sym)
  BY <1>1, Encodes
<1>3. WriteOut(f) = g
  BY DEF WriteOut
<1> HIDE DEF e
<1>4. Len(f.chunks) \in Nat /\ DOMAIN f.chunks = 1 .. Len(f.chunks)
  BY <1>1, LenProperties
<1>5. /\ Append(f.chunks, e) \in Seq(Coded)
      /\ DOMAIN Append(f.chunks, e) = 1 .. Len(f.chunks) + 1
      /\ \A i \in 1 .. Len(f.chunks) : Append(f.chunks, e)[i] = f.chunks[i]
      /\ Append(f.chunks, e)[Len(f.chunks) + 1] = e
  BY <1>1, <1>2, <1>4, AppendProperties, LenProperties
<1>6. g \in Packet /\ SameHead(f, g) /\ g.open = Rest(f.open) /\ g.chunks = Append(f.chunks, e)
  BY <1>1, <1>2, <1>5 DEF Packet, SameHead
<1>7. \A i \in 1 .. Len(f.chunks) + 1 : i \in 1 .. Len(f.chunks) \/ i = Len(f.chunks) + 1
  BY <1>4
<1> HIDE DEF g
<1>8. ASSUME NEW i \in DOMAIN g.chunks
      PROVE  \/ i \in DOMAIN f.chunks /\ g.chunks[i] = f.chunks[i]
             \/ g.chunks[i] = e
  BY <1>4, <1>5, <1>6, <1>7
<1>9. ASSUME NEW i \in DOMAIN g.chunks PROVE Carried(g.chunks[i])
  <2>1. CASE i \in DOMAIN f.chunks /\ g.chunks[i] = f.chunks[i]
    BY <2>1
  <2>2. CASE g.chunks[i] = e
    BY <1>2, <2>2
  <2> QED BY <1>8, <2>1, <2>2
<1> QED BY <1>3, <1>6, <1>8, <1>9 DEF e

\* A chunk that takes a symbol can still be written out.
LEMMA RoomFor ==
  ASSUME NEW c \in Seq(Sym), NEW s \in Sym, Openable(c), CanAdd(c, s)
  PROVE  Openable(Append(c, s))
<1> DEFINE more == Append(c, s)
           n == Len(c)
<1>1. n \in Nat /\ DOMAIN c = 1 .. n
  BY LenProperties
<1>2. more \in Seq(Sym) /\ Len(more) = n + 1 /\ DOMAIN more = 1 .. n + 1
  BY <1>1, AppendProperties, LenProperties
<1>3. (\A i \in 1 .. n : more[i] = c[i]) /\ more[n + 1] = s
  BY AppendProperties
<1>4. \A i \in 1 .. n + 1 : i \in 1 .. n \/ i = n + 1
  BY <1>1
<1> HIDE DEF more
<1>5. CASE n < TwoBitCap
  BY <1>1, <1>2, <1>5, Caps DEF Openable, more
<1>6. CASE n < OneBitCap /\ ~ Contains(c, "large") /\ s # "large"
  <2>1. ~ Contains(more, "large")
    BY <1>2, <1>3, <1>4, <1>6 DEF Contains
  <2> QED BY <1>1, <1>2, <1>6, <2>1, Caps DEF Openable, more
<1>7. CASE n < RunCap /\ ~ Mixed(c) /\ s = c[1] /\ ~ (n < TwoBitCap)
  <2>1. 1 \in 1 .. n
    BY <1>1, <1>7, Caps
  <2>2. \A i \in 1 .. n : c[i] = c[1]
    BY <1>1, <1>7 DEF Mixed
  <2>3. ~ Mixed(more)
    BY <1>2, <1>3, <1>4, <1>7, <2>1, <2>2 DEF Mixed
  <2> QED BY <1>1, <1>2, <1>7, <2>3, Caps DEF Openable, more
<1> QED BY <1>5, <1>6, <1>7 DEF CanAdd

\* Concatenation associates.
LEMMA Chained == \A x, y, z \in Seq(Sym) : (x \o y) \o z = x \o (y \o z)
<1> SUFFICES ASSUME NEW x \in Seq(Sym), NEW y \in Seq(Sym), NEW z \in Seq(Sym)
             PROVE  (x \o y) \o z = x \o (y \o z)
  OBVIOUS
<1> QED BY ConcatAssociative

\* A symbol is told after those told before.
LEMMA SymbolTold ==
  ASSUME NEW f, Draft(f), NEW s \in Sym
  PROVE  /\ Draft(AddSymbol(f, s)) /\ SameHead(f, AddSymbol(f, s))
         /\ Told(f) \in Seq(Sym) /\ Told(AddSymbol(f, s)) = Append(Told(f), s)
<1> DEFINE g == IF CanAdd(f.open, s) THEN f ELSE WriteOut(f)
           h == [g EXCEPT !.open = Append(@, s)]
<1>0. AddSymbol(f, s) = h
  BY DEF AddSymbol
<1>1. f.open \in Seq(Sym) /\ f.chunks \in Seq(Coded) /\ Openable(f.open) /\ f \in Packet
      /\ \A i \in DOMAIN f.chunks : Carried(f.chunks[i])
  BY DEF Packet, Draft
<1>2. Flat(f.chunks) \in Seq(Sym)
  <2>1. [kind |-> "run", syms |-> <<"lost">>] \in Coded
    BY DEF Coded, Sym
  <2>2. Carried([kind |-> "run", syms |-> <<"lost">>])
    BY Caps DEF Carried, Mixed
  <2> QED BY <1>1, <2>1, <2>2, FlatGrows
<1>3. Told(f) \in Seq(Sym)
  BY <1>1, <1>2, ConcatProperties DEF Told
<1>4. /\ g \in Packet /\ SameHead(f, g) /\ Openable(Append(g.open, s))
      /\ \A i \in DOMAIN g.chunks : Carried(g.chunks[i]) /\ Full(g.chunks[i])
      /\ Flat(g.chunks) \in Seq(Sym) /\ Flat(g.chunks) \o g.open = Told(f)
  <2>1. CASE CanAdd(f.open, s)
    <3>1. Openable(Append(f.open, s))
      BY <1>1, <2>1, RoomFor
    <3>2. g = f /\ SameHead(f, f)
      BY <2>1 DEF SameHead
    <3> QED BY <1>1, <1>2, <3>1, <3>2 DEF Draft, Told
  <2>2. CASE ~ CanAdd(f.open, s)
    <3> DEFINE e == Encoded(f.open)
    <3>1. Len(f.open) \in Nat /\ Len(f.open) >= TwoBitCap
      BY <1>1, <2>2, Caps, LenProperties DEF CanAdd
    <3>2. f.open # <<>>
      BY <3>1, Caps, EmptySeq
    <3>3. /\ e \in Coded /\ Carried(e) /\ Rest(f.open) \in Seq(Sym)
          /\ e.syms \o Rest(f.open) = f.open /\ Len(Rest(f.open)) < TwoBitCap /\ Full(e)
      <4>1. /\ e \in Coded /\ Carried(e) /\ Rest(f.open) \in Seq(Sym)
            /\ e.syms \o Rest(f.open) = f.open /\ Len(Rest(f.open)) < TwoBitCap
            /\ (Full(e) \/ (Rest(f.open) = <<>> /\ Len(f.open) < TwoBitCap))
        BY <1>1, <3>2, Encodes, Zenon
      <4>2. ~ (Len(f.open) < TwoBitCap)
        BY <3>1, Caps
      <4> QED BY <4>1, <4>2
    <3> HIDE DEF e
    <3>4. /\ g \in Packet /\ SameHead(f, g) /\ g.open = Rest(f.open)
          /\ g.chunks = Append(f.chunks, e)
          /\ \A i \in DOMAIN g.chunks : Carried(g.chunks[i])
          /\ \A i \in DOMAIN g.chunks :
               \/ i \in DOMAIN f.chunks /\ g.chunks[i] = f.chunks[i]
               \/ g.chunks[i] = e
      BY <1>1, <2>2, <3>2, WritesOut DEF e
    <3>5. \A i \in DOMAIN g.chunks : Full(g.chunks[i])
      BY <3>3, <3>4 DEF Draft
    <3>6. Padded(e) = e.syms /\ e.syms \in Seq(Sym)
      BY <3>3, Pads DEF Coded
    <3>7. Flat(g.chunks) = Flat(f.chunks) \o e.syms
      BY <1>1, <3>3, <3>4, <3>6, FlatGrows
    <3>8. Flat(g.chunks) \in Seq(Sym)
      BY <1>2, <3>6, <3>7, ConcatProperties
    <3>9. (Flat(f.chunks) \o e.syms) \o Rest(f.open) = Flat(f.chunks) \o (e.syms \o Rest(f.open))
      BY <1>2, <3>3, <3>6, Chained
    <3>10. Openable(Append(g.open, s))
      <4>1. Len(Append(Rest(f.open), s)) = Len(Rest(f.open)) + 1 /\ Len(Rest(f.open)) \in Nat
        BY <3>3, AppendProperties, LenProperties
      <4> QED BY <3>3, <3>4, <4>1, Caps DEF Openable
    <3> HIDE DEF g
    <3> QED BY <3>3, <3>4, <3>5, <3>7, <3>8, <3>9, <3>10 DEF Told
  <2> QED BY <2>1, <2>2
<1> HIDE DEF g
<1>5. g.open \in Seq(Sym) /\ Append(g.open, s) \in Seq(Sym)
  BY <1>4, AppendProperties DEF Packet
<1>6. h \in Packet /\ SameHead(g, h) /\ h.open = Append(g.open, s) /\ h.chunks = g.chunks
  BY <1>4, <1>5 DEF Packet, SameHead
<1> HIDE DEF h
<1>7. Draft(h) /\ SameHead(f, h)
  BY <1>4, <1>6 DEF Draft, SameHead
<1>8. Told(h) = Append(Told(f), s)
  <2>1. Append(g.open, s) = g.open \o <<s>>
    BY <1>5, AppendIsConcat
  <2>2. Append(Told(f), s) = Told(f) \o <<s>>
    BY <1>3, AppendIsConcat
  <2>3. <<s>> \in Seq(Sym)
    OBVIOUS
  <2>4. Flat(g.chunks) \o (g.open \o <<s>>) = (Flat(g.chunks) \o g.open) \o <<s>>
    BY <1>4, <1>5, <2>3, Chained
  <2> QED BY <1>4, <1>6, <2>1, <2>2, <2>4 DEF Told
<1> QED BY <1>0, <1>3, <1>7, <1>8

\* What is told after a gap: what was told before, and the lost.
GapTold(f, g, gap) ==
  /\ Draft(g) /\ SameHead(f, g) /\ Told(g) \in Seq(Sym)
  /\ Len(Told(g)) = Len(Told(f)) + gap
  /\ \A i \in 1 .. Len(Told(g)) :
       Told(g)[i] = IF i <= Len(Told(f)) THEN Told(f)[i] ELSE "lost"

\* A gap is told as that many lost packets.
LEMMA LostTold ==
  ASSUME NEW f, Draft(f), NEW gap \in Nat
  PROVE  GapTold(f, AddAll(f, [i \in 1 .. gap |-> "lost"]), gap)
<1> DEFINE T == {h \in Packet : Draft(h)}
           s == [i \in 1 .. gap |-> "lost"]
<1>1. f \in T /\ DOMAIN s = 1 .. gap
  BY DEF Draft
<1>2. \A n \in 1 .. gap : s[n] = "lost"
  OBVIOUS
<1>3. "lost" \in Sym
  BY DEF Sym
<1> HIDE DEF s
<1>4. \A n \in 1 .. gap : \A x \in T : AddSymbol(x, s[n]) \in T
  <2> SUFFICES ASSUME NEW n \in 1 .. gap, NEW x \in T PROVE AddSymbol(x, s[n]) \in T
    OBVIOUS
  <2>1. Draft(AddSymbol(x, s[n]))
    BY <1>2, <1>3, SymbolTold
  <2> QED BY <2>1 DEF Draft
<1> HIDE DEF T
<1>a. PICK g : Adds(g, gap, s, T, f)
  BY <1>1, <1>4, SymbolsAdded, Zenon
<1>5. /\ g \in [0 .. gap -> T] /\ g[0] = f
      /\ \A n \in 1 .. gap : g[n] = AddSymbol(g[n - 1], s[n])
      /\ AddAll(f, s) = g[gap]
  BY <1>a DEF Adds
<1> DEFINE P == {n \in 0 .. gap : GapTold(f, g[n], n)}
<1>6. 0 \in P
  <2>1. Told(f) \in Seq(Sym) /\ Len(Told(f)) \in Nat
    BY <1>3, SymbolTold, LenProperties
  <2>2. SameHead(f, f) /\ g[0] = f
    BY <1>5 DEF SameHead
  <2>3. \A i \in 1 .. Len(Told(f)) : i <= Len(Told(f))
    BY <2>1
  <2>4. Len(Told(f)) + 0 = Len(Told(f))
    BY <2>1
  <2>5. GapTold(f, g[0], 0)
    BY <2>1, <2>2, <2>3, <2>4 DEF GapTold
  <2>6. 0 \in 0 .. gap
    OBVIOUS
  <2> HIDE DEF GapTold
  <2> QED BY <2>5, <2>6
<1>7. ASSUME NEW n \in 1 .. gap, n - 1 \in P PROVE n \in P
  <2> DEFINE prev == Told(g[n - 1])
             b == Told(g[n])
             l == Len(Told(f))
  <2>1. GapTold(f, g[n - 1], n - 1)
    BY <1>7
  <2>2. g[n] = AddSymbol(g[n - 1], "lost")
    BY <1>2, <1>5
  <2>3. Draft(g[n]) /\ SameHead(g[n - 1], g[n]) /\ b = Append(prev, "lost") /\ prev \in Seq(Sym)
    BY <1>3, <2>1, <2>2, SymbolTold DEF GapTold
  <2>4. l \in Nat /\ Len(prev) = l + (n - 1)
        /\ \A i \in 1 .. Len(prev) : prev[i] = IF i <= l THEN Told(f)[i] ELSE "lost"
    BY <1>3, <2>1, SymbolTold, LenProperties DEF GapTold
  <2>5. SameHead(f, g[n])
    BY <2>1, <2>3 DEF GapTold, SameHead
  <2> HIDE DEF prev, b, l
  <2>6. b \in Seq(Sym) /\ Len(b) = Len(prev) + 1 /\ b[Len(prev) + 1] = "lost"
        /\ \A i \in 1 .. Len(prev) : b[i] = prev[i]
    BY <1>3, <2>3, AppendProperties
  <2>7. Len(b) = l + n
    BY <2>4, <2>6
  <2>8. ASSUME NEW i \in 1 .. Len(b) PROVE b[i] = IF i <= l THEN Told(f)[i] ELSE "lost"
    <3>1. CASE i \in 1 .. Len(prev)
      BY <2>4, <2>6, <3>1
    <3>2. CASE i \notin 1 .. Len(prev)
      <4>1. i = Len(prev) + 1 /\ ~ (i <= l)
        BY <2>4, <2>6, <3>2
      <4> QED BY <2>6, <4>1
    <3> QED BY <3>1, <3>2
  <2>9. GapTold(f, g[n], n)
    BY <2>3, <2>5, <2>6, <2>7, <2>8 DEF GapTold, b, l
  <2>10. n \in 0 .. gap
    OBVIOUS
  <2> QED BY <2>9, <2>10
<1>8. \A n \in 0 .. gap : n \in P
  <2> HIDE DEF P
  <2> QED BY <1>6, <1>7, UpTo
<1>9. gap \in 0 .. gap
  OBVIOUS
<1> QED BY <1>5, <1>8, <1>9 DEF s

-----------------------------------------------------------------------------
\* Numbers on the wire, and the deltas between the times.
LEMMA RestOf ==
  ASSUME NEW w \in Nat \ {0}, NEW x \in Int
  PROVE  x % w \in 0 .. w - 1 /\ \E k \in Int : x = w * k + (x % w)
<1>1. x % w \in 0 .. w - 1
  OBVIOUS
<1>2. x \div w \in Int
  OBVIOUS
<1>3. x = w * (x \div w) + (x % w)
  OBVIOUS
<1> QED BY <1>1, <1>2, <1>3

\* The rest is the only number in range that differs by a multiple.
LEMMA OnlyRest ==
  ASSUME NEW w \in Nat \ {0}, NEW x \in Int, NEW k \in Int, NEW y \in 0 .. w - 1,
         x = w * k + y
  PROVE  x % w = y
<1> DEFINE z == x % w
<1>1. z \in 0 .. w - 1
  BY RestOf
<1>2. PICK l \in Int : x = w * l + z
  BY RestOf
<1> HIDE DEF z
<1>3. w * (k - l) = z - y
  <2>1. w * (k - l) = w * k - w * l
    OBVIOUS
  <2> QED BY <1>1, <1>2, <2>1
<1> DEFINE d == k - l
<1>4. d \in Int /\ w * d = z - y
  BY <1>3
<1> HIDE DEF d
<1>5. z - y < w /\ z - y > - w
  BY <1>1
<1>6. CASE d >= 1
  <2>1. w * d >= w
    BY <1>4, <1>6
  <2> QED BY <1>1, <1>4, <1>5, <2>1
<1>7. CASE d <= -1
  <2>1. w * d <= - w
    BY <1>4, <1>7
  <2> QED BY <1>1, <1>4, <1>5, <2>1
<1>8. CASE d = 0
  BY <1>1, <1>4, <1>8 DEF z
<1> QED BY <1>4, <1>6, <1>7, <1>8

\* Sixteen-bit sums and differences are those of the numbers, while within a turn.
LEMMA WideSum ==
  ASSUME NEW x \in Int, NEW y \in Int
  PROVE  /\ (Wide(x) + y) % WideMod = Wide(x + y)
         /\ y - x \in 0 .. WideMod - 1 => (Wide(y) - Wide(x)) % WideMod = y - x
<1> DEFINE w == WideMod
<1>0. w \in Nat \ {0}
  BY RingBounds DEF WideMod
<1>1. Wide(x) = x % w /\ Wide(y) = y % w /\ Wide(x + y) = (x + y) % w
  BY DEF Wide
<1> HIDE DEF w
<1> DEFINE xm == x % w
           b == y % w
           c == (x + y) % w
<1>2. PICK k \in Int : x = w * k + xm
  BY <1>0, RestOf
<1>3. PICK l \in Int : y = w * l + b
  BY <1>0, RestOf
<1>4. x + y \in Int
  OBVIOUS
<1>5. PICK m \in Int : x + y = w * m + c
  BY <1>0, <1>4, RestOf
<1>6. xm \in 0 .. w - 1 /\ b \in 0 .. w - 1 /\ c \in 0 .. w - 1
  BY <1>0, <1>4, RestOf
<1> HIDE DEF xm, b, c
<1>7. (xm + y) % w = c
  <2>1. xm + y = w * (m - k) + c
    <3>1. w * (m - k) = w * m - w * k
      BY <1>0
    <3> QED BY <1>0, <1>2, <1>5, <1>6, <3>1
  <2>2. m - k \in Int /\ xm + y \in Int
    BY <1>6
  <2> QED BY <1>0, <1>6, <2>1, <2>2, OnlyRest
<1>8. ASSUME y - x \in 0 .. w - 1 PROVE (b - xm) % w = y - x
  <2>1. b - xm = w * (k - l) + (y - x)
    <3>1. w * (k - l) = w * k - w * l
      BY <1>0
    <3> QED BY <1>0, <1>2, <1>3, <1>6, <3>1
  <2>2. k - l \in Int /\ b - xm \in Int
    BY <1>6
  <2> QED BY <1>0, <1>8, <2>1, <2>2, OnlyRest
<1> QED BY <1>1, <1>7, <1>8 DEF xm, b, c, w

IsNear(time, at) == 2 * (time - at) \in - Scale .. Scale

\* A delta brings the time of the packet to within half a step of the arrival.
LEMMA DeltaIsNear ==
  ASSUME NEW f, f.lastTime \in Int, NEW t \in Int
  PROVE  /\ Delta(f, t) \in Int
         /\ IsNear(f.lastTime + Delta(f, t) * Scale, t)
<1> DEFINE x == t - f.lastTime
           h == (x + 1) \div 2
           l == (1 - x) \div 2
<1>1. x \in Int /\ h \in Int /\ l \in Int
  OBVIOUS
<1>2. x + 1 - 2 * h \in 0 .. 1
  OBVIOUS
<1>3. 1 - x - 2 * l \in 0 .. 1
  OBVIOUS
<1>4. Delta(f, t) = IF x >= 0 THEN h ELSE - l
  BY DEF Delta, Scale
<1> HIDE DEF h, l
<1> QED BY <1>1, <1>2, <1>3, <1>4 DEF Scale, IsNear

\* The first delta of a packet always fits.
LEMMA FirstFits ==
  ASSUME NEW f, NEW t \in Int, f.lastTime = (t \div RefUnit) * RefUnit
  PROVE  (t \div RefUnit) \in Int /\ f.lastTime \in Int /\ Fits(f, t)
<1> DEFINE r == t \div RefUnit
           x == t - f.lastTime
           h == (x + 1) \div 2
<1>1. RefUnit \in Nat \ {0} /\ LargeMax \in Nat /\ RefUnit <= 2 * LargeMax
  BY ChunkAssumption
<1>2. r \in Int /\ t = r * RefUnit + (t % RefUnit) /\ t % RefUnit \in 0 .. RefUnit - 1
  BY <1>1
<1> HIDE DEF r
<1>3. r * RefUnit \in Int /\ f.lastTime = r * RefUnit
  BY <1>1, <1>2 DEF r
<1>4. x \in 0 .. RefUnit - 1
  BY <1>1, <1>2, <1>3
<1>5. h \in Int /\ x + 1 - 2 * h \in 0 .. 1
  BY <1>1, <1>4
<1>6. Delta(f, t) = h
  BY <1>1, <1>4 DEF Delta, Scale
<1> HIDE DEF h, x
<1>7. h \in 0 .. LargeMax
  BY <1>1, <1>4, <1>5
<1> QED BY <1>1, <1>2, <1>3, <1>6, <1>7 DEF Fits, r

-----------------------------------------------------------------------------
\* What a draft tells: m arrivals, the k-th of them of packet b + pos[k] - 1.
Names(list, count, m, pos) ==
  /\ list \in Seq(Sym) /\ Len(list) = count
  /\ pos \in [1 .. m -> 1 .. count] /\ Rising(pos, m)
  /\ \A i \in 1 .. count : list[i] # "lost" <=> \E k \in 1 .. m : pos[k] = i

SizeOf(symbol) == IF symbol = "small" THEN 0 .. SmallMax ELSE - LargeMax - 1 .. LargeMax

Sized(list, deltas, m, pos) ==
  /\ deltas \in Seq(Int) /\ Len(deltas) = m
  /\ \A k \in 1 .. m : deltas[k] \in SizeOf(list[pos[k]])

Timed(f, b, m, pos, sums) ==
  /\ sums \in [0 .. m -> Int] /\ sums[0] = 0
  /\ \A k \in 1 .. m :
       /\ sums[k] = sums[k - 1] + f.deltas[k]
       /\ IsNear(f.ref * RefUnit + Scale * sums[k], Ring!Get(map, b + pos[k] - 1))

Tells(f, b, m, pos, sums) ==
  /\ Draft(f) /\ b \in Int /\ m \in Nat
  /\ f.base = Wide(b) /\ f.next = Wide(b + f.count) /\ f.count \in 0 .. WideMod - 1
  /\ Names(Told(f), f.count, m, pos)
  /\ Sized(Told(f), f.deltas, m, pos)
  /\ Timed(f, b, m, pos, sums)
  /\ f.lastTime = f.ref * RefUnit + Scale * sums[m]

\* A row that begins at `low` with one place more.
Further(row, low, m, x) == [k \in low .. m + 1 |-> IF k = m + 1 THEN x ELSE row[k]]

\* One symbol more names one packet more.
LEMMA OneMoreName ==
  ASSUME NEW list, NEW count \in Nat, NEW m \in Nat, NEW pos, Names(list, count, m, pos),
         NEW gap \in Nat, NEW long \in Seq(Sym), NEW s \in {"small", "large"},
         Len(long) = count + gap + 1, long[count + gap + 1] = s,
         \A i \in 1 .. count + gap : long[i] = IF i <= count THEN list[i] ELSE "lost"
  PROVE  Names(long, count + gap + 1, m + 1, Further(pos, 1, m, count + gap + 1))
<1> DEFINE n == count + gap + 1
           p == Further(pos, 1, m, n)
<1>1. pos \in [1 .. m -> 1 .. count] /\ Rising(pos, m)
      /\ \A i \in 1 .. count : list[i] # "lost" <=> \E k \in 1 .. m : pos[k] = i
  BY DEF Names
<1>2. n \in Nat /\ n \in 1 .. n /\ 1 .. count \subseteq 1 .. n /\ 1 \in 0 .. 1
  OBVIOUS
<1> HIDE DEF n
<1>3. p[m + 1] = n /\ (\A k \in 1 .. m : p[k] = pos[k]) /\ p \in [1 .. m + 1 -> 1 .. n]
  <2>1. p = [k \in 1 .. m + 1 |-> IF k = m + 1 THEN n ELSE pos[k]]
    BY DEF Further
  <2>2. \A k \in 1 .. m + 1 : k = m + 1 \/ k \in 1 .. m
    OBVIOUS
  <2>3. m + 1 \in 1 .. m + 1 /\ \A k \in 1 .. m : k \in 1 .. m + 1 /\ k # m + 1
    OBVIOUS
  <2>4. \A k \in 1 .. m : pos[k] \in 1 .. n
    BY <1>1, <1>2
  <2> HIDE DEF p
  <2> QED BY <1>2, <2>1, <2>2, <2>3, <2>4
<1> HIDE DEF p
<1>4. \A k \in 1 .. m + 1 : k \in 1 .. m \/ k = m + 1
  OBVIOUS
<1>5. \A k \in 1 .. m : k \in 1 .. m + 1 /\ pos[k] \in 1 .. count
  BY <1>1
<1>6. Rising(p, m + 1)
  <2> SUFFICES ASSUME NEW i \in 1 .. m + 1, NEW j \in 1 .. m + 1, i < j PROVE p[i] < p[j]
    BY DEF Rising
  <2>1. i \in 1 .. m
    OBVIOUS
  <2>2. CASE j \in 1 .. m
    BY <1>1, <1>3, <2>1, <2>2 DEF Rising
  <2>3. CASE j = m + 1
    BY <1>3, <1>5, <2>1, <2>3 DEF n
  <2> QED BY <1>4, <2>2, <2>3
<1>7. ASSUME NEW i \in 1 .. n PROVE long[i] # "lost" <=> \E k \in 1 .. m + 1 : p[k] = i
  <2>1. CASE i <= count
    <3>1. long[i] = list[i] /\ i \in 1 .. count /\ i # n
      BY <2>1 DEF n
    <3>2. (\E k \in 1 .. m + 1 : p[k] = i) <=> (\E k \in 1 .. m : pos[k] = i)
      BY <1>3, <1>4, <1>5, <3>1
    <3> QED BY <1>1, <3>1, <3>2
  <2>2. CASE i > count /\ i # n
    <3>1. long[i] = "lost"
      BY <2>2 DEF n
    <3>2. \A k \in 1 .. m + 1 : p[k] # i
      BY <1>3, <1>4, <1>5, <2>2
    <3> QED BY <3>1, <3>2
  <2>3. CASE i = n
    <3>1. long[i] # "lost"
      BY <2>3 DEF n
    <3>2. m + 1 \in 1 .. m + 1 /\ p[m + 1] = i
      BY <1>3, <2>3
    <3> QED BY <3>1, <3>2
  <2> QED BY <2>1, <2>2, <2>3
<1>8. Len(long) = n
  BY DEF n
<1>9. Names(long, n, m + 1, p)
  BY <1>3, <1>6, <1>7, <1>8 DEF Names
<1> QED BY <1>9 DEF n, p

\* A new packet tells nothing yet.
LEMMA NewTells ==
  ASSUME NEW b \in Int, NEW t \in Int
  PROVE  /\ Tells(NewFeedback(b, t), b, 0, [k \in 1 .. 0 |-> 0], [k \in 0 .. 0 |-> 0])
         /\ NewFeedback(b, t).count = 0 /\ Fits(NewFeedback(b, t), t)
<1> DEFINE f == NewFeedback(b, t)
           pos == [k \in 1 .. 0 |-> 0]
           sums == [k \in 0 .. 0 |-> 0]
<1>1. /\ f.base = Wide(b) /\ f.ref = t \div RefUnit /\ f.lastTime = (t \div RefUnit) * RefUnit
      /\ f.next = Wide(b) /\ f.count = 0 /\ f.open = <<>> /\ f.chunks = <<>> /\ f.deltas = <<>>
  BY DEF NewFeedback
<1>2. f.ref \in Int /\ f.lastTime \in Int /\ Fits(f, t)
  <2> HIDE DEF f
  <2> QED BY <1>1, FirstFits
<1>3. Wide(b) \in Int
  BY WideType
<1>4. f \in Packet
  <2>1. <<>> \in Seq(Sym) /\ <<>> \in Seq(Coded) /\ <<>> \in Seq(Int)
    OBVIOUS
  <2> DEFINE r == t \div RefUnit
  <2>2. f = [base |-> Wide(b), ref |-> r, lastTime |-> r * RefUnit, next |-> Wide(b), count |-> 0,
             open |-> <<>>, chunks |-> <<>>, deltas |-> <<>>]
    BY DEF NewFeedback
  <2>3. r \in Int /\ r * RefUnit \in Int
    BY <1>1, <1>2
  <2> HIDE DEF f, r
  <2> QED BY <1>3, <2>1, <2>2, <2>3 DEF Packet
<1> HIDE DEF f
<1>5. Draft(f)
  <2>1. Len(<<>>) = 0 /\ DOMAIN <<>> = {}
    OBVIOUS
  <2>2. Openable(<<>>)
    BY <2>1, Caps DEF Openable
  <2> QED BY <1>1, <1>4, <2>1, <2>2 DEF Draft
<1>6. Told(f) = <<>>
  <2>1. [i \in DOMAIN <<>> |-> Padded(<<>>[i])] = <<>>
    OBVIOUS
  <2>2. Flat(<<>>) = <<>>
    BY <2>1, FlattenAppends DEF Flat
  <2>3. <<>> \o <<>> = <<>>
    BY ConcatEmptySeq, EmptySeq
  <2> QED BY <1>1, <2>2, <2>3 DEF Told
<1>7. Names(<<>>, 0, 0, pos)
  BY EmptySeq DEF Names, Rising
<1>8. Sized(<<>>, <<>>, 0, pos)
  BY DEF Sized
<1>9. Timed(f, b, 0, pos, sums) /\ sums[0] = 0
  BY DEF Timed
<1>10. b + f.count = b /\ 0 \in 0 .. WideMod - 1
  BY <1>1, RingBounds DEF WideMod
<1>11. f.lastTime = f.ref * RefUnit + Scale * sums[0]
  <2>1. f.lastTime = f.ref * RefUnit
    BY <1>1
  <2>2. Scale * sums[0] = 0
    BY <1>9 DEF Scale
  <2>3. f.lastTime + 0 = f.lastTime
    BY <1>2
  <2> QED BY <2>1, <2>2, <2>3
<1> HIDE DEF pos, sums
<1>12. Tells(f, b, 0, pos, sums)
  BY <1>1, <1>5, <1>6, <1>7, <1>8, <1>9, <1>10, <1>11 DEF Tells
<1> QED BY <1>1, <1>2, <1>12 DEF f, pos, sums

\* One arrival more with its delta.
LEMMA OneMoreDelta ==
  ASSUME NEW list, NEW count \in Nat, NEW m \in Nat, NEW pos, Names(list, count, m, pos),
         NEW deltas, Sized(list, deltas, m, pos),
         NEW long, NEW n, NEW d \in Int, d \in SizeOf(long[n]),
         \A i \in 1 .. count : long[i] = list[i]
  PROVE  Sized(long, Append(deltas, d), m + 1, Further(pos, 1, m, n))
<1> DEFINE p == Further(pos, 1, m, n)
           e == Append(deltas, d)
<1>1. pos \in [1 .. m -> 1 .. count]
  BY DEF Names
<1>2. deltas \in Seq(Int) /\ Len(deltas) = m /\ \A k \in 1 .. m : deltas[k] \in SizeOf(list[pos[k]])
  BY DEF Sized
<1>3. p[m + 1] = n /\ \A k \in 1 .. m : p[k] = pos[k]
  BY DEF Further
<1>4. e \in Seq(Int) /\ Len(e) = m + 1 /\ e[m + 1] = d /\ \A k \in 1 .. m : e[k] = deltas[k]
  BY <1>2, AppendProperties
<1> HIDE DEF p, e
<1>5. ASSUME NEW k \in 1 .. m + 1 PROVE e[k] \in SizeOf(long[p[k]])
  <2>1. CASE k = m + 1
    BY <1>3, <1>4, <2>1
  <2>2. CASE k \in 1 .. m
    <3>1. long[pos[k]] = list[pos[k]]
      BY <1>1, <2>2
    <3> QED BY <1>2, <1>3, <1>4, <2>2, <3>1
  <2> QED BY <2>1, <2>2
<1> QED BY <1>4, <1>5 DEF Sized, p, e

\* Packet x of the row is taken in at time t, d steps after the time of the last.
TimeGoesOn(f, g, b, m, pos, sums, d, x, t, y) ==
  /\ b \in Int /\ m \in Nat /\ d \in Int /\ x \in Int /\ t \in Int /\ y \in Int
  /\ pos \in [1 .. m -> Int] /\ Timed(f, b, m, pos, sums)
  /\ f.ref \in Int /\ f.deltas \in Seq(Int) /\ Len(f.deltas) = m
  /\ f.lastTime = f.ref * RefUnit + Scale * sums[m]
  /\ g.ref = f.ref /\ g.deltas = Append(f.deltas, d)
  /\ t = Ring!Get(map, b + x - 1) /\ y = f.lastTime + d * Scale /\ IsNear(y, t)

\* A delta more keeps every time within half a delta step.
LEMMA OneMoreTime ==
  ASSUME NEW f, NEW g, NEW b, NEW m, NEW pos, NEW sums, NEW d, NEW x, NEW t, NEW y,
         TimeGoesOn(f, g, b, m, pos, sums, d, x, t, y)
  PROVE  /\ Timed(g, b, m + 1, Further(pos, 1, m, x), Further(sums, 0, m, sums[m] + d))
         /\ y = g.ref * RefUnit + Scale * Further(sums, 0, m, sums[m] + d)[m + 1]
<1> DEFINE p == Further(pos, 1, m, x)
           s == Further(sums, 0, m, sums[m] + d)
           at(k) == Ring!Get(map, b + k - 1)
           start0 == f.ref * RefUnit
<1>0. /\ b \in Int /\ m \in Nat /\ d \in Int /\ x \in Int /\ t \in Int /\ y \in Int
      /\ pos \in [1 .. m -> Int] /\ Timed(f, b, m, pos, sums)
      /\ f.ref \in Int /\ f.deltas \in Seq(Int) /\ Len(f.deltas) = m
      /\ f.lastTime = f.ref * RefUnit + Scale * sums[m]
      /\ g.ref = f.ref /\ g.deltas = Append(f.deltas, d)
      /\ t = Ring!Get(map, b + x - 1) /\ y = f.lastTime + d * Scale /\ IsNear(y, t)
  BY DEF TimeGoesOn
<1> USE <1>0
<1>1. sums \in [0 .. m -> Int] /\ sums[0] = 0 /\ sums[m] \in Int
  BY DEF Timed
<1>2. ASSUME NEW k \in 1 .. m
      PROVE  /\ sums[k] = sums[k - 1] + f.deltas[k]
             /\ IsNear(start0 + Scale * sums[k], at(pos[k]))
  BY DEF Timed
<1>3. p[m + 1] = x /\ \A k \in 1 .. m : p[k] = pos[k]
  BY DEF Further
<1>4. s \in [0 .. m + 1 -> Int] /\ s[m + 1] = sums[m] + d /\ \A k \in 0 .. m : s[k] = sums[k]
  BY <1>1 DEF Further
<1>5. g.deltas[m + 1] = d /\ \A k \in 1 .. m : g.deltas[k] = f.deltas[k]
  BY AppendProperties
<1>6. start0 \in Int
  BY ChunkAssumption
<1>7. g.ref * RefUnit = start0
  OBVIOUS
<1> HIDE DEF p, s, at, start0
<1>8. y = start0 + Scale * s[m + 1]
  <2>1. f.lastTime = start0 + Scale * sums[m]
    BY Zenon DEF start0
  <2> QED BY <1>1, <1>4, <1>6, <2>1 DEF Scale
<1>9. ASSUME NEW k \in 1 .. m + 1
      PROVE  /\ s[k] = s[k - 1] + g.deltas[k]
             /\ IsNear(start0 + Scale * s[k], at(p[k]))
  <2>1. CASE k = m + 1
    <3>1. k - 1 = m /\ m \in 0 .. m
      BY <2>1
    <3>2. s[k - 1] = sums[m] /\ s[k] = sums[m] + d /\ g.deltas[k] = d
      BY <1>4, <1>5, <2>1, <3>1
    <3>3. at(p[k]) = t
      BY <1>3, <2>1 DEF at
    <3>4. y = start0 + Scale * s[k]
      BY <1>8, <2>1
    <3> QED BY <3>2, <3>3, <3>4
  <2>2. CASE k \in 1 .. m
    <3>0. k \in 0 .. m /\ k - 1 \in 0 .. m
      BY <2>2
    <3>1. s[k] = sums[k] /\ s[k - 1] = sums[k - 1] /\ p[k] = pos[k] /\ g.deltas[k] = f.deltas[k]
      BY <1>3, <1>4, <1>5, <2>2, <3>0
    <3> QED BY <1>2, <2>2, <3>1
  <2> QED BY <2>1, <2>2
<1>10. s[0] = 0
  BY <1>1, <1>4
<1>11. Timed(g, b, m + 1, p, s)
  BY <1>4, <1>7, <1>9, <1>10 DEF Timed, at, start0
<1> QED BY <1>7, <1>8, <1>11 DEF p, s

\* What a draft is after an arrival: `gap` symbols lost, then its own, and its delta.
SymbolOf(d) == IF d \in 0 .. SmallMax THEN "small" ELSE "large"

Receives(f, g, gap, d, next) ==
  /\ Draft(g) /\ g.base = f.base /\ g.ref = f.ref /\ g.next = next
  /\ g.deltas = Append(f.deltas, d) /\ g.lastTime = f.lastTime + d * Scale
  /\ g.count = f.count + gap + 1
  /\ Told(g) \in Seq(Sym) /\ Len(Told(g)) = Len(Told(f)) + gap + 1
  /\ Told(g)[Len(Told(f)) + gap + 1] = SymbolOf(d)
  /\ \A i \in 1 .. Len(Told(f)) + gap :
       Told(g)[i] = IF i <= Len(Told(f)) THEN Told(f)[i] ELSE "lost"

\* AddReceived tells the gap as lost, then the packet by the size of its delta.
LEMMA Received ==
  ASSUME NEW f, Draft(f), NEW n \in Int, NEW t \in Int
  PROVE  Receives(f, AddReceived(f, Wide(n), t), (Wide(n) - f.next) % WideMod, Delta(f, t), Wide(n + 1))
<1> DEFINE gap == (Wide(n) - f.next) % WideMod
           d == Delta(f, t)
           padded == AddAll(f, [i \in 1 .. gap |-> "lost"])
           s == SymbolOf(d)
           added == AddSymbol(padded, s)
           g == [added EXCEPT !.deltas = Append(@, d), !.lastTime = @ + d * Scale,
                              !.count = @ + gap + 1, !.next = (Wide(n) + 1) % WideMod]
<1>2. /\ f.lastTime \in Int /\ f.ref \in Int /\ f.deltas \in Seq(Int) /\ f.count \in Int
      /\ f.next \in Int
  BY DEF Draft, Packet
<1>3. WideMod \in Nat \ {0}
  BY RingBounds DEF WideMod
<1>4. gap \in Nat
  <2>1. Wide(n) - f.next \in Int
    BY <1>2, WideType
  <2> QED BY <1>3, <2>1, RestOf
<1>6. d \in Int
  BY <1>2, DeltaIsNear
<1>7. s \in Sym
  BY DEF SymbolOf, Sym
<1>8. AddReceived(f, Wide(n), t) = g
  BY Zenon DEF AddReceived, AddAll, SymbolOf
<1> HIDE DEF gap, d, s
<1>9. GapTold(f, padded, gap)
  BY <1>4, LostTold
<1> HIDE DEF padded
<1>10. /\ Draft(added) /\ SameHead(padded, added) /\ Told(padded) \in Seq(Sym)
       /\ Told(added) = Append(Told(padded), s)
  BY <1>7, <1>9, SymbolTold DEF GapTold
<1> HIDE DEF added
<1>11. SameHead(f, added) /\ added \in Packet
  BY <1>9, <1>10 DEF GapTold, SameHead, Draft
<1>12. Append(added.deltas, d) \in Seq(Int)
  BY <1>2, <1>6, <1>11, AppendProperties DEF SameHead
<1>13. (Wide(n) + 1) % WideMod = Wide(n + 1)
  BY WideSum
<1>14. /\ g.base = f.base /\ g.ref = f.ref /\ g.deltas = Append(f.deltas, d)
       /\ g.lastTime = f.lastTime + d * Scale /\ g.count = f.count + gap + 1
       /\ g.next = Wide(n + 1) /\ g.open = added.open /\ g.chunks = added.chunks
  BY <1>11, <1>13 DEF SameHead, Packet
<1>15. g \in Packet
  <2>1. Wide(n + 1) \in Int /\ f.lastTime + d * Scale \in Int /\ f.count + gap + 1 \in Int
    <3>1. n + 1 \in Int
      OBVIOUS
    <3>2. Wide(n + 1) \in Int
      BY <3>1, WideType
    <3> QED BY <1>2, <1>4, <1>6, <3>2 DEF Scale
  <2> QED BY <1>11, <1>12, <1>13, <2>1 DEF Packet, SameHead
<1> HIDE DEF g
<1>16. Draft(g) /\ Told(g) = Told(added)
  BY <1>10, <1>14, <1>15 DEF Draft, Told
<1> DEFINE long == Told(g)
           list == Told(f)
<1>17. list \in Seq(Sym) /\ Len(list) \in Nat
  BY <1>7, SymbolTold, LenProperties
<1>18. /\ long \in Seq(Sym) /\ Len(long) = Len(list) + gap + 1 /\ long[Len(list) + gap + 1] = s
       /\ \A i \in 1 .. Len(list) + gap : long[i] = IF i <= Len(list) THEN list[i] ELSE "lost"
  <2>2. Len(Told(padded)) = Len(list) + gap
        /\ \A i \in 1 .. Len(list) + gap : Told(padded)[i] = IF i <= Len(list) THEN list[i] ELSE "lost"
    BY <1>9 DEF GapTold
  <2> HIDE DEF list
  <2> QED BY <1>7, <1>10, <1>16, <1>17, <2>2, AppendProperties
<1> HIDE DEF long, list
<1>19. Receives(f, g, gap, d, Wide(n + 1))
  BY <1>14, <1>16, <1>18, Zenon DEF Receives, long, list, s
<1> QED BY <1>8, <1>19, Zenon DEF gap, d

\* The packet taken in is told after those told before, the gap between as lost.
LEMMA TakenIn ==
  ASSUME NEW f, NEW b, NEW m, NEW pos, NEW sums, Tells(f, b, m, pos, sums),
         NEW n \in Int, b + f.count <= n, n + 1 - b < WideMod,
         NEW t \in Int, t = Ring!Get(map, n), Fits(f, t)
  PROVE  LET g == AddReceived(f, Wide(n), t)
             d == Delta(f, t)
         IN  /\ Tells(g, b, m + 1, Further(pos, 1, m, n + 1 - b), Further(sums, 0, m, sums[m] + d))
             /\ g.count = n + 1 - b
<1> DEFINE gap == n - (b + f.count)
           d == Delta(f, t)
           g == AddReceived(f, Wide(n), t)
           s == SymbolOf(d)
           p == Further(pos, 1, m, n + 1 - b)
           more == Further(sums, 0, m, sums[m] + d)
<1>1. /\ Draft(f) /\ b \in Int /\ m \in Nat /\ f \in Packet
      /\ f.base = Wide(b) /\ f.next = Wide(b + f.count) /\ f.count \in Nat
      /\ Names(Told(f), f.count, m, pos)
      /\ Sized(Told(f), f.deltas, m, pos)
      /\ Timed(f, b, m, pos, sums)
      /\ f.lastTime = f.ref * RefUnit + Scale * sums[m]
  BY DEF Tells, Draft
<1>2. f.lastTime \in Int /\ f.ref \in Int /\ f.deltas \in Seq(Int) /\ f.count \in Int
  BY <1>1 DEF Packet
<1>3. WideMod \in Nat
  BY RingBounds DEF WideMod
<1>4. gap \in Nat /\ gap \in 0 .. WideMod - 1 /\ b + f.count \in Int
  BY <1>1, <1>2, <1>3
<1>5. (Wide(n) - f.next) % WideMod = gap
  BY <1>1, <1>4, WideSum
<1>6. d \in Int /\ IsNear(f.lastTime + d * Scale, t)
  BY <1>2, DeltaIsNear
<1>7. d \in SizeOf(s) /\ s \in {"small", "large"}
  BY DEF SizeOf, Fits, SymbolOf
<1>8. Receives(f, g, gap, d, Wide(n + 1))
  BY <1>1, <1>5, Received
<1> HIDE DEF gap, d, s, g
<1>14. /\ g.base = f.base /\ g.ref = f.ref /\ g.deltas = Append(f.deltas, d)
       /\ g.lastTime = f.lastTime + d * Scale /\ g.count = f.count + gap + 1
       /\ g.next = Wide(n + 1) /\ Draft(g)
  BY <1>8, Zenon DEF Receives
<1>17. f.count + gap + 1 = n + 1 - b /\ b + g.count = n + 1 /\ g.count \in 0 .. WideMod - 1
  <2>1. gap = n - (b + f.count)
    BY DEF gap
  <2>2. f.count + gap + 1 = n + 1 - b
    BY <1>1, <1>2, <2>1
  <2>3. g.count = n + 1 - b
    BY <1>14, <2>2
  <2>4. n + 1 - b >= 0
    BY <1>1, <1>2
  <2> QED BY <1>1, <1>3, <2>2, <2>3, <2>4
<1> DEFINE long == Told(g)
<1>18. /\ long \in Seq(Sym) /\ Len(long) = f.count + gap + 1 /\ long[f.count + gap + 1] = s
       /\ \A i \in 1 .. f.count + gap : long[i] = IF i <= f.count THEN Told(f)[i] ELSE "lost"
  <2>1. Len(Told(f)) = f.count
    BY <1>1 DEF Names
  <2> QED BY <1>8, <2>1 DEF Receives, s
<1> HIDE DEF long
<1>19. Names(long, n + 1 - b, m + 1, p)
  <2>1. Names(long, f.count + gap + 1, m + 1, Further(pos, 1, m, f.count + gap + 1))
    BY <1>1, <1>4, <1>7, <1>18, OneMoreName
  <2> QED BY <1>17, <2>1
<1>20. Sized(long, g.deltas, m + 1, p)
  <2>1. \A i \in 1 .. f.count : long[i] = Told(f)[i]
    <3> SUFFICES ASSUME NEW i \in 1 .. f.count PROVE long[i] = Told(f)[i]
      OBVIOUS
    <3>1. i \in 1 .. f.count + gap /\ i <= f.count
      BY <1>1, <1>4
    <3> QED BY <1>18, <3>1
  <2>2. d \in SizeOf(long[n + 1 - b])
    BY <1>7, <1>17, <1>18
  <2> QED BY <1>1, <1>6, <1>14, <2>1, <2>2, OneMoreDelta
<1>21. Timed(g, b, m + 1, p, more) /\ g.lastTime = g.ref * RefUnit + Scale * more[m + 1]
  <2>1. Len(f.deltas) = m
    BY <1>1 DEF Sized
  <2>2. pos \in [1 .. m -> Int]
    BY <1>1, <1>2 DEF Names
  <2>3. n + 1 - b \in Int /\ b + (n + 1 - b) - 1 = n
    BY <1>1
  <2> DEFINE x == n + 1 - b
  <2>4. x \in Int /\ t = Ring!Get(map, b + x - 1)
    BY <2>3
  <2>5. p = Further(pos, 1, m, x)
    OBVIOUS
  <2> HIDE DEF x, p
  <2>6. /\ Timed(g, b, m + 1, Further(pos, 1, m, x), more)
        /\ f.lastTime + d * Scale = g.ref * RefUnit + Scale * more[m + 1]
    <3> DEFINE y == f.lastTime + d * Scale
    <3>1. b \in Int /\ m \in Nat /\ Timed(f, b, m, pos, sums)
      BY <1>1
    <3>2. g.ref = f.ref /\ f.ref \in Int /\ d \in Int /\ f.deltas \in Seq(Int) /\ Len(f.deltas) = m
      BY <1>2, <1>6, <1>14, <2>1
    <3>3. g.deltas = Append(f.deltas, d)
      BY <1>14
    <3>4. f.lastTime = f.ref * RefUnit + Scale * sums[m]
      BY <1>1
    <3>5. y \in Int /\ IsNear(y, t)
      BY <1>2, <1>6 DEF Scale
    <3>6. y = f.lastTime + d * Scale
      OBVIOUS
    <3> HIDE DEF y
    <3>7. Timed(g, b, m + 1, Further(pos, 1, m, x), more) /\ y = g.ref * RefUnit + Scale * more[m + 1]
      <4>1. TimeGoesOn(f, g, b, m, pos, sums, d, x, t, y)
        BY <3>1, <3>2, <3>3, <3>4, <3>5, <3>6, <2>2, <2>4, Zenon DEF TimeGoesOn
      <4> HIDE DEF more
      <4>2. more = Further(sums, 0, m, sums[m] + d)
        BY DEF more
      <4> QED BY <4>1, <4>2, OneMoreTime
    <3> QED BY <3>6, <3>7
  <2> QED BY <1>14, <2>5, <2>6
<1>22. g.base = Wide(b) /\ g.next = Wide(b + g.count) /\ g.count = n + 1 - b /\ m + 1 \in Nat
  BY <1>1, <1>14, <1>17
<1> HIDE DEF p, more
<1>23. Tells(g, b, m + 1, p, more)
  BY <1>1, <1>14, <1>17, <1>19, <1>20, <1>21, <1>22 DEF Tells, long
<1> QED BY <1>22, <1>23 DEF d, p, more, g

-----------------------------------------------------------------------------
\* The arrivals that are due, as the row u of m numbers.
UnsentIs(m, u) ==
  /\ m \in Nat /\ u \in [1 .. m -> Int] /\ Rising(u, m) /\ Unsent = u
  /\ \A k \in 1 .. m : u[k] >= start /\ Ring!Get(map, u[k]) \in Int
  /\ \A i \in 1 .. m : \A j \in 1 .. m : u[j] - u[i] < MaxPackets

\* What is due is a rising row within one turn of the ring.
LEMMA UnsentRow ==
  ASSUME FeedOK
  PROVE  \E m : \E u : UnsentIs(m, u)
<1>1. RingOK(map) /\ start \in Int
  BY DEF FeedOK
<1>2. map.begin \in Int /\ map.end \in Int
  BY <1>1, KeptInWindow
<1>3. map.end - map.begin <= MaxPackets
  BY <1>1, RingBounds DEF RingOK, RingOver, Ring!EmptyMap
<1>4. ASSUME NEW n \in Due
      PROVE  /\ n \in Int /\ n \in map.begin .. map.end - 1 /\ n >= start
             /\ Ring!Get(map, n) \in Int
  <2>1. n \in map.begin .. map.end - 1 /\ n >= start /\ Ring!HasReceived(map, n)
    BY DEF Due
  <2>2. n \in Kept(map)
    BY <1>2, <2>1 DEF Kept, Ring!HasReceived
  <2>3. map # Ring!EmptyMap
    BY <2>2, EmptyRing DEF Kept
  <2>4. PICK c \in Ring!Capacities : RingOver(map, c)
    BY <1>1, <2>3 DEF RingOK
  <2>5. Ring!Get(map, n) \in Int
    BY <1>2, <2>1, <2>4, GetOf
  <2> QED BY <1>2, <2>1, <2>5
<1>5. Due \in SUBSET (map.begin .. map.end - 1) /\ map.end - 1 \in Int
  BY <1>2, <1>4
<1>6. PICK m, u : InRow(Due, m, u)
  BY <1>2, <1>5, RowOf
<1>7. m \in Nat /\ u \in [1 .. m -> Int] /\ Rising(u, m) /\ Due = Row(u, m)
  BY <1>6 DEF InRow
<1>8. Unsent = u
  BY <1>7, AscendingRow DEF Unsent
<1>9. \A k \in 1 .. m : u[k] \in Due
  BY <1>7 DEF Row
<1>10. \A k \in 1 .. m : u[k] \in Int /\ u[k] >= start /\ Ring!Get(map, u[k]) \in Int
                        /\ map.begin <= u[k] /\ u[k] < map.end
  BY <1>2, <1>4, <1>9
<1>11. \A i \in 1 .. m : \A j \in 1 .. m : u[j] - u[i] < MaxPackets
  <2> SUFFICES ASSUME NEW i \in 1 .. m, NEW j \in 1 .. m PROVE u[j] - u[i] < MaxPackets
    OBVIOUS
  <2>1. u[i] \in Int /\ u[j] \in Int /\ map.begin <= u[i] /\ u[j] < map.end
    BY <1>10
  <2> QED BY <1>2, <1>3, <2>1, RingBounds
<1>12. UnsentIs(m, u)
  BY <1>7, <1>8, <1>10, <1>11 DEF UnsentIs
<1> QED BY <1>12

\* Packet e of the feedback tells the arrivals after the lo-th up to the hi-th.
SliceAt(e, u, lo, hi, b, pos, sums) ==
  /\ Tells(e.fb, b, hi - lo, pos, sums)
  /\ e.upto = b + e.fb.count /\ e.upto = u[hi] + 1
  /\ b >= u[lo + 1] - (MaxPackets - 2)
  /\ \A k \in 1 .. hi - lo : u[lo + k] = b + pos[k] - 1

Slice(e, u, lo, hi) == \E b : \E pos : \E sums : SliceAt(e, u, lo, hi, b, pos, sums)

With(f, n) == [fb |-> AddReceived(f, Wide(n), Ring!Get(map, n)), upto |-> n + 1]

\* A packet that fits the open feedback extends the slice it tells.
LEMMA SliceGrows ==
  ASSUME NEW m, NEW u, UnsentIs(m, u), NEW lo \in Nat, NEW hi \in Nat, lo < hi, hi + 1 <= m,
         NEW e, Slice(e, u, lo, hi), Fits(e.fb, Ring!Get(map, u[hi + 1]))
  PROVE  Slice(With(e.fb, u[hi + 1]), u, lo, hi + 1)
<1> DEFINE n == u[hi + 1]
           t == Ring!Get(map, n)
           f == e.fb
           g == AddReceived(f, Wide(n), t)
           c == hi - lo
<1>1. PICK b, pos, sums : SliceAt(e, u, lo, hi, b, pos, sums)
  BY DEF Slice
<1>2. m \in Nat /\ u \in [1 .. m -> Int] /\ Rising(u, m)
      /\ (\A k \in 1 .. m : Ring!Get(map, u[k]) \in Int)
      /\ \A i \in 1 .. m : \A j \in 1 .. m : u[j] - u[i] < MaxPackets
  BY DEF UnsentIs
<1>3. hi + 1 \in 1 .. m /\ hi \in 1 .. m /\ lo + 1 \in 1 .. m /\ hi < hi + 1
  BY <1>2
<1>4. n \in Int /\ t \in Int /\ u[hi] \in Int /\ u[lo + 1] \in Int
      /\ u[hi] < n /\ n - u[lo + 1] < MaxPackets
  BY <1>2, <1>3 DEF Rising
<1>5. /\ Tells(f, b, c, pos, sums) /\ b \in Int /\ f.count \in Nat
      /\ b + f.count = u[hi] + 1 /\ b >= u[lo + 1] - (MaxPackets - 2)
  BY <1>1 DEF SliceAt, Tells
<1>6. b + f.count <= n /\ n + 1 - b < WideMod
  BY <1>4, <1>5, RingBounds DEF WideMod
<1> DEFINE p == Further(pos, 1, c, n + 1 - b)
           s == Further(sums, 0, c, sums[c] + Delta(f, t))
<1> HIDE DEF n, t, f, c
<1>7. Tells(g, b, c + 1, p, s) /\ g.count = n + 1 - b
  BY <1>4, <1>5, <1>6, TakenIn DEF t, n, f
<1>8. c + 1 = hi + 1 - lo /\ c \in Nat
  BY DEF c
<1>9. ASSUME NEW k \in 1 .. hi + 1 - lo PROVE u[lo + k] = b + p[k] - 1
  <2>1. p[c + 1] = n + 1 - b /\ \A j \in 1 .. c : p[j] = pos[j]
    BY <1>8 DEF Further
  <2> HIDE DEF p
  <2>2. CASE k = c + 1
    <3>1. lo + k = hi + 1
      BY <1>8, <2>2
    <3> QED BY <1>4, <1>5, <2>1, <2>2, <3>1 DEF n
  <2>3. CASE k \in 1 .. c
    <3>1. u[lo + k] = b + pos[k] - 1
      BY <1>1, <2>3 DEF SliceAt, c
    <3> QED BY <2>1, <2>3, <3>1
  <2> QED BY <1>8, <2>2, <2>3
<1>10. b + g.count = n + 1
  BY <1>4, <1>5, <1>7
<1> HIDE DEF g, p, s
<1> DEFINE w == [fb |-> g, upto |-> n + 1]
<1>11. SliceAt(w, u, lo, hi + 1, b, p, s)
  BY <1>5, <1>7, <1>8, <1>9, <1>10 DEF SliceAt, n
<1>12. With(e.fb, u[hi + 1]) = w
  BY DEF With, g, n, t, f
<1> HIDE DEF w
<1> QED BY <1>11, <1>12 DEF Slice

\* A feedback opened for a packet tells the slice of that packet alone.
LEMMA SliceBegins ==
  ASSUME NEW m, NEW u, UnsentIs(m, u), NEW lo \in Nat, lo + 1 <= m,
         NEW from \in Int, from <= u[lo + 1]
  PROVE  LET n    == u[lo + 1]
             base == Max({from, n - (MaxPackets - 2)})
         IN  Slice(With(NewFeedback(base, Ring!Get(map, n)), n), u, lo, lo + 1)
<1> DEFINE n == u[lo + 1]
           t == Ring!Get(map, n)
           b == Max({from, n - (MaxPackets - 2)})
           f == NewFeedback(b, t)
           g == AddReceived(f, Wide(n), t)
           pos == [k \in 1 .. 0 |-> 0]
           sums == [k \in 0 .. 0 |-> 0]
<1>2. m \in Nat /\ u \in [1 .. m -> Int] /\ (\A k \in 1 .. m : Ring!Get(map, u[k]) \in Int)
  BY DEF UnsentIs
<1>3. lo + 1 \in 1 .. m
  BY <1>2
<1>4. n \in Int /\ t \in Int
  BY <1>2, <1>3
<1> HIDE DEF n, t
<1>5. b \in Int /\ b <= n /\ b >= n - (MaxPackets - 2)
  <2>1. MaxPackets \in Int /\ MaxPackets >= 2 /\ from <= n
    BY RingAssumption DEF n
  <2>2. n - (MaxPackets - 2) \in Int
    BY <1>4, <2>1
  <2>3. b = IF from >= n - (MaxPackets - 2) THEN from ELSE n - (MaxPackets - 2)
    BY <2>2, EitherExtreme
  <2> HIDE DEF b
  <2> QED BY <1>4, <2>1, <2>3
<1> HIDE DEF b
<1>6. Tells(f, b, 0, pos, sums) /\ f.count = 0 /\ Fits(f, t)
  BY <1>4, <1>5, NewTells
<1> HIDE DEF f, pos, sums
<1>7. b + f.count <= n /\ n + 1 - b < WideMod
  BY <1>4, <1>5, <1>6, RingAssumption DEF WideMod
<1> DEFINE p == Further(pos, 1, 0, n + 1 - b)
           s == Further(sums, 0, 0, sums[0] + Delta(f, t))
<1>8. Tells(g, b, 0 + 1, p, s) /\ g.count = n + 1 - b
  BY <1>4, <1>6, <1>7, TakenIn DEF t
<1>9. p[1] = n + 1 - b
  BY DEF Further
<1> HIDE DEF g, p, s
<1> DEFINE w == [fb |-> g, upto |-> n + 1]
<1>10. SliceAt(w, u, lo, lo + 1, b, p, s)
  <2>1. lo + 1 - lo = 0 + 1
    OBVIOUS
  <2>2. b + g.count = n + 1
    BY <1>4, <1>5, <1>8
  <2>3. \A k \in 1 .. 0 + 1 : u[lo + k] = b + p[k] - 1
    <3> SUFFICES ASSUME NEW k \in 1 .. 0 + 1 PROVE u[lo + k] = b + p[k] - 1
      OBVIOUS
    <3>1. k = 1
      OBVIOUS
    <3> QED BY <1>4, <1>5, <1>9, <3>1 DEF n
  <2> QED BY <1>5, <1>8, <2>1, <2>2, <2>3 DEF SliceAt, n
<1>11. With(f, n) = w
  BY DEF With, g, t
<1> HIDE DEF w
<1>12. Slice(With(f, n), u, lo, lo + 1)
  BY <1>10, <1>11 DEF Slice
<1> QED BY <1>12 DEF f, b, t, n

\* An entry of the packets under way.
Entry == [fb : {f \in Packet : Draft(f)}, upto : Int]

\* Where the next packet begins.
Base(from, n) == Max({from, n - (MaxPackets - 2)})

Fresh(from, n) == With(NewFeedback(Base(from, n), Ring!Get(map, n)), n)

UptoOf(fbs) == IF fbs = <<>> THEN start ELSE fbs[Len(fbs)].upto

\* A packet goes into the last feedback or opens a new one.
LEMMA ExtendCases ==
  ASSUME NEW fbs \in Seq(Entry), NEW n
  PROVE  \/ /\ fbs # <<>> /\ Fits(fbs[Len(fbs)].fb, Ring!Get(map, n))
            /\ Extend(fbs, n) = [fbs EXCEPT ![Len(fbs)] = With(fbs[Len(fbs)].fb, n)]
         \/ Extend(fbs, n) = Append(fbs, Fresh(UptoOf(fbs), n))
<1>1. Last(fbs) = fbs[Len(fbs)]
  BY DEF Last
<1>2. CASE fbs # <<>> /\ Fits(Last(fbs).fb, Ring!Get(map, n))
  <2>1. Extend(fbs, n) = [fbs EXCEPT ![Len(fbs)] = With(fbs[Len(fbs)].fb, n)]
    BY <1>2, Zenon DEF Extend, With
  <2> QED BY <1>1, <1>2, <2>1
<1>3. CASE ~ (fbs # <<>> /\ Fits(Last(fbs).fb, Ring!Get(map, n)))
  <2>1. Extend(fbs, n) = Append(fbs, Fresh(UptoOf(fbs), n))
    BY <1>1, <1>3, Zenon DEF Extend, With, Fresh, Base, UptoOf
  <2> QED BY <2>1
<1> QED BY <1>2, <1>3

\* Taking a packet in keeps an entry an entry.
LEMMA WithType ==
  ASSUME NEW f, Draft(f), NEW n \in Int, Ring!Get(map, n) \in Int
  PROVE  With(f, n) \in Entry
<1> DEFINE g == AddReceived(f, Wide(n), Ring!Get(map, n))
<1>1. Draft(g)
  BY Received DEF Receives
<1>2. g \in Packet
  BY <1>1 DEF Draft
<1> HIDE DEF g
<1>3. With(f, n) = [fb |-> g, upto |-> n + 1]
  BY DEF With, g
<1> QED BY <1>1, <1>2, <1>3 DEF Entry

\* A feedback opened for a packet is an entry.
LEMMA FreshType ==
  ASSUME NEW from \in Int, NEW n \in Int, Ring!Get(map, n) \in Int
  PROVE  Fresh(from, n) \in Entry
<1>1. Base(from, n) \in Int
  <2>1. n - (MaxPackets - 2) \in Int
    BY RingBounds
  <2> QED BY <2>1, EitherExtreme DEF Base
<1>2. Draft(NewFeedback(Base(from, n), Ring!Get(map, n)))
  BY <1>1, NewTells DEF Tells
<1> QED BY <1>2, WithType DEF Fresh

\* Entries stay entries when a packet is taken in.
LEMMA ExtendType ==
  ASSUME NEW fbs \in Seq(Entry), NEW n \in Int, Ring!Get(map, n) \in Int, start \in Int
  PROVE  Extend(fbs, n) \in Seq(Entry)
<1> DEFINE l == Len(fbs)
           e == fbs[l]
           w == With(e.fb, n)
           x == Fresh(UptoOf(fbs), n)
<1>1. l \in Nat
  BY LenProperties
<1>2. ASSUME fbs # <<>> PROVE l \in 1 .. l /\ e \in Entry /\ Draft(e.fb) /\ e.upto \in Int
  <2>1. l # 0
    BY <1>2, EmptySeq
  <2>2. e \in Entry
    BY <1>1, <2>1, ElementOfSeq
  <2> QED BY <1>1, <2>1, <2>2 DEF Entry
<1>3. CASE fbs # <<>> /\ Extend(fbs, n) = [fbs EXCEPT ![l] = w]
  <2>1. w \in Entry
    BY <1>2, <1>3, WithType
  <2>2. Len(fbs) \in 1 .. Len(fbs)
    BY <1>2, <1>3
  <2> HIDE DEF w
  <2>3. [fbs EXCEPT ![Len(fbs)] = w] \in Seq(Entry)
    BY <2>1, <2>2, ExceptSeq
  <2> QED BY <1>3, <2>3
<1>4. CASE Extend(fbs, n) = Append(fbs, x)
  <2>1. UptoOf(fbs) \in Int
    BY <1>2 DEF UptoOf
  <2>2. x \in Entry
    BY <2>1, FreshType
  <2> HIDE DEF x
  <2> QED BY <1>4, <2>2, AppendProperties
<1>5. \/ fbs # <<>> /\ Extend(fbs, n) = [fbs EXCEPT ![l] = w]
      \/ Extend(fbs, n) = Append(fbs, x)
  BY ExtendCases
<1> HIDE DEF w, x, l
<1> QED BY <1>3, <1>4, <1>5

\* The packets tell the first k arrivals, packet i those after ends[i - 1] up to ends[i].
Cover(fbs, u, k, ends) ==
  /\ fbs \in Seq(Entry) /\ ends \in [0 .. Len(fbs) -> 0 .. k]
  /\ ends[0] = 0 /\ ends[Len(fbs)] = k
  /\ \A i \in 1 .. Len(fbs) : ends[i - 1] < ends[i] /\ Slice(fbs[i], u, ends[i - 1], ends[i])

Covered(fbs, u, k) == \E ends : Cover(fbs, u, k, ends)

\* No feedback covers no packet.
LEMMA CoverBegins ==
  ASSUME NEW u
  PROVE  Covered(<<>>, u, 0)
<1> DEFINE ends == [i \in 0 .. 0 |-> 0]
<1>1. Len(<<>>) = 0 /\ <<>> \in Seq(Entry) /\ ends \in [0 .. 0 -> 0 .. 0] /\ ends[0] = 0
  OBVIOUS
<1>2. Cover(<<>>, u, 0, ends)
  BY <1>1 DEF Cover
<1> QED BY <1>2 DEF Covered

\* One packet more is covered after Extend.
LEMMA CoverGrows ==
  ASSUME NEW m, NEW u, UnsentIs(m, u), NEW k \in Nat, k + 1 <= m, start \in Int,
         NEW fbs, Covered(fbs, u, k)
  PROVE  Covered(Extend(fbs, u[k + 1]), u, k + 1)
<1> DEFINE l == Len(fbs)
           n == u[k + 1]
           e == fbs[l]
<1>1. PICK ends : Cover(fbs, u, k, ends)
  BY DEF Covered
<1>2. /\ fbs \in Seq(Entry) /\ ends \in [0 .. l -> 0 .. k] /\ ends[0] = 0 /\ ends[l] = k
      /\ \A i \in 1 .. l : ends[i - 1] < ends[i] /\ Slice(fbs[i], u, ends[i - 1], ends[i])
  BY <1>1 DEF Cover
<1>3. l \in Nat
  BY <1>2, LenProperties
<1>4. m \in Nat /\ n \in Int /\ Ring!Get(map, n) \in Int /\ n >= start
  <2>1. m \in Nat /\ u \in [1 .. m -> Int]
        /\ \A i \in 1 .. m : u[i] >= start /\ Ring!Get(map, u[i]) \in Int
    BY DEF UnsentIs
  <2>2. k + 1 \in 1 .. m
    BY <2>1
  <2> QED BY <2>1, <2>2
<1>5. Extend(fbs, n) \in Seq(Entry)
  BY <1>2, <1>4, ExtendType
<1> DEFINE grown == Extend(fbs, n)
<1>6. ASSUME fbs # <<>> PROVE l \in 1 .. l /\ l - 1 \in 0 .. l /\ l # 0
  BY <1>2, <1>3, <1>6, EmptySeq
<1>7. CASE fbs # <<>> /\ Fits(e.fb, Ring!Get(map, n)) /\ grown = [fbs EXCEPT ![l] = With(e.fb, n)]
  <2> DEFINE lo == ends[l - 1]
             more == [ends EXCEPT ![l] = k + 1]
  <2>1. l \in 1 .. l /\ l - 1 \in 0 .. l /\ l - 1 # l
    BY <1>3, <1>6, <1>7
  <2>2. lo \in Nat /\ lo < k /\ Slice(e, u, lo, k)
    <3>1. ends[l - 1] \in 0 .. k
      BY <1>2, <2>1
    <3>2. ends[l - 1] < ends[l] /\ Slice(fbs[l], u, ends[l - 1], ends[l])
      BY <1>2, <2>1, Zenon
    <3>3. ends[l] = k
      BY <1>2
    <3> QED BY <3>1, <3>2, <3>3
  <2> HIDE DEF lo
  <2>3. Slice(With(e.fb, n), u, lo, k + 1)
    BY <1>7, <2>2, SliceGrows
  <2>4. /\ more \in [0 .. l -> 0 .. k + 1] /\ more[l] = k + 1
        /\ \A i \in 0 .. l : i # l => more[i] = ends[i]
    BY <1>2, <1>3
  <2>5. /\ Len(grown) = l /\ grown[l] = With(e.fb, n)
        /\ \A i \in 1 .. l : i # l => grown[i] = fbs[i]
    <3> DEFINE w == With(e.fb, n)
    <3> HIDE DEF w
    <3> QED BY <1>2, <1>3, <1>7, <2>1, ExceptSeq
  <2> HIDE DEF more, grown, e
  <2>6. ASSUME NEW i \in 1 .. l
        PROVE  more[i - 1] < more[i] /\ Slice(grown[i], u, more[i - 1], more[i])
    <3>1. i - 1 \in 0 .. l /\ i - 1 # l /\ i \in 0 .. l
      BY <1>3
    <3>2. more[i - 1] = ends[i - 1] /\ ends[i - 1] \in 0 .. k
      BY <1>2, <2>4, <3>1
    <3>3. CASE i = l
      BY <2>3, <2>4, <2>5, <3>2, <3>3 DEF lo
    <3>4. CASE i # l
      BY <1>2, <2>4, <2>5, <3>1, <3>2, <3>4
    <3> QED BY <3>3, <3>4
  <2>7. more[0] = 0
    BY <1>2, <1>3, <2>1, <2>4
  <2>8. Cover(grown, u, k + 1, more)
    BY <1>5, <2>4, <2>5, <2>6, <2>7 DEF Cover, grown
  <2> QED BY <2>8 DEF Covered, grown
<1>8. CASE grown = Append(fbs, Fresh(UptoOf(fbs), n))
  <2> DEFINE more == Further(ends, 0, l, k + 1)
             from == UptoOf(fbs)
             x == Fresh(from, n)
  <2>1. from \in Int /\ from <= n
    <3>1. CASE fbs = <<>>
      BY <1>4, <3>1 DEF UptoOf
    <3>2. CASE fbs # <<>>
      <4>1. Slice(e, u, ends[l - 1], k) /\ ends[l - 1] < k /\ ends[l - 1] \in 0 .. k
        BY <1>2, <1>6, <3>2
      <4>2. e.upto = u[k] + 1
        BY <4>1 DEF Slice, SliceAt
      <4>3. u[k] \in Int /\ u[k] < n
        <5>1. k \in 1 .. m /\ k + 1 \in 1 .. m /\ k < k + 1
          BY <1>4, <4>1
        <5> QED BY <5>1 DEF UnsentIs, Rising
      <4> QED BY <1>4, <3>2, <4>2, <4>3 DEF UptoOf
    <3> QED BY <3>1, <3>2
  <2> HIDE DEF from
  <2>2. Slice(x, u, k, k + 1)
    BY <2>1, SliceBegins DEF Fresh, Base
  <2>3. x \in Entry
    BY <1>4, <2>1, FreshType
  <2>4. /\ more \in [0 .. l + 1 -> 0 .. k + 1] /\ more[l + 1] = k + 1
        /\ \A i \in 0 .. l : more[i] = ends[i]
    <3>1. more = [i \in 0 .. l + 1 |-> IF i = l + 1 THEN k + 1 ELSE ends[i]]
      BY DEF Further
    <3>2. \A i \in 0 .. l + 1 : i = l + 1 \/ i \in 0 .. l
      BY <1>3
    <3>3. l + 1 \in 0 .. l + 1 /\ \A i \in 0 .. l : i \in 0 .. l + 1 /\ i # l + 1
      BY <1>3
    <3>4. \A i \in 0 .. l : ends[i] \in 0 .. k + 1
      BY <1>2
    <3>5. k + 1 \in 0 .. k + 1
      OBVIOUS
    <3> HIDE DEF more
    <3> QED BY <3>1, <3>2, <3>3, <3>4, <3>5
  <2> HIDE DEF x, more
  <2>5. /\ Len(grown) = l + 1 /\ grown[l + 1] = x
        /\ \A i \in 1 .. l : grown[i] = fbs[i]
    BY <1>2, <1>8, <2>3, AppendProperties DEF x, from
  <2> HIDE DEF grown
  <2>6. ASSUME NEW i \in 1 .. l + 1
        PROVE  more[i - 1] < more[i] /\ Slice(grown[i], u, more[i - 1], more[i])
    <3>1. i - 1 \in 0 .. l
      BY <1>3
    <3>2. more[i - 1] = ends[i - 1] /\ ends[i - 1] \in 0 .. k
      BY <1>2, <2>4, <3>1
    <3>3. CASE i = l + 1
      <4>1. i - 1 = l
        BY <1>3, <3>3
      <4>2. more[i - 1] = k /\ more[i] = k + 1 /\ grown[i] = x
        BY <1>2, <2>4, <2>5, <3>2, <3>3, <4>1
      <4> QED BY <2>2, <4>2
    <3>4. CASE i # l + 1
      <4>1. i \in 1 .. l /\ i \in 0 .. l
        BY <1>3, <3>4
      <4>2. more[i] = ends[i] /\ grown[i] = fbs[i]
        BY <2>4, <2>5, <4>1
      <4> QED BY <1>2, <3>2, <4>1, <4>2
    <3> QED BY <3>3, <3>4
  <2>7. more[0] = 0
    BY <1>2, <1>3, <2>4
  <2>8. Cover(grown, u, k + 1, more)
    BY <1>5, <2>4, <2>5, <2>6, <2>7 DEF Cover, grown
  <2> QED BY <2>8 DEF Covered, grown
<1> HIDE DEF grown
<1>9. \/ fbs # <<>> /\ Fits(e.fb, Ring!Get(map, n)) /\ grown = [fbs EXCEPT ![l] = With(e.fb, n)]
      \/ grown = Append(fbs, Fresh(UptoOf(fbs), n))
  BY <1>2, ExtendCases DEF grown
<1> QED BY <1>7, <1>8, <1>9 DEF grown

\* Together the packets tell all that is due.
Drafts == ExtendAll(<<>>, Unsent)

\* After the last packet everything that is due is covered.
LEMMA AllCovered ==
  ASSUME FeedOK, NEW m, NEW u, UnsentIs(m, u)
  PROVE  Covered(Drafts, u, m)
<1> DEFINE T == Seq(Entry)
<1>1. m \in Nat /\ u \in [1 .. m -> Int] /\ Unsent = u /\ DOMAIN u = 1 .. m
      /\ \A k \in 1 .. m : u[k] \in Int /\ Ring!Get(map, u[k]) \in Int
  BY DEF UnsentIs
<1>2. start \in Int
  BY DEF FeedOK
<1>3. <<>> \in T
  BY EmptySeq
<1>4. \A n \in 1 .. m : \A x \in T : Extend(x, u[n]) \in T
  BY <1>1, <1>2, ExtendType
<1> HIDE DEF T
<1>5. PICK g : Extends(g, m, u, T, <<>>)
  BY <1>1, <1>3, <1>4, Extending
<1>6. /\ g[0] = <<>> /\ \A n \in 1 .. m : g[n] = Extend(g[n - 1], u[n])
      /\ Drafts = g[m]
  BY <1>1, <1>5 DEF Extends, Drafts
<1> DEFINE P == {n \in 0 .. m : Covered(g[n], u, n)}
<1>7. 0 \in P
  BY <1>1, <1>6, CoverBegins
<1>8. ASSUME NEW n \in 1 .. m, n - 1 \in P PROVE n \in P
  <2>1. Covered(g[n - 1], u, n - 1) /\ n - 1 \in Nat /\ n - 1 + 1 = n /\ n <= m /\ n \in 0 .. m
    BY <1>1, <1>8
  <2> DEFINE j == n - 1
  <2> HIDE DEF j
  <2>2. Covered(g[j], u, j) /\ j \in Nat /\ j + 1 <= m
    BY <2>1 DEF j
  <2>3. Covered(Extend(g[j], u[j + 1]), u, j + 1)
    BY <1>2, <2>2, CoverGrows
  <2>4. Covered(Extend(g[n - 1], u[n]), u, n)
    BY <2>1, <2>3 DEF j
  <2> QED BY <1>6, <2>1, <2>4
<1>9. \A n \in 0 .. m : n \in P
  <2> HIDE DEF P
  <2> QED BY <1>1, <1>7, <1>8, UpTo
<1>10. m \in 0 .. m
  BY <1>1
<1> QED BY <1>6, <1>9, <1>10

-----------------------------------------------------------------------------
\* Closing a packet: only its last chunk is read back with more than was told.
Padding(f, g, pad) ==
  /\ pad \in Seq(Sym) /\ Flat(g.chunks) \o g.open = Told(f) \o pad
  /\ pad = <<>> \/ g.open = <<>>

Shutting(f, g) ==
  /\ g \in Packet /\ SameHead(f, g) /\ Openable(g.open)
  /\ \A i \in DOMAIN g.chunks : Carried(g.chunks[i])
  /\ \E pad : Padding(f, g, pad)

\* Chunks flatten to symbols.
LEMMA FlatType ==
  ASSUME NEW cs \in Seq(Coded), \A i \in DOMAIN cs : Carried(cs[i])
  PROVE  Flat(cs) \in Seq(Sym)
<1>1. [kind |-> "run", syms |-> <<"lost">>] \in Coded
  BY DEF Coded, Sym
<1>2. Carried([kind |-> "run", syms |-> <<"lost">>])
  BY Caps DEF Carried, Mixed
<1> QED BY <1>1, <1>2, FlatGrows

\* Closing starts from the draft, with nothing lost or added.
LEMMA ShutBegins ==
  ASSUME NEW f, Draft(f)
  PROVE  Shutting(f, f)
<1>1. "lost" \in Sym
  BY DEF Sym
<1>2. Told(f) \in Seq(Sym) /\ <<>> \in Seq(Sym)
  BY <1>1, SymbolTold, EmptySeq
<1>3. Told(f) \o <<>> = Told(f)
  BY <1>2, ConcatEmptySeq
<1>4. Padding(f, f, <<>>)
  BY <1>2, <1>3 DEF Padding, Told
<1> QED BY <1>4 DEF Shutting, Draft, SameHead

\* Writing one chunk out keeps what is told and shortens what is open.
LEMMA ShutGoesOn ==
  ASSUME NEW f, Draft(f), NEW g, Shutting(f, g), NEW x
  PROVE  /\ Shutting(f, CloseOne(g, x))
         /\ g.open = <<>> => CloseOne(g, x).open = <<>>
         /\ g.open # <<>> => Len(CloseOne(g, x).open) < Len(g.open)
<1> DEFINE h == CloseOne(g, x)
           e == Encoded(g.open)
<1>1. CASE g.open = <<>>
  <2>1. h = g
    BY <1>1 DEF CloseOne
  <2> QED BY <1>1, <2>1
<1>2. CASE g.open # <<>>
  <2>1. h = WriteOut(g)
    BY <1>2 DEF CloseOne
  <2> HIDE DEF h
  <2>2. /\ g \in Packet /\ SameHead(f, g) /\ Openable(g.open)
        /\ \A i \in DOMAIN g.chunks : Carried(g.chunks[i])
        /\ g.open \in Seq(Sym) /\ g.chunks \in Seq(Coded)
    BY DEF Shutting, Packet
  <2>3. Flat(g.chunks) \o g.open = Told(f)
    <3>1. PICK pad : Padding(f, g, pad)
      BY DEF Shutting
    <3>2. pad = <<>>
      BY <1>2, <3>1 DEF Padding
    <3>3. "lost" \in Sym
      BY DEF Sym
    <3>4. Told(f) \in Seq(Sym)
      BY <3>3, SymbolTold
    <3> QED BY <3>1, <3>2, <3>4, ConcatEmptySeq DEF Padding
  <2>4. /\ e \in Coded /\ Carried(e)
        /\ Rest(g.open) \in Seq(Sym) /\ e.syms \o Rest(g.open) = g.open
        /\ Len(Rest(g.open)) < TwoBitCap /\ Len(Rest(g.open)) < Len(g.open)
        /\ Full(e) \/ Rest(g.open) = <<>>
    BY <1>2, <2>2, Encodes
  <2> HIDE DEF e
  <2>5. /\ h \in Packet /\ SameHead(g, h) /\ h.open = Rest(g.open)
        /\ h.chunks = Append(g.chunks, e)
        /\ \A i \in DOMAIN h.chunks : Carried(h.chunks[i])
    BY <1>2, <2>1, <2>2, WritesOut DEF e
  <2>6. SameHead(f, h)
    BY <2>2, <2>5 DEF SameHead
  <2>7. Openable(h.open)
    <3>1. Len(Rest(g.open)) \in Nat
      BY <2>4, LenProperties
    <3> QED BY <2>4, <2>5, <3>1, Caps DEF Openable
  <2>8. e.syms \in Seq(Sym) /\ Flat(g.chunks) \in Seq(Sym)
    BY <2>2, <2>4, FlatType DEF Coded
  <2>9. Flat(h.chunks) = Flat(g.chunks) \o Padded(e)
    BY <2>2, <2>4, <2>5, FlatGrows
  <2>10. CASE Full(e)
    <3>1. Padded(e) = e.syms
      BY <2>4, <2>10, Pads
    <3>2. (Flat(g.chunks) \o e.syms) \o Rest(g.open) = Flat(g.chunks) \o (e.syms \o Rest(g.open))
      BY <2>4, <2>8, Chained
    <3>3. Flat(h.chunks) \o h.open = Told(f)
      BY <2>3, <2>4, <2>5, <2>9, <3>1, <3>2
    <3>4. <<>> \in Seq(Sym) /\ Told(f) \o <<>> = Told(f)
      <4>1. "lost" \in Sym
        BY DEF Sym
      <4>2. Told(f) \in Seq(Sym)
        BY <4>1, SymbolTold
      <4> QED BY <4>2, ConcatEmptySeq, EmptySeq
    <3>5. Padding(f, h, <<>>)
      BY <3>3, <3>4 DEF Padding
    <3> QED BY <2>4, <2>5, <2>6, <2>7, <3>5 DEF Shutting, h
  <2>11. CASE Rest(g.open) = <<>>
    <3>1. PICK pad \in Seq(Sym) : Padded(e) = e.syms \o pad
      BY <2>4, Pads
    <3>2. e.syms = g.open
      BY <2>4, <2>8, <2>11, ConcatEmptySeq
    <3>3. Flat(h.chunks) = Told(f) \o pad
      <4>1. (Flat(g.chunks) \o g.open) \o pad = Flat(g.chunks) \o (g.open \o pad)
        BY <2>2, <2>8, <3>1, Chained
      <4> QED BY <2>3, <2>9, <3>1, <3>2, <4>1
    <3>4. Flat(h.chunks) \o h.open = Flat(h.chunks)
      <4>1. Flat(h.chunks) \in Seq(Sym)
        BY <2>5, FlatType DEF Packet
      <4> QED BY <2>5, <2>11, <4>1, ConcatEmptySeq
    <3>5. Padding(f, h, pad)
      BY <2>5, <2>11, <3>1, <3>3, <3>4 DEF Padding
    <3> QED BY <2>4, <2>5, <2>6, <2>7, <3>5 DEF Shutting, h
  <2> QED BY <2>4, <2>10, <2>11
<1> QED BY <1>1, <1>2

\* Closed, nothing is left open.
LEMMA ClosedIs ==
  ASSUME NEW f, Draft(f)
  PROVE  Shutting(f, Closed(f)) /\ Closed(f).open = <<>>
<1> DEFINE s == f.open
           m == Len(s)
           T == {g \in Packet : Shutting(f, g)}
<1>1. s \in Seq(Sym)
  BY DEF Draft, Packet
<1>2. m \in Nat /\ DOMAIN s = 1 .. m
  BY <1>1, LenProperties
<1> HIDE DEF s, m
<1>3. f \in T
  BY ShutBegins DEF Draft
<1>4. \A n \in 1 .. m : \A x \in T : CloseOne(x, s[n]) \in T
  <2> SUFFICES ASSUME NEW n \in 1 .. m, NEW x \in T PROVE CloseOne(x, s[n]) \in T
    OBVIOUS
  <2>1. Shutting(f, CloseOne(x, s[n]))
    BY ShutGoesOn
  <2> QED BY <2>1 DEF Shutting
<1>5. \A x \in T : Shutting(f, x)
  OBVIOUS
<1> HIDE DEF T
<1>6. PICK g : Closes(g, m, s, T, f)
  BY <1>2, <1>3, <1>4, Closing
<1>7. /\ g \in [0 .. m -> T] /\ g[0] = f /\ \A n \in 1 .. m : g[n] = CloseOne(g[n - 1], s[n])
      /\ CloseAll(f, s) = g[m]
  BY <1>6 DEF Closes
<1>8. Closed(f) = g[m]
  BY <1>7, Zenon DEF Closed, CloseAll, s
<1> DEFINE P == {n \in 0 .. m : Len(g[n].open) \in Nat /\ Len(g[n].open) <= m - n}
<1>9. ASSUME NEW n \in 0 .. m PROVE Shutting(f, g[n]) /\ Len(g[n].open) \in Nat
  <2>1. Shutting(f, g[n])
    BY <1>5, <1>7
  <2>2. g[n].open \in Seq(Sym)
    BY <2>1 DEF Shutting, Packet
  <2> QED BY <2>1, <2>2, LenProperties
<1>10. 0 \in P
  BY <1>2, <1>7 DEF s, m
<1>11. ASSUME NEW n \in 1 .. m, n - 1 \in P PROVE n \in P
  <2> DEFINE prev == g[n - 1]
             b == g[n]
  <2>1. n - 1 \in 0 .. m /\ n \in 0 .. m
    BY <1>2
  <2>2. Shutting(f, prev) /\ b = CloseOne(prev, s[n]) /\ Len(prev.open) \in Nat /\ Len(b.open) \in Nat
        /\ Len(prev.open) <= m - (n - 1)
    BY <1>7, <1>9, <1>11, <2>1
  <2> HIDE DEF prev, b
  <2>3. CASE prev.open = <<>>
    <3>1. b.open = <<>>
      BY <2>2, <2>3, ShutGoesOn
    <3>2. Len(b.open) = 0
      BY <3>1
    <3> QED BY <1>2, <2>1, <2>2, <3>2 DEF b
  <2>4. CASE prev.open # <<>>
    <3>1. Len(b.open) < Len(prev.open)
      BY <2>2, <2>4, ShutGoesOn
    <3> QED BY <1>2, <2>1, <2>2, <3>1 DEF b
  <2> QED BY <2>3, <2>4
<1>12. \A n \in 0 .. m : n \in P
  <2> HIDE DEF P
  <2> QED BY <1>2, <1>10, <1>11, UpTo
<1>13. m \in 0 .. m
  BY <1>2
<1>14. Len(g[m].open) = 0
  BY <1>2, <1>12, <1>13
<1>15. g[m].open = <<>>
  <2>1. g[m].open \in Seq(Sym)
    BY <1>9, <1>13 DEF Shutting, Packet
  <2> QED BY <1>14, <2>1, EmptySeq
<1> QED BY <1>8, <1>9, <1>13, <1>15

-----------------------------------------------------------------------------
\* Reading back.  What a closed packet says is what its draft told.
LEMMA SymbolsOf ==
  ASSUME NEW f, Draft(f), Len(Told(f)) = f.count
  PROVE  Symbols(Closed(f)) = Told(f)
<1> DEFINE g == Closed(f)
           all == Flat(g.chunks)
           told == Told(f)
<1>1. Shutting(f, g) /\ g.open = <<>>
  BY ClosedIs
<1> HIDE DEF g
<1>2. "lost" \in Sym
  BY DEF Sym
<1>3. told \in Seq(Sym) /\ Len(told) \in Nat /\ Len(told) = f.count
  BY <1>2, SymbolTold, LenProperties
<1>4. PICK pad : Padding(f, g, pad)
  BY <1>1 DEF Shutting
<1>5. all \in Seq(Sym)
  BY <1>1, FlatType DEF Shutting, Packet
<1>6. pad \in Seq(Sym) /\ all = told \o pad
  BY <1>1, <1>4, <1>5, ConcatEmptySeq DEF Padding
<1> HIDE DEF all, told
<1>7. Len(pad) \in Nat /\ Len(all) = f.count + Len(pad) /\ g.count = f.count
  BY <1>1, <1>3, <1>6, ConcatProperties, LenProperties DEF Shutting, SameHead
<1>8. Min({g.count, Len(all)}) = f.count
  <2>1. f.count \in Int /\ Len(all) \in Int /\ f.count <= Len(all)
    BY <1>3, <1>7
  <2> QED BY <1>7, <2>1, LesserOf
<1>9. Symbols(g) = SubSeq(all, 1, f.count)
  BY <1>8, Zenon DEF Symbols, all, Flat
<1>10. SubSeq(all, 1, f.count) = told
  <2> DEFINE c == SubSeq(all, 1, f.count)
  <2>1. f.count \in 0 .. Len(all) /\ f.count \in Nat
    BY <1>3, <1>7
  <2>2. c \in Seq(Sym) /\ Len(c) = f.count /\ \A i \in 1 .. f.count : c[i] = all[i]
    BY <1>5, <2>1, SubSeqProperties
  <2>3. \A i \in 1 .. f.count : all[i] = told[i]
    <3>1. \A i \in 1 .. Len(told) + Len(pad) : (told \o pad)[i] = IF i <= Len(told) THEN told[i] ELSE pad[i - Len(told)]
      BY <1>3, <1>6, ConcatProperties
    <3> QED BY <1>3, <1>6, <1>7, <3>1
  <2> HIDE DEF c
  <2> QED BY <1>3, <2>2, <2>3, SeqEqual DEF c
<1> QED BY <1>9, <1>10 DEF g, told

Total(s) == FoldLeft(+, 0, s)

\* The deltas up to the k-th add up to the k-th sum.
LEMMA TotalIs ==
  ASSUME NEW m \in Nat, NEW d \in Seq(Int), Len(d) = m, NEW sums \in [0 .. m -> Int], sums[0] = 0,
         \A k \in 1 .. m : sums[k] = sums[k - 1] + d[k],
         NEW k \in 1 .. m
  PROVE  Total(SubSeq(d, 1, k)) = sums[k]
<1> DEFINE s == SubSeq(d, 1, k)
           t == [i \in 0 .. k |-> sums[i]]
<1>1. k \in Nat /\ k \in 0 .. Len(d)
  OBVIOUS
<1>2. s \in Seq(Int) /\ Len(s) = k /\ \A i \in 1 .. k : s[i] = d[i]
  BY <1>1, SubSeqProperties
<1> HIDE DEF s
<1>3. s \in [1 .. k -> Int]
  BY <1>2
<1>4. \A i \in 0 .. k : i \in 0 .. m /\ t[i] = sums[i]
  OBVIOUS
<1>5. t \in [0 .. k -> Int] /\ t[0] = 0 /\ t[k] = sums[k]
  BY <1>1, <1>4
<1>6. ASSUME NEW i \in 1 .. k PROVE t[i] = t[i - 1] + s[i]
  <2>1. i \in 1 .. m /\ i - 1 \in 0 .. k /\ i \in 0 .. k
    OBVIOUS
  <2> QED BY <1>2, <1>4, <2>1
<1> HIDE DEF t
<1>7. FoldLeft(+, 0, s) = t[k]
  BY <1>1, <1>3, <1>5, <1>6, SumIs
<1> QED BY <1>5, <1>7, Zenon DEF Total, s

\* Each arrival of the slice is said, with its number and its time, in the form of the format.
Saying == [wide : Int, time : Int]

Says(r, n) == r \in Saying /\ r.wide = Wide(n) /\ IsNear(r.time, Ring!Get(map, n))

\* A closed feedback, read back, says its slice of the row.
LEMMA ReadBack ==
  ASSUME NEW e, NEW u, NEW lo \in Nat, NEW hi \in Nat, lo < hi, Slice(e, u, lo, hi)
  PROVE  /\ Formed(Closed(e.fb))
         /\ Read(Closed(e.fb)) \in Seq(Saying) /\ Len(Read(Closed(e.fb))) = hi - lo
         /\ \A k \in 1 .. hi - lo : Says(Read(Closed(e.fb))[k], u[lo + k])
<1> DEFINE f == e.fb
           g == Closed(f)
           m == hi - lo
           told == Told(f)
<1>1. PICK b, pos, sums : SliceAt(e, u, lo, hi, b, pos, sums)
  BY DEF Slice
<1>2. Tells(f, b, m, pos, sums) /\ \A k \in 1 .. m : u[lo + k] = b + pos[k] - 1
  BY <1>1 DEF SliceAt
<1> HIDE DEF f, m
<1>3. /\ Draft(f) /\ f \in Packet /\ b \in Int /\ m \in Nat /\ f.base = Wide(b)
      /\ f.count \in 0 .. WideMod - 1
      /\ Names(told, f.count, m, pos) /\ Sized(told, f.deltas, m, pos)
      /\ Timed(f, b, m, pos, sums)
  BY <1>2 DEF Tells, Draft
<1>4. Symbols(g) = told
  BY <1>3, SymbolsOf DEF Names
<1>5. Shutting(f, g)
  BY <1>3, ClosedIs
<1>6. /\ g.base = f.base /\ g.ref = f.ref /\ g.count = f.count /\ g.deltas = f.deltas
      /\ \A i \in DOMAIN g.chunks : Carried(g.chunks[i])
  BY <1>5 DEF Shutting, SameHead
<1> HIDE DEF g, told
<1>7. /\ Len(told) = f.count /\ pos \in [1 .. m -> 1 .. f.count] /\ Rising(pos, m)
      /\ \A i \in 1 .. f.count : told[i] # "lost" <=> \E k \in 1 .. m : pos[k] = i
  BY <1>3 DEF Names
<1>8. Named(g) = pos
  <2>1. {i \in 1 .. Len(Symbols(g)) : Symbols(g)[i] # "lost"} = Row(pos, m)
    <3>1. {i \in 1 .. f.count : told[i] # "lost"} = Row(pos, m)
      BY <1>7 DEF Row
    <3> QED BY <1>4, <1>7, <3>1
  <2>2. pos \in [1 .. m -> Int]
    BY <1>3, <1>7
  <2>3. Ascending(Row(pos, m)) = pos
    BY <1>3, <1>7, <2>2, AscendingRow
  <2> QED BY <2>1, <2>3 DEF Named
<1>9. DOMAIN pos = 1 .. m
  BY <1>7
<1>10. f.deltas \in Seq(Int) /\ Len(f.deltas) = m /\ \A k \in 1 .. m : f.deltas[k] \in SizeOf(told[pos[k]])
  BY <1>3 DEF Sized
<1>11. Formed(g)
  <2>1. DOMAIN g.deltas = 1 .. m
    BY <1>6, <1>10, LenProperties
  <2>2. ASSUME NEW k \in DOMAIN g.deltas
        PROVE  g.deltas[k] \in IF Symbols(g)[Named(g)[k]] = "small" THEN 0 .. SmallMax
                              ELSE - LargeMax - 1 .. LargeMax
    <3>1. g.deltas[k] \in SizeOf(told[pos[k]])
      BY <1>6, <1>10, <2>1
    <3> QED BY <1>4, <1>8, <3>1, Zenon DEF SizeOf
  <2> QED BY <1>3, <1>6, <1>8, <1>9, <2>1, <2>2, Zenon DEF Formed
<1> DEFINE wide(k) == (g.base + Named(g)[k] - 1) % WideMod
           time(k) == g.ref * RefUnit + Scale * FoldLeft(+, 0, SubSeq(g.deltas, 1, k))
<1>12. Read(g) = [k \in 1 .. m |-> [wide |-> wide(k), time |-> time(k)]]
  BY <1>8, <1>9, Zenon DEF Read
<1>13. ASSUME NEW k \in 1 .. m PROVE wide(k) = Wide(u[lo + k]) /\ wide(k) \in Int
  <2>1. pos[k] \in 1 .. f.count /\ f.count \in Int /\ pos[k] \in Int
    BY <1>3, <1>7
  <2> DEFINE y == pos[k] - 1
  <2>2. y \in Int /\ b + y = u[lo + k]
    BY <1>2, <1>3, <2>1
  <2>3. Wide(b) \in Int
    BY <1>3, WideType
  <2>4. g.base + Named(g)[k] - 1 = Wide(b) + y
    BY <1>3, <1>6, <1>8, <2>1, <2>3
  <2> HIDE DEF y
  <2>5. (Wide(b) + y) % WideMod = Wide(b + y)
    BY <1>3, <2>2, WideSum
  <2>6. Wide(b + y) \in Int
    BY <1>3, <2>2, WideType
  <2> QED BY <2>2, <2>4, <2>5, <2>6
<1>14. ASSUME NEW k \in 1 .. m
       PROVE  time(k) \in Int /\ IsNear(time(k), Ring!Get(map, u[lo + k]))
  <2>1. sums \in [0 .. m -> Int] /\ sums[0] = 0
        /\ \A i \in 1 .. m : sums[i] = sums[i - 1] + f.deltas[i]
    BY <1>3 DEF Timed
  <2>2. IsNear(f.ref * RefUnit + Scale * sums[k], Ring!Get(map, b + pos[k] - 1))
    BY <1>3 DEF Timed
  <2>3. Total(SubSeq(f.deltas, 1, k)) = sums[k]
    BY <1>3, <1>10, <2>1, TotalIs
  <2>4. time(k) = g.ref * RefUnit + Scale * Total(SubSeq(g.deltas, 1, k))
    BY Zenon DEF Total
  <2> HIDE DEF time
  <2>5. time(k) = f.ref * RefUnit + Scale * sums[k]
    BY <1>6, <2>3, <2>4
  <2>6. f.ref * RefUnit + Scale * sums[k] \in Int
    <3>1. f.ref \in Int /\ RefUnit \in Int /\ sums[k] \in Int
      BY <1>3, <2>1, ChunkAssumption DEF Packet
    <3> QED BY <3>1 DEF Scale
  <2>7. u[lo + k] = b + pos[k] - 1
    BY <1>2
  <2> QED BY <2>2, <2>5, <2>6, <2>7
<1> HIDE DEF wide, time
<1> DEFINE r == Read(g)
<1>15. r \in Seq(Saying) /\ Len(r) = m /\ \A k \in 1 .. m : Says(r[k], u[lo + k])
  <2>1. \A k \in 1 .. m : r[k] = [wide |-> wide(k), time |-> time(k)]
    BY <1>12
  <2>2. \A k \in 1 .. m : [wide |-> wide(k), time |-> time(k)] \in Saying
    BY <1>13, <1>14 DEF Saying
  <2>3. r \in Seq(Saying) /\ Len(r) = m
    BY <1>3, <1>12, <2>2
  <2> HIDE DEF r
  <2>4. ASSUME NEW k \in 1 .. m PROVE Says(r[k], u[lo + k])
    <3> DEFINE x == wide(k)
               y == time(k)
    <3>1. r[k] = [wide |-> x, time |-> y] /\ [wide |-> x, time |-> y] \in Saying
      BY <2>1, <2>2, Zenon
    <3> HIDE DEF x, y
    <3>2. r[k].wide = x /\ r[k].time = y /\ r[k] \in Saying
      BY <3>1
    <3> QED BY <1>13, <1>14, <3>2 DEF Says, x, y
  <2> QED BY <2>3, <2>4
<1> HIDE DEF r
<1> QED BY <1>11, <1>15 DEF g, f, m, r

\* What two feedbacks say in turn is one followed by the other.
LEMMA SaidOn ==
  \A s, r \in Seq(Saying) :
    /\ s \o r \in Seq(Saying) /\ Len(s \o r) = Len(s) + Len(r)
    /\ \A k \in 1 .. Len(s) + Len(r) : (s \o r)[k] = IF k <= Len(s) THEN s[k] ELSE r[k - Len(s)]
<1> SUFFICES ASSUME NEW s \in Seq(Saying), NEW r \in Seq(Saying)
             PROVE  /\ s \o r \in Seq(Saying) /\ Len(s \o r) = Len(s) + Len(r)
                    /\ \A k \in 1 .. Len(s) + Len(r) :
                         (s \o r)[k] = IF k <= Len(s) THEN s[k] ELSE r[k - Len(s)]
  OBVIOUS
<1> QED BY ConcatProperties

\* Laid end to end, what the packets say is what was due.
LEMMA SaidInAll ==
  ASSUME NEW m \in Nat, NEW u, NEW fbs, NEW ends, Cover(fbs, u, m, ends),
         NEW rs \in Seq(Seq(Saying)), Len(rs) = Len(fbs),
         \A i \in 1 .. Len(fbs) :
           /\ Len(rs[i]) = ends[i] - ends[i - 1]
           /\ \A k \in 1 .. ends[i] - ends[i - 1] : Says(rs[i][k], u[ends[i - 1] + k])
  PROVE  /\ FlattenSeq(rs) \in Seq(Saying) /\ Len(FlattenSeq(rs)) = m
         /\ \A k \in 1 .. m : Says(FlattenSeq(rs)[k], u[k])
<1> DEFINE l == Len(fbs)
           Good(s, n) == s \in Seq(Saying) /\ Len(s) = n /\ \A k \in 1 .. n : Says(s[k], u[k])
<1>1. l \in Nat /\ ends \in [0 .. l -> 0 .. m] /\ ends[0] = 0 /\ ends[l] = m
      /\ \A i \in 1 .. l : ends[i - 1] < ends[i]
  BY LenProperties DEF Cover
<1>2. PICK g : Joins(g, rs, Saying)
  BY FlattenUnfolds
<1>3. /\ g \in [0 .. l -> Seq(Saying)] /\ g[0] = <<>>
      /\ \A i \in 1 .. l : g[i] = g[i - 1] \o rs[i]
      /\ FlattenSeq(rs) = g[l]
  BY <1>2, Zenon DEF Joins
<1>4. \A i \in 1 .. l : rs[i] \in Seq(Saying)
  BY ElementOfSeq
<1>a. \A i \in 1 .. l :
        /\ Len(rs[i]) = ends[i] - ends[i - 1]
        /\ \A k \in 1 .. ends[i] - ends[i - 1] : Says(rs[i][k], u[ends[i - 1] + k])
  OBVIOUS
<1> HIDE DEF l
<1> DEFINE P == {i \in 0 .. l : Good(g[i], ends[i])}
<1>5. 0 \in P
  <2>1. <<>> \in Seq(Saying) /\ Len(<<>>) = 0
    OBVIOUS
  <2> QED BY <1>1, <1>3, <2>1
<1>6. ASSUME NEW i \in 1 .. l, i - 1 \in P PROVE i \in P
  <2> DEFINE s == g[i - 1]
             r == rs[i]
             low == ends[i - 1]
             high == ends[i]
  <2>1. i - 1 \in 0 .. l /\ i \in 0 .. l
    BY <1>1
  <2>2. low \in Nat /\ high \in Nat /\ low < high
    BY <1>1, <2>1
  <2>3. /\ s \in Seq(Saying) /\ Len(s) = low /\ \A k \in 1 .. low : Says(s[k], u[k])
        /\ r \in Seq(Saying) /\ Len(r) = high - low /\ \A k \in 1 .. high - low : Says(r[k], u[low + k])
        /\ g[i] = s \o r
    BY <1>a, <1>3, <1>4, <1>6
  <2> HIDE DEF s, r, low, high
  <2>4. /\ s \o r \in Seq(Saying) /\ Len(s \o r) = low + (high - low)
        /\ \A k \in 1 .. low + (high - low) : (s \o r)[k] = IF k <= low THEN s[k] ELSE r[k - low]
    <3>1. /\ s \o r \in Seq(Saying) /\ Len(s \o r) = Len(s) + Len(r)
          /\ \A k \in 1 .. Len(s) + Len(r) : (s \o r)[k] = IF k <= Len(s) THEN s[k] ELSE r[k - Len(s)]
      <4>1. s \in Seq(Saying) /\ r \in Seq(Saying)
        BY <2>3
      <4> QED BY <4>1, SaidOn, Zenon
    <3> QED BY <2>3, <3>1
  <2>5. ASSUME NEW k \in 1 .. high PROVE Says((s \o r)[k], u[k])
    <3>1. k \in 1 .. low + (high - low)
      BY <2>2
    <3>2. CASE k <= low
      <4>1. k \in 1 .. low /\ (s \o r)[k] = s[k]
        BY <2>2, <2>4, <3>1, <3>2
      <4> QED BY <2>3, <4>1
    <3>3. CASE ~ (k <= low)
      <4>1. k - low \in 1 .. high - low /\ low + (k - low) = k /\ (s \o r)[k] = r[k - low]
        BY <2>2, <2>4, <3>1, <3>3
      <4>2. Says(r[k - low], u[low + (k - low)])
        BY <2>3, <4>1
      <4> QED BY <4>1, <4>2
    <3> QED BY <3>2, <3>3
  <2>6. Good(g[i], high)
    <3>1. low + (high - low) = high
      BY <2>2
    <3> QED BY <2>3, <2>4, <2>5, <3>1
  <2> HIDE DEF Good
  <2> QED BY <2>1, <2>6 DEF high
<1>7. \A i \in 0 .. l : i \in P
  <2> HIDE DEF P
  <2> QED BY <1>1, <1>5, <1>6, UpTo
<1>8. l \in 0 .. l
  BY <1>1
<1>9. Good(g[l], m)
  <2> HIDE DEF Good
  <2> QED BY <1>1, <1>7, <1>8
<1> QED BY <1>3, <1>9

\* In every state the invariant allows, the feedback is exact.
LEMMA ExactNow == FeedOK => FeedbackIsExact
<1> SUFFICES ASSUME FeedOK PROVE FeedbackIsExact
  OBVIOUS
<1>1. PICK m, u : UnsentIs(m, u)
  BY UnsentRow
<1>2. m \in Nat /\ u \in [1 .. m -> Int] /\ Unsent = u
  BY <1>1 DEF UnsentIs
<1>3. PICK ends : Cover(Drafts, u, m, ends)
  BY <1>1, AllCovered DEF Covered
<1> DEFINE fbs == Drafts
           l == Len(fbs)
           rs == [i \in DOMAIN Built |-> Read(Built[i])]
<1>4. Built = [i \in DOMAIN fbs |-> Closed(fbs[i].fb)]
  BY Zenon DEF Built, Drafts, ExtendAll
<1> HIDE DEF fbs
<1>5. /\ fbs \in Seq(Entry) /\ ends \in [0 .. l -> 0 .. m]
      /\ \A i \in 1 .. l : ends[i - 1] < ends[i] /\ Slice(fbs[i], u, ends[i - 1], ends[i])
  BY <1>3 DEF Cover, fbs
<1>6. l \in Nat /\ DOMAIN fbs = 1 .. l
  BY <1>5, LenProperties
<1> HIDE DEF l
<1>7. ASSUME NEW i \in 1 .. l
      PROVE  /\ Built[i] = Closed(fbs[i].fb) /\ Formed(Built[i])
             /\ Read(Built[i]) \in Seq(Saying) /\ Len(Read(Built[i])) = ends[i] - ends[i - 1]
             /\ \A k \in 1 .. ends[i] - ends[i - 1] : Says(Read(Built[i])[k], u[ends[i - 1] + k])
  <2> DEFINE lo == ends[i - 1]
             hi == ends[i]
  <2>1. i - 1 \in 0 .. l /\ i \in 0 .. l
    BY <1>6
  <2>2. lo \in Nat /\ hi \in Nat /\ lo < hi /\ Slice(fbs[i], u, lo, hi)
    BY <1>5, <2>1
  <2>3. Built[i] = Closed(fbs[i].fb)
    BY <1>4, <1>6
  <2> HIDE DEF lo, hi
  <2>4. /\ Formed(Closed(fbs[i].fb))
        /\ Read(Closed(fbs[i].fb)) \in Seq(Saying) /\ Len(Read(Closed(fbs[i].fb))) = hi - lo
        /\ \A k \in 1 .. hi - lo : Says(Read(Closed(fbs[i].fb))[k], u[lo + k])
    BY <2>2, ReadBack
  <2> QED BY <2>3, <2>4 DEF lo, hi
<1>8. DOMAIN Built = 1 .. l
  BY <1>4, <1>6
<1>9. rs \in Seq(Seq(Saying)) /\ Len(rs) = l /\ \A i \in 1 .. l : rs[i] = Read(Built[i])
  BY <1>6, <1>7, <1>8
<1> HIDE DEF rs
<1> DEFINE told == FlattenSeq(rs)
<1>10. told \in Seq(Saying) /\ Len(told) = m /\ \A k \in 1 .. m : Says(told[k], u[k])
  <2>1. Cover(fbs, u, m, ends) /\ Len(rs) = Len(fbs)
    BY <1>3, <1>9 DEF fbs, l
  <2>2. \A i \in 1 .. Len(fbs) :
          /\ Len(rs[i]) = ends[i] - ends[i - 1]
          /\ \A k \in 1 .. ends[i] - ends[i - 1] : Says(rs[i][k], u[ends[i - 1] + k])
    BY <1>7, <1>9 DEF l
  <2> QED BY <1>2, <1>9, <2>1, <2>2, SaidInAll
<1> HIDE DEF told
<1>11. Len(Unsent) = m
  BY <1>2
<1>12. ASSUME NEW k \in DOMAIN told
       PROVE  /\ told[k].wide = Wide(Unsent[k])
              /\ 2 * (told[k].time - Ring!Get(map, Unsent[k])) \in - Scale .. Scale
  <2>1. k \in 1 .. m
    BY <1>10, LenProperties
  <2>2. Says(told[k], Unsent[k])
    BY <1>2, <1>10, <2>1
  <2> QED BY <2>2, Zenon DEF Says, IsNear
<1>13. \A i \in DOMAIN Built : Formed(Built[i])
  BY <1>7, <1>8
<1>14. told = FlattenSeq([i \in DOMAIN Built |-> Read(Built[i])])
  BY DEF told, rs
<1>15. Len(told) = Len(Unsent)
  BY <1>10, <1>11
<1> QED BY <1>12, <1>13, <1>14, <1>15, Zenon DEF FeedbackIsExact

\* Whatever arrived in whatever order, the feedback a turn would send has the form of the
\* format and, read back, names the arrivals since the last, each once, in order, and with
\* its time to half a delta step (recorder.rs: splitting chunks and packets loses nothing).
THEOREM FeedbackStaysExact == Spec => []FeedbackIsExact
<1>1. FeedOK /\ [Next]_vars => FeedOK'
  BY FeedStep
<1> QED BY <1>1, ExactNow, FeedBegins, PTL DEF Spec
=============================================================================
