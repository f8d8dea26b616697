-------------------------- MODULE KeyframeGovernor --------------------------
(***************************************************************************)
(* When the session asks the console for a keyframe, and when it asks it to *)
(* reconfigure its encoder (RtcSession, src/api/streaming/rtc/session.rs):  *)
(* the cooldown and storm timers of request_keyframe, the watchdog for the  *)
(* first video packet, the periodic requests, maybe_flush_backlog.  A turn  *)
(* of the pump reads the packets, sees what the receiver demands and works  *)
(* through the timers; instants are kept as their age.                      *)
(***************************************************************************)
EXTENDS Naturals, FiniteSetsExt

CONSTANTS
    Never,
    Cooldown, StormWindow, StormThreshold, StormCooldown, \* KEYFRAME_*
    Periodic, PeriodicEnabled,                            \* PERIODIC_KEYFRAME_INTERVAL
    Grace, InitialInterval,                               \* INITIAL_VIDEO_*
    DropThreshold, FlushSustain, FlushInterval,           \* DROP_FLUSH_*, LAG_FLUSH_*
    MaxDrops, MaxDisconnects                              \* bounds

VARIABLES
    last,       \* age of last_keyframe_request, or Never
    recent,     \* ages of recent_keyframe_requests
    watchdog,   \* initial_video_watchdog_started_at, last_initial_video_keyframe_request
    periodic,   \* age of last_periodic_keyframe, or Never
    flush,      \* lag_high_since, last_lag_flush, drops since the last flush
    link,       \* connection state, received_packet, whether the receiver waits for an IDR
    sent,       \* what the last turn sent: governed PLI, periodic PLI, flush
    losses      \* drops and disconnections so far

vars == <<last, recent, watchdog, periodic, flush, link, sent, losses>>

Sent == [asked : BOOLEAN, periodic : BOOLEAN, flush : BOOLEAN]
Nothing == [asked |-> FALSE, periodic |-> FALSE, flush |-> FALSE]

Init ==
    /\ last = Never
    /\ recent = {}
    /\ watchdog = [started |-> Never, asked |-> Never]
    /\ periodic = Never
    /\ flush = [since |-> Never, last |-> Never, drops |-> 0]
    /\ link = [connected |-> FALSE, received |-> FALSE, waiting |-> FALSE]
    /\ sent = Nothing
    /\ losses = [drops |-> 0, disconnects |-> 0]

-----------------------------------------------------------------------------
\* An instant that was never, or long enough ago.
Elapsed(age, interval) == age = Never \/ age >= interval

\* A variant that restarts the measurement every turn.
StartedAgain(age) == 0

\* get_or_insert(now).
Started(age) == IF age = Never THEN 0 ELSE age

\* What comes in during the turn: nothing, a frame, a frame that cannot be
\* repaired, a keyframe.  The receiver demands a keyframe for the frame it has
\* to hold back (VideoRtp!Dispatch).
Inputs == {"nothing", "frame", "damage", "idr"}

StillWaiting(input) == input = "damage" \/ (link.waiting /\ input # "idr")

\* A variant that demands a keyframe only once per damaged frame.
DemandOnDamage(input) == input = "damage"

Demand(input) == input = "damage" \/ (link.waiting /\ input = "frame")

\* initial_video_keyframe_due.
WatchdogOn(received) == link.connected /\ ~received

WatchdogDue(received) ==
    /\ WatchdogOn(received)
    /\ Started(watchdog.started) >= Grace
    /\ Elapsed(watchdog.asked, InitialInterval)

WatchdogTurn(received) ==
    watchdog' = IF ~WatchdogOn(received) THEN [started |-> Never, asked |-> Never]
                ELSE [started |-> Started(watchdog.started),
                      asked   |-> IF WatchdogDue(received) THEN 0 ELSE watchdog.asked]

\* request_keyframe.
InWindow == {age \in recent : age < StormWindow}

\* A variant that calls it a storm one request later.
RequiredCooldownLate ==
    IF Cardinality(InWindow) > StormThreshold THEN StormCooldown ELSE Cooldown

RequiredCooldown ==
    IF Cardinality(InWindow) >= StormThreshold THEN StormCooldown ELSE Cooldown

MayRequest == Elapsed(last, RequiredCooldown)

RequestTurn(demanded) ==
    /\ recent' = IF ~demanded THEN recent
                 ELSE IF MayRequest THEN InWindow \cup {0} ELSE InWindow
    /\ last' = IF demanded /\ MayRequest THEN 0 ELSE last

\* periodic_keyframe: not subject to the cooldowns.
PeriodicDue == PeriodicEnabled /\ Elapsed(periodic, Periodic)

\* maybe_flush_backlog, on the drop count (LAG_FLUSH_ENABLED is off).
Eligible(drops) == drops >= DropThreshold

FlushDue(drops) ==
    /\ link.connected /\ Eligible(drops)
    /\ Started(flush.since) >= FlushSustain
    /\ Elapsed(flush.last, FlushInterval)

FlushTurn(drops) ==
    flush' = CASE ~link.connected -> [flush EXCEPT !.drops = drops]
               [] link.connected /\ ~Eligible(drops) -> [flush EXCEPT !.since = Never, !.drops = drops]
               [] FlushDue(drops) -> [since |-> Never, last |-> 0, drops |-> 0]
               [] OTHER -> [flush EXCEPT !.since = Started(@), !.drops = drops]

Turn(input) ==
    LET received == link.received \/ input # "nothing"
        drops    == flush.drops + IF input = "damage" THEN 1 ELSE 0
        demanded == Demand(input) \/ WatchdogDue(received)
    IN  /\ input # "nothing" => link.connected
        /\ input = "damage" => losses.drops < MaxDrops
        /\ losses' = [losses EXCEPT !.drops = IF input = "damage" THEN @ + 1 ELSE @]
        /\ link' = [link EXCEPT !.received = received, !.waiting = StillWaiting(input)]
        /\ WatchdogTurn(received)
        /\ RequestTurn(demanded)
        /\ periodic' = IF PeriodicDue THEN 0 ELSE periodic
        /\ FlushTurn(drops)
        /\ sent' = [asked    |-> demanded /\ MayRequest,
                    periodic |-> PeriodicDue,
                    flush    |-> FlushDue(drops)]

FrameTurn == Turn("frame")

\* OnConnectionStateChangeEvent.
Connect ==
    /\ ~link.connected
    /\ link' = [link EXCEPT !.connected = TRUE]
    /\ UNCHANGED <<last, recent, watchdog, periodic, flush, sent, losses>>

Disconnect ==
    /\ link.connected
    /\ losses.disconnects < MaxDisconnects
    /\ losses' = [losses EXCEPT !.disconnects = @ + 1]
    /\ link' = [link EXCEPT !.connected = FALSE]
    /\ UNCHANGED <<last, recent, watchdog, periodic, flush, sent>>

-----------------------------------------------------------------------------

\* Ages stop where no comparison tells them apart any more.
Older(age, limit) == IF age = Never \/ age >= limit THEN age ELSE age + 1

Tick ==
    /\ last' = Older(last, StormCooldown)
    /\ recent' = {Older(age, StormWindow) : age \in InWindow}
    /\ watchdog' = [started |-> Older(watchdog.started, Grace),
                    asked   |-> Older(watchdog.asked, InitialInterval)]
    /\ periodic' = Older(periodic, Periodic)
    /\ flush' = [flush EXCEPT !.since = Older(@, FlushSustain), !.last = Older(@, FlushInterval)]
    /\ sent' = Nothing
    /\ UNCHANGED <<link, losses>>

Next == (\E input \in Inputs : Turn(input)) \/ Connect \/ Disconnect \/ Tick

Spec == Init /\ [][Next]_vars

-----------------------------------------------------------------------------
Ages(limit) == 0 .. limit \cup {Never}

\* Ages are capped at what they are compared with.
TypeOK ==
    /\ last \in Ages(StormCooldown)
    /\ recent \in SUBSET (0 .. StormWindow)
    /\ watchdog \in [started : Ages(Grace), asked : Ages(InitialInterval)]
    /\ periodic \in Ages(Periodic)
    /\ flush \in [since : Ages(FlushSustain), last : Ages(FlushInterval), drops : Nat]
    /\ link \in [connected : BOOLEAN, received : BOOLEAN, waiting : BOOLEAN]
    /\ sent \in Sent
    /\ losses \in [drops : 0 .. MaxDrops, disconnects : 0 .. MaxDisconnects]

\* However often frames are damaged, the console is not swamped: no window of
\* KEYFRAME_STORM_WINDOW holds more than one request beyond the threshold.
NoKeyframeStorm == Cardinality(InWindow) <= StormThreshold + 1

\* A demand that meets the cooldown is dropped, not kept; still a receiver that
\* holds frames back gets its request through as long as frames come in.
WaitingIsAsked == link.waiting ~> (sent.asked \/ ~link.waiting)

\* A backlog of dropped frames is flushed in the end, once the connection stands.
BacklogIsFlushed == flush.drops >= DropThreshold ~> (sent.flush \/ ~link.connected)
=============================================================================
