------------------------------ MODULE MCReports ------------------------------
(***************************************************************************)
(* What the client tells the console of itself and of the network: the     *)
(* feedback on arrivals, the clocks behind the queue delay, the state of   *)
(* the controller, and the requests for keyframes and flushes.  They share *)
(* no state and are checked side by side: the initial state picks the one  *)
(* that goes on, the others stay as they begin.                            *)
(***************************************************************************)
EXTENDS TwccFeedback

CONSTANTS Wrap, Ambig, MediaTurn, Group, Span, RingSize, SendGaps, Delays, AstLead, MediaLead,
          MaxClocked,
          FrameTicks, Floor, KeepAlive, Refresh, Pulse, Hold, Stall, NoFrame,
          Never, Cooldown, StormWindow, StormThreshold, StormCooldown,
          Periodic, PeriodicEnabled, Grace, InitialInterval,
          DropThreshold, FlushSustain, FlushInterval, MaxDrops, MaxDisconnects

ASSUME IntervalsAssumption ==
    /\ FrameTicks \in Nat \ {0} /\ Stall \in Nat \ {0} /\ Pulse \in Nat \ {0} /\ Hold \in Nat \ {0}
    /\ Floor \in Nat /\ KeepAlive \in Nat /\ Refresh \in Nat \ {0}
    /\ Floor <= KeepAlive /\ KeepAlive <= Refresh       \* 4, 16 and 50 ms
    /\ NoFrame \notin [nexus : BOOLEAN, view : BOOLEAN, a : BOOLEAN]

ASSUME GovernorAssumption ==
    /\ {StormWindow, StormThreshold, Grace, InitialInterval, DropThreshold, FlushSustain,
        FlushInterval, MaxDrops, MaxDisconnects} \subseteq Nat
    /\ StormThreshold > 0
    /\ Cooldown \in Nat /\ Cooldown > 0 /\ StormCooldown \in Nat /\ StormCooldown >= Cooldown
    /\ Periodic \in Nat /\ Periodic > 0
    /\ PeriodicEnabled \in BOOLEAN

\* With the constants of session.rs three requests and two storm cooldowns fill the
\* window to the millisecond.
ASSUME StormAssumption == 2 * StormCooldown >= StormWindow

ASSUME NeverAssumption == Never \notin Nat

\* send_time.rs and queue_delay.rs: 64 s, 32 s, 5 ms, 10 s and 100 samples; rtp.rs: a
\* newer timestamp lies less than half a turn of the media clock ahead.
ASSUME TurnAssumption ==
    /\ Wrap \in Nat \ {0} /\ Ambig \in 0 .. Wrap - 1
    /\ Group \in Nat /\ Span \in Nat /\ RingSize \in Nat \ {0}
    /\ MediaTurn \in Nat \ {0} /\ MediaLead \in Nat
    /\ AstLead \in Nat /\ Delays \subseteq Nat
    /\ SendGaps \subseteq Nat /\ \A gap \in SendGaps : gap > 0 /\ 2 * gap < MediaTurn

VARIABLES
    part,
    sent, arrived, packets, began, stamped, origin, unwrapper, switch, q, ring, recent, steady,
    shifted,                                                            \* of Clocks
    a, back, paused, ignoreConfirm, phase, hold, relay, slot, pulses, pulse, lastSent, sentAge,
    lastGamepad, inputAge, ready, lag, console, quiet,       \* of InputPath
    asked, requests, watchdog, periodic, flush, link, said, losses  \* of KeyframeGovernor

Clock == INSTANCE Clocks WITH MaxPackets <- MaxClocked
Input == INSTANCE InputPath
Governor == INSTANCE KeyframeGovernor WITH last <- asked, recent <- requests, sent <- said

clockVars == <<sent, arrived, packets, began, stamped, origin, unwrapper, switch, q, ring,
               recent, steady, shifted>>
inputVars == <<a, back, paused, ignoreConfirm, phase, hold, relay, pulse, lastSent, sentAge,
               lastGamepad, inputAge, lag, console, slot, pulses, ready, quiet>>
governorVars == <<asked, requests, watchdog, periodic, flush, link, said, losses>>

mcVars == <<part, vars, clockVars, inputVars, governorVars>>

InInput == part = "input"

MCInit ==
    /\ part \in {"feedback", "clock", "input", "governor"}
    /\ Init /\ Clock!Init /\ Input!Init /\ Governor!Init
    /\ a => InInput

MCNext ==
    \/ part = "feedback" /\ Next /\ UNCHANGED <<part, clockVars, inputVars, governorVars>>
    \/ part = "clock" /\ Clock!Next /\ UNCHANGED <<part, vars, inputVars, governorVars>>
    \/ InInput /\ Input!Next /\ UNCHANGED <<part, vars, clockVars, governorVars>>
    \/ part = "governor" /\ Governor!Next /\ UNCHANGED <<part, vars, clockVars, inputVars>>

\* The controller's fairness; the feedback and the clocks ask for none.
InputFairness ==
    /\ WF_inputVars(InInput /\ Input!Pass)
    /\ WF_inputVars(InInput /\ Input!Tick)
    /\ WF_inputVars(InInput /\ Input!WorkerTurn)
    /\ SF_inputVars(InInput /\ Input!TurnReports("delivered"))

\* The pump turns every millisecond, the console sends its frames, and a connection
\* that is lost for a while comes back.
GovernorFairness ==
    /\ WF_governorVars(part = "governor" /\ Governor!Tick)
    /\ SF_governorVars(part = "governor" /\ Governor!FrameTurn)
    /\ WF_governorVars(part = "governor" /\ Governor!Connect)

MCSpec == MCInit /\ [][MCNext]_mcVars /\ InputFairness /\ GovernorFairness

-----------------------------------------------------------------------------
\* How far the next number and the next capture may lie: back, repeated, next, ahead.
SomeJumps == {-3, 0, 1, 5, 8}

\* The unwrapped send time stays on the sender's clock (send_time.rs).
SendTimeIsTrue == Clock!SendTimeIsTrue

\* Q is how far the delay lies above the lowest one of the window (queue_delay.rs).
QueueIsTheRise == Clock!QueueIsTheRise

\* While the stream is shown the console never goes without a report for long
\* (protocol.rs, input_throttled).
KeepsReporting == Input!KeepsReporting

\* A button the client presses by itself is released at the console (worker.rs, the
\* Guide pulse; shell/mod.rs, the replayed View).
OwnButtonIsReleased == Input!OwnButtonIsReleased

\* What the user holds in the end is what the console knows in the end.
StateArrives == Input!StateArrives

\* However often frames are damaged, the console is not swamped with requests for
\* keyframes (session.rs, request_keyframe).
NoKeyframeStorm == Governor!NoKeyframeStorm

\* A demand that meets the cooldown is dropped, not kept; still a receiver that holds
\* frames back gets its request through as long as frames come in (request_keyframe).
WaitingIsAsked == part = "governor" => Governor!WaitingIsAsked

\* A backlog of dropped frames is flushed in the end, once the connection stands
\* (maybe_flush_backlog).
BacklogIsFlushed == part = "governor" => Governor!BacklogIsFlushed
=============================================================================
