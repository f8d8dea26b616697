------------------------------ MODULE InputPath ------------------------------
(***************************************************************************)
(* The path of the controller's state to the console: the frame loop that  *)
(* samples it and turns a held Back into the pause overlay or a replayed   *)
(* View (shell/mod.rs), the streaming session's filter                     *)
(* (app/stream_session/session.rs), the sample slot and the Guide pulse of *)
(* the RTC worker (rtc/worker.rs), the throttle of the input channel       *)
(* (rtc/protocol.rs), and a data channel that may refuse or lose a report. *)
(*                                                                         *)
(* A tick is the sampling interval.  The frame loop makes one pass every   *)
(* FrameTicks ticks and may sample once more in each tick between two; the *)
(* worker turns at its own pace, once in Stall ticks at least.             *)
(***************************************************************************)
EXTENDS Integers

CONSTANTS FrameTicks,  \* TARGET_FRAME_TIME
          Floor,       \* INPUT_MIN_INTERVAL_CHANGED
          KeepAlive,   \* INPUT_MIN_INTERVAL
          Refresh,     \* GAMEPAD_REFRESH_INTERVAL
          Pulse,       \* GAMEPAD_PULSE_DURATION
          Hold,        \* PAUSE_HOLD_DURATION
          Stall,       \* bound: ticks the worker sleeps or works between two turns
          NoFrame

VARIABLES a, back,       \* what the user holds: A, which also confirms, and Back
          paused,        \* the overlay, or the settings over it, is on the screen
          ignoreConfirm, \* ignore_confirm_until_release
          phase,         \* of the frame loop: 0 when a pass is due
          hold,          \* back_hold_since, as an age
          relay,         \* relay_view_until, as a countdown
          slot,          \* latest_gamepad
          pulses,        \* gamepad_pulses is not empty
          pulse,         \* active_gamepad_pulse, as a countdown to its release
          lastSent, sentAge,        \* last_gamepad_sent
          lastGamepad, inputAge,    \* last_gamepad and last_input_sent_at of the protocol
          ready,         \* input_channel_ready
          lag,           \* ticks since the worker's last turn
          console,       \* the report the console received last
          quiet          \* history: ticks without a report though the input is sampled

user   == <<a, back>>
shell  == <<paused, ignoreConfirm, phase, hold, relay>>
worker == <<pulse, lastSent, sentAge, lastGamepad, inputAge, lag, console>>
vars == <<user, shell, worker, slot, pulses, ready, quiet>>

None == -1
Frames == [nexus : BOOLEAN, view : BOOLEAN, a : BOOLEAN]
Idle == [nexus |-> FALSE, view |-> FALSE, a |-> FALSE]

AtMost(bound, n) == IF n > bound THEN bound ELSE n

(***************************************************************************)
(* The user and the overlay.                                               *)
(***************************************************************************)

PressA ==
    /\ a' = ~a
    /\ UNCHANGED <<back, shell, worker, slot, pulses, ready, quiet>>

PressBack ==
    /\ back' = ~back
    /\ UNCHANGED <<a, shell, worker, slot, pulses, ready, quiet>>

Resume ==
    /\ paused /\ phase = 0
    /\ paused' = FALSE
    /\ UNCHANGED <<user, ignoreConfirm, phase, hold, relay, worker, slot, pulses, ready, quiet>>

\* PressGuideButton: the pulse is queued, and A, which chose the row of the overlay,
\* is not sampled until released.
PressGuide ==
    /\ paused /\ phase = 0
    /\ paused' = FALSE
    /\ ignoreConfirm' = TRUE
    /\ pulses' = TRUE
    /\ UNCHANGED <<a, back, phase, hold, relay, worker, slot, ready, quiet>>

(***************************************************************************)
(* The frame loop.                                                         *)
(***************************************************************************)

FrameWith(view) == [nexus |-> FALSE, view |-> view, a |-> a]

Suppressed == ignoreConfirm /\ a

\* send_stream_gamepad_state and StreamingSession::send_gamepad_frame; the
\* swap of shoulders and triggers is not told apart.
Sample(view) ==
    IF Suppressed THEN UNCHANGED <<slot, ignoreConfirm>>
    ELSE slot' = FrameWith(view) /\ ignoreConfirm' = FALSE

\* One pass while the stream is shown: Back is held or released, or a short
\* press is being replayed; then the state is sampled.
PassHeld ==
    /\ back /\ hold < Hold
    /\ hold' = IF hold = None THEN 0 ELSE hold
    /\ Sample(relay > 0)
    /\ UNCHANGED <<paused, relay>>

PassOpensOverlay ==
    /\ back /\ hold >= Hold
    /\ paused' = TRUE
    /\ hold' = None
    /\ relay' = 0
    /\ UNCHANGED <<slot, ignoreConfirm>>

Short == hold < Hold

PassReleased ==
    /\ ~back /\ hold # None
    /\ hold' = None
    /\ relay' = IF Short THEN hold ELSE relay
    /\ Sample(Short \/ relay > 0)
    /\ UNCHANGED paused

PassPlain ==
    /\ ~back /\ hold = None
    /\ Sample(relay > 0)
    /\ UNCHANGED <<paused, hold, relay>>

Pass ==
    /\ phase = 0
    /\ phase' = 1
    /\ \/ ~paused /\ (PassHeld \/ PassOpensOverlay \/ PassReleased \/ PassPlain)
       \/ paused /\ hold' = None /\ UNCHANGED <<paused, relay, slot, ignoreConfirm>>
    /\ UNCHANGED <<user, worker, pulses, ready, quiet>>

\* Between two passes the state is sampled without the replay.
SampleBetween ==
    /\ phase > 1 /\ ~paused
    /\ Sample(FALSE)
    /\ UNCHANGED <<user, paused, phase, hold, relay, worker, pulses, ready, quiet>>

(***************************************************************************)
(* The worker: one turn of run_session as far as the controller goes.      *)
(***************************************************************************)

\* The pulse this turn works on: a queued one starts anew.
Active == IF pulses THEN Pulse ELSE pulse

Latest == IF slot = NoFrame THEN Idle ELSE slot

Releases == Active = 0
Presses == Active > 0 /\ (pulses \/ slot # NoFrame)
Plain == Active = None /\ slot # NoFrame

Report == IF Presses THEN [Latest EXCEPT !.nexus = TRUE] ELSE Latest
Forced == Releases \/ (Presses /\ pulses)

UnchangedForEver == lastSent = Report
UnchangedAndFresh == lastSent = Report /\ sentAge < Refresh

\* input_throttled
Throttled == lastGamepad # NoFrame
                /\ inputAge < (IF lastGamepad # Report THEN Floor ELSE KeepAlive)

\* send_sampled_gamepad_frame gets as far as the data channel.
Attempts == /\ Releases \/ Presses \/ Plain
            /\ Forced \/ ~UnchangedAndFresh
            /\ ready /\ ~Throttled

Turn == /\ pulse' = IF Releases THEN None ELSE Active
        /\ pulses' = FALSE
        /\ slot' = NoFrame
        /\ lag' = 0
        /\ UNCHANGED <<user, shell, ready>>

TurnSilent ==
    /\ ~Attempts
    /\ Turn
    /\ UNCHANGED <<lastSent, sentAge, lastGamepad, inputAge, console, quiet>>

\* The data channel refuses the report, or the network loses or delivers it.
TurnReports(outcome) ==
    /\ Attempts
    /\ Turn
    /\ lastGamepad' = Report /\ inputAge' = 0
    /\ IF outcome = "refused" THEN UNCHANGED <<lastSent, sentAge>>
       ELSE lastSent' = Report /\ sentAge' = 0
    /\ console' = IF outcome = "delivered" THEN Report ELSE console
    /\ quiet' = 0

ChannelOpens ==
    /\ ~ready
    /\ ready' = TRUE
    /\ UNCHANGED <<user, shell, worker, slot, pulses, quiet>>

Sampling == ready /\ ~paused /\ ~ignoreConfirm

QuietBound == Refresh + FrameTicks + Stall - 1

Tick ==
    /\ phase # 0
    /\ lag < Stall
    /\ phase' = IF phase = FrameTicks THEN 0 ELSE phase + 1
    /\ hold' = IF hold = None THEN None ELSE AtMost(Hold, hold + 1)
    /\ relay' = IF relay = 0 THEN 0 ELSE relay - 1
    /\ pulse' = IF pulse > 0 THEN pulse - 1 ELSE pulse
    /\ sentAge' = AtMost(Refresh, sentAge + 1)
    /\ inputAge' = AtMost(KeepAlive, inputAge + 1)
    /\ lag' = lag + 1
    /\ quiet' = IF Sampling THEN AtMost(QuietBound + 1, quiet + 1) ELSE 0
    /\ UNCHANGED <<user, paused, ignoreConfirm, slot, pulses, lastSent, lastGamepad, ready, console>>

Init ==
    /\ a \in BOOLEAN /\ back = FALSE
    /\ paused = FALSE /\ ignoreConfirm = FALSE /\ phase = 0 /\ hold = None /\ relay = 0
    /\ slot = NoFrame /\ pulses = FALSE /\ pulse = None
    /\ lastSent = NoFrame /\ sentAge = Refresh
    /\ lastGamepad = NoFrame /\ inputAge = KeepAlive
    /\ ready = FALSE /\ lag = 0 /\ console = Idle /\ quiet = 0

Outcomes == {"refused", "lost", "delivered"}

WorkerTurn == TurnSilent \/ \E o \in Outcomes : TurnReports(o)
Next == \/ PressA \/ PressBack \/ Resume \/ PressGuide
        \/ Pass \/ SampleBetween \/ WorkerTurn \/ ChannelOpens \/ Tick

\* The frame loop, the worker and time go on; the network does not lose every report.
Fairness == /\ WF_vars(Pass) /\ WF_vars(Tick) /\ WF_vars(WorkerTurn)
            /\ SF_vars(TurnReports("delivered"))

Spec == Init /\ [][Next]_vars /\ Fairness

(***************************************************************************)
(* Properties.                                                             *)
(***************************************************************************)

\* While the stream is shown the console hears from the client all the time, as
\* its watchdog for input asks: the filter of unchanged samples, the throttle of
\* the channel and the two clocks never add up to a longer silence.
KeepsReporting == quiet <= QuietBound

\* A button the client presses by itself, Guide for the length of the pulse or
\* View for the length of the replay, does not stay down at the console, whatever
\* reports are refused or lost, unless the client falls silent or the user presses
\* Back again.
OwnButton == console.nexus \/ console.view
OwnButtonIsReleased == OwnButton ~> (~OwnButton \/ paused \/ ignoreConfirm \/ back)

\* What the user holds in the end is what the console knows in the end.
Settled == ready /\ ~paused /\ ~back /\ ~ignoreConfirm
StateArrives == \A held \in BOOLEAN :
    <>[](Settled /\ a = held) => <>[](console = [Idle EXCEPT !.a = held])

=============================================================================
