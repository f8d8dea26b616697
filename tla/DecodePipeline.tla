--------------------------- MODULE DecodePipeline ---------------------------
(***************************************************************************)
(* From the decode queue to the screen: the decode thread                   *)
(* (streaming/video/worker.rs), the textures it shares with the renderer    *)
(* (DirectVideoOutput, streaming/video/mod.rs), the pump thread that feeds  *)
(* it and collects its results (VideoReceiver::drain_decoder, run_session), *)
(* and the render thread (VitaSurface).                                     *)
(*                                                                          *)
(* A decoded frame travels through three slots that keep only the newest:   *)
(* latest_result, latest_frame of the session, latest_frame of the worker.  *)
(* The mutex of DirectVideoOutput is held from the choice of a texture to   *)
(* the end of the decoder call: the renderer's calls wait for it.           *)
(***************************************************************************)
EXTENDS Naturals, Sequences, FiniteSetsExt

CONSTANTS
    NumTextures,
    AdmitLimits,    \* what the scheduler may admit, by frame rate and boost
    Capacity,       \* MAX_PENDING_ACCESS_UNITS
    None, Err,      \* no value, and the error of a DecodeResult
    MaxUnits, MaxResyncs, MaxErrors \* bounds: submissions, resyncs, decoder failures

ASSUME PipelineAssumption ==
    /\ NumTextures \in Nat /\ NumTextures > 0
    /\ AdmitLimits \subseteq 1 .. Capacity /\ AdmitLimits # {} /\ Capacity \in Nat
    /\ {MaxUnits, MaxResyncs, MaxErrors} \subseteq Nat

Textures == 0 .. NumTextures - 1

\* DecodedFrame: a texture and the generation publish gave it.
Frame == [texture : Textures, stamp : Nat]

ASSUME NoneAssumption == None \notin Textures \cup Frame /\ Err \notin Frame /\ None # Err

VARIABLES
    queue,      \* access units waiting for the decoder, by generation
    commands,   \* DecoderCommands on their way
    generation, \* the current one
    output,     \* DirectVideoOutputState
    worker,     \* the decode thread
    result,     \* latest_result
    pump,       \* decode_errors of a drain under way, latest_frame of the session
    mailbox,    \* latest_frame, shared with the application
    surface,    \* VitaSurface and the frame of the streaming session
    picture,    \* history: the frame each texture holds
    spent       \* submissions, resyncs and failures so far

workerVars == <<worker, result>>
vars == <<queue, commands, generation, output, worker, result, pump, mailbox,
          surface, picture, spent>>

Init ==
    /\ queue = <<>>
    /\ commands = <<>>
    /\ generation = 0
    /\ output = [targets |-> FALSE, displayed |-> None, last |-> None, pending |-> None, stamp |-> 0]
    /\ worker = [at |-> "select", generation |-> 0, into |-> None, decoder |-> TRUE, report |-> None]
    /\ result = None
    /\ pump = [running |-> TRUE, errors |-> FALSE, frame |-> None]
    /\ mailbox = None
    /\ surface = [open |-> TRUE, attached |-> FALSE, frame |-> None, shown |-> 0]
    /\ picture = [i \in Textures |-> [stamp |-> 0, whole |-> FALSE]]
    /\ spent = [units |-> 0, resyncs |-> 0, errors |-> 0]

-----------------------------------------------------------------------------
(* The pump thread.                                                         *)

\* drain_decoder is one loop: nothing else of the pump runs inside it.
Pumping == pump.running /\ ~pump.errors

\* Admission of the scheduler, and try_send on the bounded channel.
Admitted(limit) == Len(queue) < limit /\ Len(queue) < Capacity

\* The scheduler's limit depends on the rate of the source and on recent bursts.
Submit ==
    /\ Pumping
    /\ spent.units < MaxUnits
    /\ spent' = [spent EXCEPT !.units = @ + 1]
    /\ \E limit \in AdmitLimits :
         queue' = IF Admitted(limit) THEN Append(queue, generation) ELSE queue
    /\ UNCHANGED <<commands, generation, output, workerVars, pump, mailbox, surface, picture>>

BeginResync ==
    /\ Pumping
    /\ spent.resyncs < MaxResyncs
    /\ spent' = [spent EXCEPT !.resyncs = @ + 1]
    /\ generation' = generation + 1
    /\ UNCHANGED <<queue, commands, output, workerVars, pump, mailbox, surface, picture>>

DrainResult ==
    /\ pump.running
    /\ result # None
    /\ result' = None
    /\ pump' = IF result = Err THEN [pump EXCEPT !.errors = TRUE]
                                 ELSE [pump EXCEPT !.frame = result]
    /\ UNCHANGED <<queue, commands, generation, output, worker, mailbox, surface, picture, spent>>

\* After the last result: reset_decoder if one of them was an error.
ResetDecoder ==
    /\ pump.running /\ pump.errors
    /\ result = None
    /\ pump' = [pump EXCEPT !.errors = FALSE]
    /\ generation' = generation + 1
    /\ commands' = Append(commands, "Reset")
    /\ UNCHANGED <<queue, output, workerVars, mailbox, surface, picture, spent>>

HandOver ==
    /\ Pumping
    /\ pump.frame # None
    /\ mailbox' = pump.frame
    /\ pump' = [pump EXCEPT !.frame = None]
    /\ UNCHANGED <<queue, commands, generation, output, workerVars, surface, picture, spent>>

\* run_session ends (told to stop, the peer closed, the socket failed): the RTC
\* thread drops its VideoDecodeWorker, whether or not the stream is still shown.
PumpStops ==
    /\ Pumping
    /\ pump' = [pump EXCEPT !.running = FALSE]
    /\ commands' = Append(commands, "Stop")
    /\ UNCHANGED <<queue, generation, output, workerVars, mailbox, surface, picture, spent>>

-----------------------------------------------------------------------------
(* The decode thread: run_decode_loop and decode_queued_access_unit.        *)

At(place) == worker.at = place

TakeCommand ==
    /\ At("select")
    /\ commands # <<>>
    /\ commands' = Tail(commands)
    /\ worker' = CASE Head(commands) = "Reset" -> [worker EXCEPT !.decoder = FALSE]
                   [] Head(commands) = "Stop"  -> [worker EXCEPT !.at = "stopped"]
    /\ UNCHANGED <<queue, generation, output, result, pump, mailbox, surface, picture, spent>>

\* select_biased looks at the commands first, and then, in a step of its own,
\* at the access units: a command sent in between is not seen.
NoCommand ==
    /\ At("select")
    /\ commands = <<>>
    /\ queue # <<>>
    /\ worker' = [worker EXCEPT !.at = "units"]
    /\ UNCHANGED <<queue, commands, generation, output, result, pump, mailbox, surface, picture, spent>>

MayFail == spent.errors < MaxErrors

Failed == spent' = [spent EXCEPT !.errors = @ + 1]

TakeUnit ==
    /\ At("units")
    /\ queue' = Tail(queue)
    /\ \/ /\ Head(queue) # generation
          /\ worker' = [worker EXCEPT !.at = "select"]
          /\ UNCHANGED spent
       \/ /\ Head(queue) = generation
          /\ worker' = [worker EXCEPT !.at = "lock", !.generation = generation, !.decoder = TRUE]
          /\ UNCHANGED spent
       \/ /\ Head(queue) = generation /\ ~worker.decoder
          /\ MayFail /\ Failed
          /\ worker' = [worker EXCEPT !.at = "report", !.report = Err]
    /\ UNCHANGED <<commands, generation, output, result, pump, mailbox, surface, picture>>

Pending(o) == IF o.pending = None THEN None ELSE o.pending.texture

\* A variant that takes the texture on display for the one before it.
FreeOnDisplay(o) == Textures \ {o.last, Pending(o)}

\* Neither on display, nor before that, nor waiting to be.
Free(o) == Textures \ {o.displayed, o.last, Pending(o)}

\* After the wait for the renderer, what was displayed before will do.
Reusable(o) == Textures \ {o.displayed, Pending(o)}

LockTarget ==
    /\ At("lock")
    /\ worker' = CASE ~output.targets -> [worker EXCEPT !.at = "select"]
                   [] output.targets /\ Free(output) # {} ->
                          [worker EXCEPT !.at = "decode", !.into = Min(Free(output))]
                   [] OTHER -> [worker EXCEPT !.at = "wait"]
    /\ UNCHANGED <<queue, commands, generation, output, result, pump, mailbox, surface, picture, spent>>

\* The wait for frame_displayed ends with a notification or the timeout; the
\* targets copied before it are not looked at again.
WaitEnds ==
    /\ At("wait")
    /\ worker' = IF Reusable(output) = {} THEN [worker EXCEPT !.at = "select"]
                 ELSE [worker EXCEPT !.at = "decode", !.into = Min(Reusable(output))]
    /\ UNCHANGED <<queue, commands, generation, output, result, pump, mailbox, surface, picture, spent>>

\* The call of the hardware: a picture, none yet, or an error that leaves the
\* texture half written.
Torn == [stamp |-> 0, whole |-> FALSE]
Unpublished == [stamp |-> 0, whole |-> TRUE]

DecodeTo(outcome) ==
    /\ At("decode")
    /\ worker' = [worker EXCEPT !.at = outcome]
    /\ picture' = CASE outcome = "picture"  -> [picture EXCEPT ![worker.into] = Unpublished]
                    [] outcome = "buffered" -> picture
                    [] outcome = "error"    -> [picture EXCEPT ![worker.into] = Torn]
    /\ IF outcome = "error" THEN MayFail /\ Failed ELSE UNCHANGED spent
    /\ UNCHANGED <<queue, commands, generation, output, result, pump, mailbox, surface>>

\* The generation is over: the outcome is dropped, an error too.
Abandon ==
    /\ worker.at \in {"picture", "buffered", "error"}
    /\ worker.generation # generation
    /\ worker' = [worker EXCEPT !.at = "select"]
    /\ UNCHANGED <<queue, commands, generation, output, result, pump, mailbox, surface, picture, spent>>

\* publish of the guard; publish_result follows in a step of its own.
Publish ==
    LET frame == [texture |-> worker.into, stamp |-> output.stamp + 1]
    IN  /\ At("picture")
        /\ worker.generation = generation
        /\ output' = [output EXCEPT !.stamp = @ + 1, !.pending = frame]
        /\ picture' = [picture EXCEPT ![worker.into].stamp = frame.stamp]
        /\ worker' = [worker EXCEPT !.at = "report", !.report = frame]
        /\ UNCHANGED <<queue, commands, generation, result, pump, mailbox, surface, spent>>

DecodeFails ==
    /\ At("error")
    /\ worker.generation = generation
    /\ worker' = [worker EXCEPT !.at = "report", !.report = Err, !.decoder = FALSE]
    /\ UNCHANGED <<queue, commands, generation, output, result, pump, mailbox, surface, picture, spent>>

Buffered ==
    /\ At("buffered")
    /\ worker.generation = generation
    /\ worker' = [worker EXCEPT !.at = "select"]
    /\ UNCHANGED <<queue, commands, generation, output, result, pump, mailbox, surface, picture, spent>>

\* A variant that does not replace what is still in the slot.
PublishResultIfEmpty ==
    /\ At("report")
    /\ result' = IF result = None THEN worker.report ELSE result
    /\ worker' = [worker EXCEPT !.at = "select", !.report = None]
    /\ UNCHANGED <<queue, commands, generation, output, pump, mailbox, surface, picture, spent>>

\* What is still in the slot is lost.
PublishResult ==
    /\ At("report")
    /\ result' = worker.report
    /\ worker' = [worker EXCEPT !.at = "select", !.report = None]
    /\ UNCHANGED <<queue, commands, generation, output, pump, mailbox, surface, picture, spent>>

-----------------------------------------------------------------------------
(* The render thread.                                                       *)

\* The mutex of the output is free: the decoder is not at work.
Unlocked == worker.at \notin {"decode", "picture", "buffered", "error"}

\* ensure_direct_video_output: create the textures, set_targets.
Attach ==
    /\ surface.open /\ ~surface.attached
    /\ Unlocked
    /\ surface' = [surface EXCEPT !.attached = TRUE, !.shown = 0]
    /\ output' = [output EXCEPT !.targets = TRUE, !.displayed = None, !.last = None, !.pending = None]
    /\ UNCHANGED <<queue, commands, generation, workerVars, pump, mailbox, picture, spent>>

\* drain_backend_events takes the newest frame.
TakeFrame ==
    /\ surface.open
    /\ mailbox # None
    /\ surface' = [surface EXCEPT !.frame = mailbox]
    /\ mailbox' = None
    /\ UNCHANGED <<queue, commands, generation, output, workerVars, pump, picture, spent>>

\* A variant that keeps the displayed frame pending.
MarkDisplayedStillPending(o, frame) ==
    [o EXCEPT !.last = o.displayed, !.displayed = frame.texture]

\* mark_displayed.
MarkDisplayed(o, frame) ==
    [o EXCEPT !.last = o.displayed, !.displayed = frame.texture,
              !.pending = IF @ = frame THEN None ELSE @]

\* sync_video_frame: a frame that was not shown yet goes on display.
SyncVideoFrame ==
    /\ surface.attached
    /\ surface.open
    /\ surface.frame # None
    /\ surface.frame.stamp # surface.shown
    /\ Unlocked
    /\ output' = MarkDisplayed(output, surface.frame)
    /\ surface' = [surface EXCEPT !.shown = surface.frame.stamp]
    /\ UNCHANGED <<queue, commands, generation, workerVars, pump, mailbox, picture, spent>>

\* The streaming session ends (exit_stream, an error).
Close ==
    /\ surface.open
    /\ surface' = [surface EXCEPT !.open = FALSE]
    /\ UNCHANGED <<queue, commands, generation, output, workerVars, pump, mailbox, picture, spent>>

\* detach_direct_video_output: clear_targets, then the textures are destroyed.
Detach ==
    /\ ~surface.open /\ surface.attached
    /\ Unlocked
    /\ surface' = [surface EXCEPT !.attached = FALSE, !.shown = 0]
    /\ output' = [output EXCEPT !.targets = FALSE, !.displayed = None, !.pending = None]
    /\ UNCHANGED <<queue, commands, generation, workerVars, pump, mailbox, picture, spent>>

-----------------------------------------------------------------------------
PumpNext == Submit \/ BeginResync \/ DrainResult \/ ResetDecoder \/ HandOver \/ PumpStops

Decode == \E outcome \in {"picture", "buffered", "error"} : DecodeTo(outcome)

WorkerNext ==
    \/ TakeCommand \/ NoCommand \/ TakeUnit \/ LockTarget \/ WaitEnds
    \/ Decode \/ Abandon \/ Publish \/ DecodeFails \/ Buffered \/ PublishResult

RenderNext == Attach \/ TakeFrame \/ SyncVideoFrame \/ Close \/ Detach

Next == PumpNext \/ WorkerNext \/ RenderNext

Spec == Init /\ [][Next]_vars

\* The three threads keep running: the pump drains and hands over every
\* millisecond, the decode loop never ends, and the shell draws every frame.
FairSpec ==
    /\ Spec
    /\ WF_vars(DrainResult) /\ WF_vars(ResetDecoder) /\ WF_vars(HandOver)
    /\ WF_vars(WorkerNext)
    /\ WF_vars(Attach) /\ WF_vars(TakeFrame) /\ WF_vars(SyncVideoFrame)

-----------------------------------------------------------------------------
Places == {"select", "units", "lock", "wait", "decode", "picture", "buffered", "error", "report", "stopped"}

OutputType ==
    [targets : BOOLEAN, displayed : Textures \cup {None}, last : Textures \cup {None},
     pending : Frame \cup {None}, stamp : Nat]

WorkerType ==
    [at : Places, generation : Nat, into : Textures \cup {None}, decoder : BOOLEAN,
     report : Frame \cup {None, Err}]

PumpType == [running : BOOLEAN, errors : BOOLEAN, frame : Frame \cup {None}]

SpentType == [units : Nat, resyncs : Nat, errors : Nat]

SurfaceType == [open : BOOLEAN, attached : BOOLEAN, frame : Frame \cup {None}, shown : Nat]

\* Every field holds a value of its type, and the queue is never longer than
\* the scheduler lets it grow (the channel itself never refuses a unit).
TypeOK ==
    /\ queue \in Seq(Nat) /\ Len(queue) <= Max(AdmitLimits)
    /\ commands \in Seq({"Reset", "Stop"})
    /\ generation \in Nat
    /\ output \in OutputType
    /\ worker \in WorkerType
    /\ result \in Frame \cup {None, Err}
    /\ pump \in PumpType
    /\ mailbox \in Frame \cup {None}
    /\ surface \in SurfaceType
    /\ picture \in [Textures -> [stamp : Nat, whole : BOOLEAN]]
    /\ spent \in SpentType

\* No tearing: whatever the decoder does, the texture on display keeps its
\* picture for as long as it stays on display.
NoTearing ==
    [][output.displayed # None /\ output'.displayed = output.displayed
           => picture'[output.displayed] = picture[output.displayed]]_vars

\* The places of a published frame that is not on display yet.
OnItsWay ==
    {worker.report, result, pump.frame, mailbox}
      \cup {f \in {surface.frame} : f # None /\ f.stamp # surface.shown}

\* As long as the decoder never failed (an error takes the place of a frame in
\* latest_result), the frame it keeps a texture for is somewhere between it and
\* the screen: pending_texture is never held for a frame that nobody has.
PendingIsOnItsWay ==
    output.pending # None /\ surface.open /\ spent.errors = 0 => output.pending \in OnItsWay

\* Every published frame is shown, or a newer one is, unless the decoder fails
\* or the stream ends, at the shell or in the RTC thread.
FramesReachTheScreen ==
    \A n \in 1 .. MaxUnits :
        output.stamp = n ~> (\/ surface.shown >= n \/ output.stamp > n \/ spent.errors > 0
                             \/ ~surface.open \/ ~pump.running)

\* "Do not decode until the renderer has registered its two GXM textures."
DecodesIntoLiveTexture == At("decode") => output.targets

=============================================================================
