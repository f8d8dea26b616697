------------------------------ MODULE AudioPath ------------------------------
(***************************************************************************)
(* The sound of a stream: from the audio receiver of the RTC session       *)
(* (rtc/rtp.rs, rtc/media.rs) through the channel of batches (worker.rs)   *)
(* and the application's frame (stream_session/session.rs, shell/mod.rs)   *)
(* to AudioRenderer, its decode thread and the SDL queue                   *)
(* (streaming/audio.rs).                                                   *)
(*                                                                         *)
(* Packets are counted, not told apart; lengths of sound are in units of   *)
(* the device's period.  The renderer outlives a stream: what its channels *)
(* hold when the user leaves is played at the start of the next one.       *)
(***************************************************************************)
EXTENDS Integers, SequencesExt, FiniteSetsExt

CONSTANTS MaxHeld,     \* MAX_PENDING_AUDIO_PACKETS
          MaxBatches,  \* MAX_PENDING_AUDIO_BATCHES
          MaxPackets,  \* MAX_PENDING_OPUS_PACKETS
          MaxPcm,      \* MAX_PENDING_PCM_BUFFERS
          Lengths,     \* what one Opus packet may last
          StartAt,     \* AUDIO_START_BUFFER_BYTES
          MaxQueued,   \* MAX_QUEUED_AUDIO_BYTES
          MaxBuilt,    \* bound: complete samples left in the sample builder
          MaxFaults    \* bound: deaths of the thread, refused packets, failed starts and queueings

VARIABLES streaming,  \* the application has a stream
          built,      \* complete samples in the sample builder
          held,       \* AudioReceiver::packets
          batches,    \* the channel to the application, as the batches' sizes
          frame,      \* where submit_packets is, and the packets it has still to send
          packets,    \* the channel to the decode thread
          decoder,    \* its thread: "idle", "dead", or "decoded" with sound to hand over
          pcm,        \* its channel of decoded sound
          sdl,        \* the SDL queue and AudioRenderer::started
          faults

stream == <<streaming, built, held, batches>>
thread == <<packets, decoder, pcm>>
vars == <<stream, frame, thread, sdl, faults>>

Idle == [at |-> "idle", left |-> 0]
Silenced == [playing |-> FALSE, queued |-> 0, started |-> FALSE]

\* What is kept before so much more is queued.
KeptFlag(q, n) == IF q.queued + n > MaxQueued THEN [Silenced EXCEPT !.started = q.started] ELSE q
Kept(q, n) == IF q.queued + n > MaxQueued THEN Silenced ELSE q

Fault == faults < MaxFaults /\ faults' = faults + 1

(***************************************************************************)
(* The session's thread.                                                   *)
(***************************************************************************)

\* AudioRtp::receive: a packet completes so many samples of the builder, none
\* while one before it is missing; those there is room for come out.
Receive(n) ==
    LET out == Min({built + n, MaxHeld - held}) IN
        /\ streaming
        /\ built + n - out <= MaxBuilt
        /\ built' = built + n - out
        /\ held' = held + out
        /\ UNCHANGED <<streaming, batches, frame, thread, sdl, faults>>

\* The turn of the worker: a batch that does not fit is lost.
HandOver ==
    /\ streaming /\ held > 0
    /\ held' = 0
    /\ batches' = IF Len(batches) < MaxBatches THEN Append(batches, held) ELSE batches
    /\ UNCHANGED <<streaming, built, frame, thread, sdl, faults>>

(***************************************************************************)
(* The application's frame, and the stream around it.                      *)
(***************************************************************************)

\* drain_backend_events and take_audio_packets; then submit_packets notices a
\* device that has run dry.
Submit ==
    /\ streaming /\ frame = Idle
    /\ frame' = [at |-> "sending", left |-> FoldSeq(+, 0, batches)]
    /\ batches' = <<>>
    /\ sdl' = IF sdl.started /\ sdl.queued = 0 THEN Silenced ELSE sdl
    /\ UNCHANGED <<streaming, built, held, thread, faults>>

\* restart_decode_worker: old channels and what is in them go, unless the new
\* thread cannot be had.  The packet at hand goes to the channel there is now.
Restart(packet) ==
    /\ sdl' = Silenced
    /\ \/ packets' = packet /\ decoder' = "idle" /\ pcm' = <<>> /\ UNCHANGED faults
       \/ Fault /\ UNCHANGED thread

\* One packet: a full channel drops it.
SendPacket ==
    /\ frame.at = "sending" /\ frame.left > 0
    /\ frame' = [frame EXCEPT !.left = @ - 1]
    /\ IF decoder = "dead"
       THEN Restart(1)
       ELSE packets' = Min({packets + 1, MaxPackets}) /\ UNCHANGED <<decoder, pcm, sdl, faults>>
    /\ UNCHANGED stream

PacketsSent ==
    /\ frame.at = "sending" /\ frame.left = 0
    /\ frame' = [frame EXCEPT !.at = "taking"]
    /\ UNCHANGED <<stream, thread, sdl, faults>>

Started(q) == IF ~q.started /\ q.queued >= StartAt
              THEN [q EXCEPT !.playing = TRUE, !.started = TRUE] ELSE q

\* One buffer: sound too far behind is thrown away first.
TakeBuffer ==
    /\ frame.at = "taking" /\ pcm # <<>>
    /\ pcm' = Tail(pcm)
    /\ LET kept == Kept(sdl, Head(pcm)) IN
        \/ /\ sdl' = Started([kept EXCEPT !.queued = @ + Head(pcm)])
           /\ UNCHANGED faults
        \/ Fault /\ sdl' = Started(kept)
    /\ UNCHANGED <<stream, frame, packets, decoder>>

NothingToTake ==
    /\ frame.at = "taking" /\ pcm = <<>>
    /\ frame' = Idle
    /\ IF decoder = "dead" THEN Restart(0) ELSE UNCHANGED <<thread, sdl, faults>>
    /\ UNCHANGED stream

\* The stream goes with its receiver and its channel, the renderer stays.
Leave ==
    /\ streaming /\ frame = Idle
    /\ streaming' = FALSE /\ built' = 0 /\ held' = 0 /\ batches' = <<>>
    /\ UNCHANGED <<frame, thread, sdl, faults>>

Enter ==
    /\ ~streaming
    /\ streaming' = TRUE
    /\ UNCHANGED <<built, held, batches, frame, thread, sdl, faults>>

(***************************************************************************)
(* The decode thread and the device.                                       *)
(***************************************************************************)

Decode ==
    /\ decoder = "idle" /\ packets > 0
    /\ packets' = packets - 1
    /\ \/ decoder' = "decoded" /\ UNCHANGED faults
       \/ Fault /\ UNCHANGED decoder
    /\ UNCHANGED <<stream, frame, pcm, sdl>>

\* A blocking send: it waits for the application's next frame.
PassOn ==
    /\ decoder = "decoded" /\ Len(pcm) < MaxPcm
    /\ \E n \in Lengths : pcm' = Append(pcm, n)
    /\ decoder' = "idle"
    /\ UNCHANGED <<stream, frame, packets, sdl, faults>>

\* The thread panics: its channel of packets goes, what it handed over stays.
Dies ==
    /\ decoder # "dead" /\ Fault
    /\ decoder' = "dead" /\ packets' = 0
    /\ UNCHANGED <<stream, frame, pcm, sdl>>

Play ==
    /\ sdl.playing /\ sdl.queued > 0
    /\ sdl' = [sdl EXCEPT !.queued = @ - 1]
    /\ UNCHANGED <<stream, frame, thread, faults>>

Init ==
    /\ streaming = TRUE /\ built = 0 /\ held = 0 /\ batches = <<>>
    /\ frame = Idle
    /\ packets = 0 /\ decoder = "idle" /\ pcm = <<>>
    /\ sdl = Silenced
    /\ faults = 0

Arrives == \E n \in 0 .. 2 : Receive(n)
FrameGoesOn == Submit \/ SendPacket \/ PacketsSent \/ TakeBuffer \/ NothingToTake
DecoderGoesOn == Decode \/ PassOn

Next == Arrives \/ HandOver \/ FrameGoesOn \/ Leave \/ Enter \/ DecoderGoesOn \/ Dies \/ Play

-----------------------------------------------------------------------------
\* While a stream lasts sound is played again and again, whatever was dropped,
\* thrown away as too late or lost with the decode thread: the flag and the device
\* never disagree so that the queue waits paused for ever (streaming/audio.rs).
SoundReturns == []<>(streaming => sdl.playing /\ sdl.queued > 0)
=============================================================================
