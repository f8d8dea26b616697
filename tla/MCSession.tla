------------------------------ MODULE MCSession ------------------------------
(***************************************************************************)
(* Three parts of a session: the handshake on the data channels, the       *)
(* worker thread with the application, and the sound.  They share no state *)
(* and are checked side by side: the initial state picks the one that goes *)
(* on, the others stay as they begin.                                      *)
(***************************************************************************)
EXTENDS Handshake, FiniteSets

CONSTANTS Local, Remote, MaxCommands, MaxEvents,                  \* of RtcWorker
          MaxHeld, MaxBatches, MaxPackets, MaxPcm, Lengths,       \* of AudioPath
          StartAt, MaxQueued, MaxBuilt, MaxFaults

ASSUME CapacitiesAssumption == MaxCommands \in Nat \ {0} /\ MaxEvents \in Nat \ {0}

ASSUME CandidatesAssumption ==
    /\ IsFiniteSet(Local) /\ IsFiniteSet(Remote)
    /\ Local \cap Remote = {} /\ {"stop", "pointer"} \cap Remote = {}

ASSUME SoundAssumption == \A n \in Lengths : n > 0 /\ StartAt + n <= MaxQueued

VARIABLES
    part,      \* the part that goes on
    thread, ending, commands, events, gathered, added, app, pending, post, poll, keepalive,
    seen, due, offered, posted, gone, lost,                             \* of RtcWorker
    streaming, built, held, batches, frame, packets, decoder, pcm, sdl, faults  \* of AudioPath

Worker == INSTANCE RtcWorker
Sound == INSTANCE AudioPath

workerVars == <<thread, ending, gathered, added, commands, events, app,
                pending, post, poll, keepalive, seen, due, offered, posted, gone, lost>>

soundVars == <<streaming, built, held, batches, frame, packets, decoder, pcm, sdl, faults>>

mcVars == <<part, vars, workerVars, soundVars>>

MCInit ==
    /\ part \in {"handshake", "worker", "sound"}
    /\ Init /\ Worker!Init /\ Sound!Init

MCNext ==
    \/ part = "handshake" /\ Next /\ UNCHANGED <<part, workerVars, soundVars>>
    \/ part = "worker" /\ Worker!Next /\ UNCHANGED <<part, vars, soundVars>>
    \/ part = "sound" /\ Sound!Next /\ UNCHANGED <<part, vars, workerVars>>

\* The worker's fairness; the handshake asks for none.
WorkerFairness ==
    /\ WF_workerVars(part = "worker" /\ Worker!ThreadGoesOn)
    /\ WF_workerVars(part = "worker" /\ Worker!AppGoesOn)
    /\ WF_workerVars(part = "worker" /\ Worker!KeepaliveEnds)
    /\ SF_workerVars(part = "worker" /\ Worker!KeepaliveEnds /\ keepalive' = "gone")
    /\ WF_workerVars(part = "worker" /\ Worker!TimerRunsOut)

\* The console's packets keep coming; threads, frames and the device go on.
SoundFairness ==
    /\ WF_soundVars(part = "sound" /\ \E n \in 1 .. 2 : Sound!Receive(n))
    /\ WF_soundVars(part = "sound" /\ Sound!HandOver)
    /\ WF_soundVars(part = "sound" /\ Sound!FrameGoesOn)
    /\ WF_soundVars(part = "sound" /\ Sound!DecoderGoesOn)
    /\ WF_soundVars(part = "sound" /\ Sound!Play)

MCSpec == MCInit /\ [][MCNext]_mcVars /\ WorkerFairness /\ SoundFairness

-----------------------------------------------------------------------------
\* While the stream lasts every candidate is on its way once, until a full channel
\* or a refused request loses it (worker.rs, playback.rs).
OnTheWay == Worker!OnTheWay

\* The thread ends after the application has dropped it, with or without room for
\* the Stop (drain_commands, send_important_event).
ThreadEnds == Worker!ThreadEnds

\* The application leaves a stream whose worker ended by itself, through a full channel
\* of events too (send_important_event), and one whose session the service ended, though
\* the media connection says nothing (playback.rs).
EndIsSeen == Worker!EndIsSeen

\* While a stream lasts sound is played again and again (streaming/audio.rs).
SoundReturns == part = "sound" => Sound!SoundReturns
=============================================================================
