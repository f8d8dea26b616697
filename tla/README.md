# Verification of green-vita

green-vita is an Xbox remote-play and cloud-gaming client for the PS Vita. This
directory holds TLA+ models of what is hard to test in it: the path of a video
frame from the UDP socket to the screen with the machinery that repairs it, the
sound, the feedback and the input sent back to the console, the threads and
channels of a session, the application's screens and jobs, the saved login and
the title list; the TLC configurations that check the models on small instances;
and proofs that TLAPS checks for every value of the constants.

Paths below are relative to the crate's `src/` unless they start with `docs/`.

## 1. The system

### Parts, state, operations

| Part | Source | State | Operations |
|---|---|---|---|
| Access-unit assembler | `pipeline/media/assembler.rs` | open unit, one parked unit with its deadline, queue of outcomes, anchors (`last_closed_seq`, `last_resolved_ts`), NACK side channel | `push`, `flush_due`, `poll_outcome`, `take_nack_ranges` |
| `VideoRtp` | `api/streaming/rtc/rtp.rs` | waiting for an IDR, stream too large, damage score, pending NACKs | `receive`, `receive_rtx`, `flush_expired`, and per outcome `dispatch_new_authority`, `finish_au`, `record_damage` |
| Receivers | `api/streaming/rtc/media.rs` | newest frame, packets of sound, statistics | `receive`, `drain_decoder`, `send_nack`, `send_twcc`, `send_rr`, `send_remb` |
| RTC session | `api/streaming/rtc/session.rs` | keyframe timers, watchdog, backlog timer, connection state | `pump`, one turn about every millisecond |
| RTC worker | `api/streaming/rtc/worker.rs` | channels of commands, events and sound, newest frame, gamepad sample and pulses | `run_session` on its own thread, handles for the application |
| Decode worker | `streaming/video/worker.rs`, `pipeline/decode/scheduler.rs` | unit queue, command queue, generation, `latest_result` | `submit_access_unit`, `begin_resync`, `reset_decoder`; the decode loop on its own thread |
| Direct video output | `streaming/video/mod.rs` | targets, displayed, last displayed and pending texture | `set_targets`, `clear_targets`, `lock_decode_target`, `publish`, `mark_displayed` |
| Surface | `shell/surface.rs` | the textures, the frame shown last | `sync_video_frame`, attach, detach, on the render thread |
| Audio output | `streaming/audio.rs` | channels to and from a decode thread, the SDL queue, `started` | `submit_packets`, restart of the thread |
| Streaming session | `app/stream_session/*` | newest frame, sound, candidates, keepalive, stage of the connection attempt | `drain_backend_events`, the maintenance tick, start and end of a stream |
| Xbox control | `api_xbox/streaming/*` | channels, handshake stage, throttle of the input | data-channel messages, gamepad and pointer packets |
| Application | `app/*`, `settings.rs`, `shell/netprobe.rs` | one state of `AppState` with its background job, settings form, bandwidth probe | commands, ticks |
| Sign-in | `api_xbox/auth.rs` | token file, key in Safe Memory, token in memory and in the clones of jobs | load, refresh, save, clear |
| Catalog | `api/catalog/*`, `app/titles.rs` | titles, what is pending, queues of a worker thread | ticks, jobs, results |
| TWCC, reception statistics, clocks | `api/streaming/rtc/twcc/*`, `reception_stats.rs`, `pipeline/clock/*` | circular arrival map, FIFO of stamps, windows | feedback packets, receiver reports, delay estimates |
| Shell | `shell/mod.rs` | hold of Back, replay of View | the frame loop |

Threads and how they meet. The **pump** thread (tokio, single threaded) turns
`RtcSession::pump`: packets go through `VideoRtp` into the assembler, outcomes
come back, units are submitted to the decode queue. The **decode** thread takes
units from a bounded channel and commands from another, and writes into a
texture under the mutex of `DirectVideoOutput`. The **render** thread is the
application: it ticks the state machine, drains the worker's events, picks the
newest frame and puts it on display, samples the pad and feeds the sound. A
decoded frame crosses three slots that keep only the newest value
(`latest_result`, `latest_frame` of the session, `latest_frame` of the worker);
sound crosses four bounded queues and a second decode thread. The catalog has a
thread, each bandwidth probe has one; everything else that waits for the network
is a task of the application's runtime, which hands its result over when a tick
finds it finished, and may outlive the screen that started it.

### What is hard

* loss, reordering and repair of packets on circular sequence numbers and
  timestamps, with two timers (12 ms fill window, 40 ms grace) and one parked unit;
* outcomes that come out of one call in several pieces and have to be handled
  in decode order;
* an IDR as the only way out of damage: every path that drops a frame has to
  ask for one, and everything queued for the old chain has to go;
* three threads, a generation counter read without a lock, a condition
  variable with a timeout, textures that are destroyed while the decoder waits;
* requests to the console that are limited by two timers and dropped, not
  kept, when they meet the limit;
* bounded channels with lossy and with blocking sends in opposite directions,
  and an end of the session that either side, or the service, may begin;
* jobs that outlive their screen, and come back with a clone of the login or
  leave a session at the service;
* a file and a key that have to agree over crashes and failing storage;
* arithmetic on three circles: transport-wide numbers, send times of 24 bits,
  a ring of arrivals that grows and moves.

### What makes each part correct

* assembler: a unit handed out as Complete is the whole frame; a damaged one is
  not; nothing passes a parked unit; a NACK names what is missing, once; no
  marked unit is held for ever; frames leave in decode order;
* receiver: nothing of a broken chain is decoded while an IDR is awaited, or,
  under the Quality policy, ever; nothing too large reaches the decoder; no
  frame is dropped in silence;
* decode pipeline: no texture on display is written; each frame published is
  shown or superseded; the decoder gets no texture that is gone;
* governor: no storm of requests, but every demand and every backlog answered;
* session: one handshake; each candidate on its way once; an end is seen by
  both sides; sound comes back after every loss;
* reports: feedback and receiver report decode to what arrived; the delay
  estimate is on the right clock; the console never goes without input for long
  and ends with the state the user holds;
* application: no orphaned session survives the next start, no screen that waits
  for one job waits for ever, the settings form keeps its focus on a row, a probe leads to advice;
* login and list: disk and memory agree, no plaintext stays
  unless its removal and a save both failed, what is pending is
  on its way once, nothing of another locale is shown.

`PROJECT.json` lists the hazards one by one with the properties that cover them.

## 2. The modules

| Module | Models | Extends |
|---|---|---|
| `SeqSpace` | distance, bounds, holes and missing ranges on a circle of sequence numbers | |
| `AccessUnits` | the assembler's methods as operators on its state | `SeqSpace` |
| `Assembler` | the assembler with a network that may do anything, and its properties | `AccessUnits` |
| `AuOrder` | abstract: each frame once, in timestamp order | |
| `RepairLink` | the assembler with in-order lossy delivery, NACKs, retransmissions and the pump | `Assembler` |
| `VideoRtp` | the receiver on the assembler's operators, with network and decode queue | `AccessUnits` |
| `DecodePipeline` | pump, decode and render threads from the unit queue to the screen | |
| `KeyframeGovernor` | the timers of `RtcSession` | |
| `Handshake` | the control conversation on the data channels | |
| `RtcWorker` | worker thread and application, their channels, candidates, keepalive, the end | |
| `AudioPath` | sound from the receiver to the device | |
| `TwccFeedback` | stamping, recording and reporting of arrivals, receiver reports | uses `ArrivalMap` |
| `ArrivalMap` | the ring of arrival times, as operators on a record | |
| `ArrivalLedger` | abstract: the first arrival of a number is kept until it is reported | |
| `Clocks` | send times, media clock and queue-delay estimator | |
| `InputPath` | the controller's state from the frame loop to the console | |
| `AppStates` | the screens, their jobs, the sessions at the service | |
| `CapAdvisor` | the settings form, its file, the bandwidth probe | |
| `TokenStore` | the saved login with the jobs that use it | |
| `Catalog` | the title list and its worker | |
| `MCAssembler`, `MCRepairLink`, `MCVideoRtp`, `MCSession`, `MCReports`, `MCApp`, `MCFront` | streams and combinations for TLC | |
| `AccessUnits_proofs`, `Assembler_proofs`, `VideoRtp_proofs`, `DecodePipeline_proofs`, `Session_proofs`, `Reports_proofs`, `App_proofs`, `Front_proofs` | lemmas and theorems, each about the module or the combination it is named after | |

Composition. `Assembler` puts `AccessUnits` under any network, `RepairLink` under
the real one and `VideoRtp` under the receiver; `DecodePipeline` begins where
`VideoRtp` ends, at the decode queue. `MCSession`, `MCReports`, `MCApp` and
`MCFront` put parts that share no state side by side: a variable the initial
state chooses (`part`, `inForm`, `inList`) says which of them goes on, and the
others stay as they begin. Each run is thus the union of independent checks, not
their product, and every property is conditioned on its part by that variable
alone. `MCReports` has four parts: feedback, clocks, input and the keyframe
governor. Whether the assembler has the grace slot is a field of its state
(`graceEnabled`, chosen by the constructor), so that the run `repair` covers both.

### SeqSpace and AccessUnits

A unit's packets are the set of their sequence numbers. `FirstSeq` is
`modular_anchor`, `LastSeq` the other end of `seq_bounds_of`, `Missing` counts
what `compute_holes` counts and `MissingRanges` is `compute_missing_ranges`.
A packet is a record of what the assembler looks at: number, timestamp, marker,
whether it starts a NAL, whether it belongs to an IDR, whether it can be
depacketized, its length. Instants are ages or countdowns in ticks, and both
time windows are constants. The assembler (`AssemblerType`) is a record with the
fields of the struct: `cur`, `queue`, `lastClosed`, `prevClose`, `lastTs`,
`parked`, `nacks`.

`PushPacket` follows `push` from top to bottom: `ExpireIfDue`, `FillsParked` /
`FillParked`, `TooLate` (rule 4 and the older timestamp), `ForceOut` with its
two doors into the parking place, `Collect`, `SeeMarker`, and `Settle`, which
completes, parks for a leading loss, discards an oversize unit, or returns what
the queue holds. `FlushDue`, `PollOutcome` and `TakeNackRanges` are the other
three methods. Each returns the assembler after the call and at most one outcome.

Left out: counters, `nal_ref_idc`, the bytes of a unit. A unit's length is the
sum of its packets', the test `build_annex_b` applies to its output.

### Assembler and RepairLink

`Assembler` calls the methods in any order the receiver may (drain after every
push) with any packet of the stream at any time: loss, duplication, reordering
and late repair are all of that shape. `RepairLink` restricts this to the
network the code was written for: packets in order or lost, a packet asked for
retransmitted at any later time or lost again; the pump turns before time passes (`NothingDue`). Its `got` and `resolved` are history variables, as is
`slotUsed` of `Assembler`: a unit has been parked. `lastOut` keeps the last outcome
handed out before that. A retransmission is a packet that reaches `receive_rtx`; what `rtx_interceptor.rs`
does not map to the video stream is one lost on the link.

### VideoRtp

One call of the pump thread (`Receive`, `ReceiveRtx`, `FlushExpired`) works on
the assembler and leaves the outcomes to dispatch in `turn.todo`; `Dispatch`
handles one of them (`Finish`, `Abandon`, `Invalid`). Only the decode thread
moves between two dispatches, taking units from the queue. `AuthorityBlock`
keeps the order of the code: the queue is drained before `direct`. A resync
ends the generation, and `decoder.queue` holds each unit with the generation it
was submitted in. The policy is one of the three from the start of a stream on.
The SPS of a unit is given by the constant `Resolution`. `QueueNacks` drops the
oldest ranges over the budget, `SendNack` names what fits into one packet.

### DecodePipeline

The decode loop is cut where another thread can come in: the two looks of
`select_biased` (`TakeCommand`/`NoCommand`, `TakeUnit`), the choice of a texture,
its wait, the hardware call, the second look at the generation, `publish`, and
`publish_result`. The mutex of the output is held from the choice to the end of
the call (`Unlocked`), but not during the wait. `picture` is a history variable:
what each texture holds, by generation of the publication. The stream ends at the
shell (`Close`) or in the RTC thread (`PumpStops`: told to stop, the peer closed, the
socket failed), in either order.
Admission is a choice among limits (`AdmitLimits`): the code derives it from the
frame rate and recent bursts.

### KeyframeGovernor

Ages replace instants. A `Turn` is one `pump` as far as keyframes go: whether a
frame came in, one that could not be repaired, or a keyframe; what the receiver
then demands; the watchdog, the request with its cooldown and storm window, the
periodic request, the backlog flush.

### Handshake

One action per callback of `protocol.rs`: a channel opens, a text or a message
of metadata arrives, a keyframe or a flush is asked for. `message` and `control`
are what the console has been sent; a word for a channel that is not open is
lost, with its result ignored as in `control/channel.rs`. `Startup` is the group
of messages that answers the acknowledgement.

### RtcWorker

The thread negotiates, turns, reports an important event (a blocking send:
`thread = "reporting"` until there is room or the application has dropped its
end) and ends. `Turn` drains the commands, pumps and sends lossy events in the
order of `run_session`. The application's `Tick` is `maintain_stream`: it drains
the events, starts the post of candidates, the poll for the console's and the
keepalive, and leaves the stream on an end, an error or a keepalive that finds
the session gone. `Drop` sends the Stop that may not fit. `lost` is a history
variable. Candidates are model values; the service offers the console's one by
one.

### AudioPath

`Receive` pops what the sample builder has complete, as far as there is room;
`HandOver` is the worker's lossy send of a batch. `Submit` begins the
application's frame, `SendPacket` and `TakeBuffer` are the two loops of
`submit_packets` with the decode thread and the device between any two of their
steps, `Restart` is `restart_decode_worker`, which may fail and is tried again
the next frame. `sdl.playing` is the device, `sdl.started` the renderer's flag:
the code has to keep them equal. The renderer outlives a stream (`Leave`,
`Enter`). Packets are counted; a length of sound is in periods of the device.
The decode thread may die, a packet may be refused by Opus, a buffer by SDL:
together `MaxFaults` times.

### TwccFeedback, ArrivalMap, ArrivalLedger

`CapturePrimary` and `CaptureRtx` are the socket's side (stamp and FIFO),
`ReceivePrimary` and `ReceiveRtx` the peer's, in between a datagram may fail
SRTP (`SrtpDrops`) or overtake another. `Stamp` follows `take_twcc_arrival`.
The recorder's numbers are unwrapped and go into `ArrivalMap`, a ring whose
capacity doubles and halves as the code's does, cells left over from an earlier
turn included. `Built` is what `send_twcc` would send: chunks of three kinds,
deltas, packets split where a delta does not fit; `Read` is how the console
decodes it (RFC text, external), `Formed` what the format has bits for.
`ChunkAssumption` states the proportions of the code's sizes (7, 14 and 8191
symbols, deltas of one and two bytes, a reference time of 64 ms). `ArrivalLedger` is what a reader of the
recorder relies on: a function from numbers to times in which nothing changes
or goes before it was reported, except by a number `MaxPackets` higher;
`KeepsTheLedger` is the refinement. `rr` holds the numbers of the receiver report.

### Clocks

One step is a packet of a newer RTP timestamp, with the 24-bit stamp of the sender or
without. `Unwrapped` makes 64 bits of the stamp, `Media` is the RTP timestamp as the
code uses it, wrapping and never unwrapped, `Switched` the hand-over from one clock to
the other at the first stamp; a packet without a stamp falls back to the raw media
clock at any time. `Estimate` is the grouping and the ring of samples with its minimum.
`recent`, `began`, `stamped`, `steady` and `shifted` are history variables: the delays
of the window, the true times of the first and the last stamped packet, whether nothing
broke the sums, and whether a wrapped ring was moved. `steady` ends (`KeepsPace`) with a
stamp more than half a turn after the one before it and with a packet timed by the media
clock once that clock has wrapped, for then the code's own send times jump; with packets
that share a group; and with a flush, after which arrivals count anew. `Remember` keeps,
of the last `RingSize` delays, those after the last one that lies before the span.

### InputPath

A tick is the sampling interval. `Pass` is one pass of the frame loop (pad
sample, hold of Back, replay of View), `SampleBetween` a sample between two
frames, `WorkerTurn` the worker's: `TurnReports` sends, is refused, or the
report is lost. Countdown and ages stand for the instants of Guide pulse, last
report and keepalive. Of the pad the model keeps A (which also confirms a menu),
Back, View and Nexus.

### AppStates

The application is one thread: a command or a tick is one action. `Tick` is
`App::tick` for the screen shown; `Command` the union of what a user can do
there; `Task` the jobs between two requests to the service. `server` is what the
service holds: each session is unused, ended, listed at one endpoint, or still on its way from
a start request whose start was aborted (`LatePlays`).
`StartLists`, `StartStops`, `StartPlays` are the steps of a start with its
clean-up; a poll whose screen is gone goes on (`poll`). `refused` and `unswept`
are history variables: what the service itself refused, and what it made late.

### CapAdvisor

The form's rows (`Rows`) depend on the locale list, the debug mode and the game
it was opened from; touch, pad and commands move the focus, toggle and save.
Probes run on threads of their own and meet in a mailbox that every tick
empties; `boots` counts restarts, over which only the file stays.

### TokenStore

`disk` is the file and the key. `Persisted`, `PersistFails`, `Cleared`, `Load`
and `Migrate` are sets of what may become of them, one element for each point at
which the storage can fail, the removals whose result the code ignores included
(`auth.rs:194`, 203, 236, `main.rs:45`); `PersistDies` adds the points at which the
application can die. `faults` is a history variable: what has failed since the start,
a save or a read, the removal of a plaintext or unreadable file, a logout that cleared
neither file nor key, or the service's grant. `Refresh` is `refresh_user_token` for whichever job calls
it. Jobs own clones (`signIn`, `loader`, `poll`, and `late` for one whose handle
was dropped) and hand them back in a tick. A token stands for its account.

### Catalog

`Tick` is what `app/titles.rs` does once a frame (results, then metadata, covers
and icons near the selection, with a budget per tick); `Worker` takes one job,
the urgent queue first, and blocks on the channel of results; `PanicJob` is a
job that panics, after which its title stays pending; `SetLocale` and `SignIn` replace the
worker. Details, covers and icons carry the locale they were asked for in; details that
are not there are told apart: "empty" of a title without metadata, "failed" after a
request that failed.

## 3. The runs

| Run | Shows | Bounds |
|---|---|---|
| `assembler_wrap` | `CompleteIsWholeFrame` | circle of 8 numbers, 3 packets over the wrap, 2 after it, 3 of an oversize frame; window 1, grace 2, at most 2 outcomes behind the parked unit |
| `repair` | with grace and without: `DamagedIsIncomplete`, `NackNamesOnlyMissing`, `UnitsMoveOn`; until a unit is first parked: `NeverAsksForReceived`, `AskedOnce`, `InOrder` | frames of 4 and 3 packets, window 1, grace 1, leads of 2 at most |
| `video_rtp` | `TooLargeIsWaiting`, `WaitingIsFlushed`, `ArtefactFree`, `DropsAskForKeyframe` | four frames (one too large, one IDR, one malformed), damage limit 2, 2 numbers pending and per NACK, one decoder error, three policies |
| `decode_pipeline` | `NoTearing`, `PendingIsOnItsWay`, `FramesReachTheScreen` | 3 textures, 4 units, 1 resync, 1 decoder error |
| `app_states` | `OrphansAreSwept`, `EndedStreamIsLeft`, `ScreensMoveOn`; `FocusIsOnARow`, `AdviceComes` | 2 sessions, 2 failures of a poll in a row; 2 probes, 1 restart |
| `session` | `ShakesOnce`; `OnTheWay`, `ThreadEnds`, `EndIsSeen`; `SoundReturns` | 3 messages, 3 flushes; 2 local candidates, 1 remote, room for 1 command and 2 events; every channel of sound as short as it can be, start level 2, limit 4, 2 faults |
| `reports` | `FeedbackIsExact`, `KeepsTheLedger`, `LossIsWhatIsMissing`; `SendTimeIsTrue`, `QueueIsTheRise`; `KeepsReporting`, `OwnButtonIsReleased`, `StateArrives`; `NoKeyframeStorm`, `WaitingIsAsked`, `BacklogIsFlushed` | 3 datagrams with jumps of -3 to 8 in a window of 12, 2 feedbacks; 4 packets, stamps that turn at 16 and a media clock that turns at 24, ring of 3; pulse 3, hold 2, keepalive 2; window of requests 8, storm cooldown 4, cooldown 1, 3 drops, 1 disconnection |
| `front` | `DiskFollowsMemory`, `NoPlaintext`; `PendingIsOnItsWay`, `DetailsMatchLocale`, `SelectedIsShown` | 2 accounts, 2 keys; 4 titles, two of them listed by the service, queues of 1, 2 locales, 1 panic |
| `video_full`, `decode_freed`, `feedback_stamps`, `parked_order` | the disagreements of section 5 | the smallest streams that show them; for `parked_order` frames of 4 and 2 packets |

Why these bounds. The assembler compares a packet with at most the open and the
parked unit and with the timestamp resolved last, so that two or three frames
give it every combination; three packets let a frame lose its first, middle or
last one; sequence numbers on a circle of 8 or 16 wrap as those of 65536 do, as
long as a frame is shorter than half of it. The stream of `assembler_wrap`
starts two numbers before the wrap, and the timestamp wraps with it. Time is
relevant only against the window, the grace and each other. The pipeline needs
three textures as in the code; a fourth unit finds all of them taken. The
governor keeps the proportions of the code: two storm cooldowns fill the window,
more requests than the threshold fit into it. Channels are as short as lets
them be full and not full with something else in flight. Two sessions are one to
orphan and one to play. The feedback's jumps go back, repeat, follow, leave a
hole and leave the ring; its delta limits are small enough that each of the
chunk and delta kinds occurs. Either clock wraps within the four packets. Ratios that
matter are kept: the sound's start level and the longest packet together stay
below its limit, as 80 ms and 120 ms stay below 240 ms (`MCSession!SoundAssumption`).

In `repair` with grace on, a retransmission may arrive after its unit was
resolved and open the timestamp again (section 5), so that a frame can have
several outcomes; `DamagedIsIncomplete` speaks of the first, and with grace it takes
`LeadsAreShort`: every frame longer than the longest leading loss that is asked for, as
in `repair` (section 5 says what happens otherwise; the code asks for 32 at most). `NackNamesOnlyMissing`
says of every range asked for that it ends just below a packet of a unit, open, parked
or just handed out, that lacks all of the range: behind a network that may do anything,
a frame can be open twice, and what one of its units lacks the other may hold. `AskedOnce`,
`NeverAsksForReceived` and `InOrder` hold until a unit is first parked, which without the
slot is for ever: from then on a straggler may open a resolved frame again. `ArtefactFree` is
checked with a decode queue that does not fill; `video_full` shows what happens
when it does. It speaks of damaged frames: a discarded (malformed or oversize)
one does not end the chain in any policy. `DiskFollowsMemory` names its
exceptions: a storage or service that failed, and an account logged out while a
detached poll held it, which writes its token back; `NoPlaintext` one: a removal and a
save or read that both failed. `OrphansAreSwept` leaves out what the service refused to
list or to stop, and a start request that was still under way when its start was aborted
and made its session later. `ScreensMoveOn` is about the screens that wait for one job:
the sign-in renews an expired code, and a connecting stream stands in the service's queue,
for as long as it takes. `SelectedIsShown` leaves out a title whose one request for details
failed (section 5).

### Fairness

* `RepairLink!FairLinkSpec`: the pump's flush, poll and clock are weakly fair:
  `drain_decoder` calls `flush_expired` on every turn of `run_session`, which
  sleeps a millisecond at most. The network owes nothing: no packet need arrive.
* `DecodePipeline!FairSpec`: the drain, the reset after it and the hand-over of
  the pump (each turn), the decode loop (it never ends before `Stop`), and the
  render loop's three steps (each frame drawn) are weakly fair; submissions are not.
* `MCReports!GovernorFairness`: time passes; a connection that is lost comes back;
  and the console keeps sending frames when connected (strong fairness of a
  frame turn, because the connection may interrupt it). The last is about the
  console, and is needed: a demand dropped in the cooldown is repeated only by
  the next frame.
* `RtcWorker`: both threads go on, timers run out, keepalive requests end (they
  have a timeout) and, of a session that is gone, do not fail for ever to say so
  (strong fairness).
* `AudioPath`: the console's packets keep coming and complete samples, the worker
  turns, frames are drawn, the decode thread and the device go on. Faults are
  bounded instead.
* `AppStates`: ticks, jobs, the steps of a start, the polls: the frame loop never
  stops and every request has a timeout. `CapAdvisor`: ticks and the end of
  probes, whose socket calls time out.
* `Catalog`: ticks and worker; requests do not fail for ever (strong fairness of
  a job that succeeds). Without it a failing service is asked again and again.
* `InputPath`: the frame loop, the worker and time go on; the network does not
  lose every report (strong fairness of a delivered report).
* None for the handshake, the feedback, the clocks and the login: their
  properties are about safety.

`CHECK_DEADLOCK FALSE` is set where the model ends (the stream is sent, the
session is over) or the bounds stop it.

## 4. The proofs

Each theorem holds for every value of the constants that the named assumptions of
the modules allow (sizes and limits are numbers, packets are packets, `None` is no
value of another type): any circle, window, budget, stream, queue, account. It
speaks of its component's own specification, `Spec` or `Clock!Spec`, of which the
runs of the combined modules take the union, and asks for no fairness. Further
hypotheses are those of the table.

| Theorem | Property | Hypothesis |
|---|---|---|
| `Assembler_proofs!TypeCorrect` | types | |
| `!OnlyWholeFramesComplete` | `CompleteIsWholeFrame` | `WellFramed`: one slice per frame, first packet and marker at its ends |
| `!AsksOnlyForMissing` | `NackNamesOnlyMissing` | `WellFramed` |
| `!OutcomesInOrder` | `InOrder` (the refinement of `AuOrder`) | `FramesFit`: no frame above the size limit |
| `!DamagedLacksPackets` | `DamagedIsIncomplete`, with the slot if `LeadsAreShort` | `OrderlyStream`; `SentInOrder`: a frame is sent from its start to its marker, each packet under its own number |
| `!AsksOncePerPacket`, `!NothingAskedInVain` | `AskedOnce`, `NeverAsksForReceived` | `OrderlyStream`: the two above, a sequence number names one frame, timestamps within half a turn |
| `VideoRtp_proofs!TypeCorrect`, `!WaitingHoldsNothing`, `!TooLargeHeldBack`, `!NoSilentDrop` | types, `WaitingIsFlushed`, `TooLargeIsWaiting`, `DropsAskForKeyframe` | |
| `!QualityIsArtefactFree` | `ArtefactFree` | `[]RoomLeft`: the decode queue refuses no unit |
| `DecodePipeline_proofs!TypeCorrect`, `!DisplayedIsUntouched`, `!PendingIsNeverLost` | types, `NoTearing`, `PendingIsOnItsWay` | |
| `Session_proofs!OneHandshake` | `ShakesOnce` | |
| `!CandidatesStayOnTheWay` | `OnTheWay` | `CandidatesAssumption`: the sides' candidates are disjoint finite sets |
| `Reports_proofs!GovernorTypes`, `!NoSwamping` | types, `NoKeyframeStorm` | `StormAssumption`: two storm cooldowns fill the window, as 2 x 2 s and 4 s do |
| `!NeverSilent` | `KeepsReporting` | `IntervalsAssumption`: floor, keepalive and refresh in this order |
| `!SendTimeStaysTrue`, `!QueueStaysTheRise` | `SendTimeIsTrue`, `QueueIsTheRise` | `TurnAssumption` |
| `!LedgerIsKept` | `KeepsTheLedger` (the refinement of `ArrivalLedger`) | `RingAssumption`, `StampAssumption` |
| `!FeedbackStaysExact` | `FeedbackIsExact` | the two above, `ChunkAssumption` |
| `!LossIsCounted` | `LossIsWhatIsMissing` | `[]Near`: the next number lies within half a turn of the highest, as RFC 3550 supposes |
| `App_proofs!StartsSweepOrphans`, `!FocusStaysOnARow` | `OrphansAreSwept`, `FocusIsOnARow` | `LocalesAssumption`: there is a locale |
| `Front_proofs!NeverPlaintext`, `!RestartFindsTheLogin` | `NoPlaintext`, `DiskFollowsMemory` | `KeysAssumption`: two keys at least |
| `!PendingHasAnAnswer`, `!NoOtherLocale` | `PendingIsOnItsWay` of the list, `DetailsMatchLocale` | `CatalogAssumption` |

`RoomLeft` and `Near` are conditions on the surroundings and not on the code: a
refused IDR ends the wait all the same (section 5), and a number half a turn off
cannot be told from an old one. In the runs they always hold (`Near`: three
captures jump 8 at most on a circle of 64).

**Assembler: what is held.** Neither `TypeCorrect` nor `OnlyWholeFramesComplete` is
inductive, and both follow the same way. `AccessUnits_proofs` shows for every
method: if all units an assembler holds are in a set U and all its outcomes in a
set O, and U and O are *closed* (a new unit is in U; a unit of U with one packet
more, marker or repair included, stays in U; its outcome is in O), then the same
is true after the call. With U = `Au`, O = `OutcomeType` this is type correctness.
For whole frames U is `AuWithinFrame`, the units whose packets belong to one frame,
with the first of them held when `start` is set and the last when `marker` is, and
O the outcomes that are whole frames if Complete. That a unit with both ends and no
hole is the whole frame is arithmetic on the circle
(`AccessUnits_proofs!NoHoleIsWholeArc`): the anchor of an arc shorter than half the
circle is unique. `AsksOnlyForMissing` follows each range from the method that adds
it to what that method leaves (`Named`): the unit whose holes were counted, the slot
it was parked in, or the outcome it became.

**Assembler: order.** All of it holds until a unit is first parked (`slotUsed`), which
without the slot never happens. `PlainInv` says the slot is empty, the open
unit is newer than what was resolved last, and at most one outcome waits, newer
than what was handed out. `FramesFit` is needed because an oversize unit is
discarded without using up its timestamp. `OnceInv` carries what was delivered and
asked for in the past: every packet delivered is in the open unit or belongs to a
frame resolved or passed (`Accounted`), every packet asked for to a unit marked as
reported or resolved (`Reported`). That resolved frames stay passed needs timestamps
to be ordered, which on a circle only half a turn gives (`NewerIsHigher`).

**Assembler: damage.** `DamagedIsIncomplete` holds with the slot on too, and its
invariant `LinkTended` starts with the first packet. Each unit that is open or parked
either knows of the ends of its frame that it holds (`Sees`), so that it is not
Damaged when it is whole (`SeenWholeIsWhole`), or its frame had an outcome before.
Only a start that joins an open unit can break that, since `push` looks for a start
when it opens one. A first delivery is no such packet (`NextOpens`: the start of
a frame is sent before the rest). A retransmission is one only if it was asked for, and
`Minds` says of every start that is asked for that its frame had an outcome or that
the parked unit waits for it (`AwaitedBy`). Holes name no start (`HolesNameNoStart`).
A leading loss does; while the frame before is longer than `MaxLead` the only start
it can name is the one of the unit it parks (`LeadNamesOwnStart`), which is what
`LeadsAreShort` is for, and that start fills the slot as long as the unit is there
(`StartIsBelowNext`). Without the slot no leading loss is asked for, and
`LeadsAreShort` is not needed.

**Receiver.** The inductive invariant is `Good`, on the receiver as one record:
types; no unit of a later generation than the current one and none too large
(`Sound`); while it waits every queued unit is of an earlier generation;
`tooLarge` implies waiting. `Sound` is what makes it inductive: ending the
generation flushes the queue only because no unit is ahead of it. Each handler
is shown to preserve it (`FinishGood`, `AbandonGood`, `HandleGood`), the calls of
the pump only add outcomes, and the decode thread only removes units.
`ArtefactFree` needs beyond it that a broken chain is waited out
(`ChainWaitedOut`): every outcome that breaks it starts the wait under Quality, and
only an IDR that is queued ends it.

**Decode pipeline.** `IInv` adds to the types what the mutex is for: while the
decoder holds it (`~Unlocked`) the texture it writes exists and is not on display
(`WritesOffScreen`), because the renderer changes what is on display only with the
mutex free; and that a unit the decode thread saw in the queue is still there
(`SeenUnitWaits`), because nobody else takes units. `FramesInLine` is why no texture
is kept for a frame nobody has: the five slots from the decoder to the screen hold
frames in the order of their stamps, the pending one is the newest of all, and a
slot that keeps the newest value therefore never overwrites it.

**Session.** `ShakesOnce` only bounds what has been said. `ShakeInv` says what the
message channel holds at each stage exactly (`SaidAt`), so that a second
acknowledgement, which finds the stage past waiting, can add nothing; and that of
the words of the control channel only those of the startup name the gamepad.
`WayInv` splits the way of a candidate at its joints: gathered, in an event, in a
post, posted or lost for the client's; seen, in a command, added or lost for the
console's. The places are disjoint, and a blocking send or a full channel moves a
candidate between two of them only.

**Governor.** The bound is not inductive: a full window has to refuse the next
request. `StormInv` adds that no request is younger than `last`
(`LastIsNewest`), and that the newest of a full window followed the others after
a storm cooldown (`Spaced`). When a storm cooldown has passed once more, the
others are out of the window, which is then not full (`FullWindowRefuses`). A tick
cannot raise the number of requests in the window: taking one from each age is
an injection into the window before.

**Input.** `QuietInv` bounds the silence by what still has to happen before the next
report: neither clock of the throttle is behind the silence (`AgesKeepUp`), and a
sample in the slot is due within the worker's stall, an empty slot filled within a
frame (`SampledInTime`).

**Clocks.** `ClockInv`: the anchor is the raw stamp of the last stamped packet, and the
unwrapped time is whole turns away from the true one (`OnTheLattice`); while the stream
keeps pace (`steady`) both clocks have moved alike since the change from one to the other
(`InStep`), so that the send time given to the estimator is the true one plus what the
media clock began with (`Offset`), whichever packets carry a stamp.

**Queue delay.** `DelayInv` compares the ring with the history one by one (`Alike`): the
same arrival times in order, and one-way delays that are the true ones less a constant.
`push` writes the next sample over the oldest (`PushAlike`), and the eviction of a ring
that is not wrapped moves the suffix that `Remember` keeps to the front, which its loop
shows as a fold over the slots; the eviction of a wrapped one sets `shifted`. The constant
cancels in `owd - base`, whatever it is.

**Arrivals.** The ring is seen as a partial function from numbers to times
(`Ring!Get`), and each of its operations is shown to be one on that function: a cell
written, a range cleared, the same function after growing, shrinking and culling.
Behind all of them is `OwnSlot`: two numbers of a window no longer than the capacity
never share a slot, so that the capacity chosen must fit (`RingOver`, a power of two
times `MinCapacity`, `Ring!Capacities`). With it one recorded packet is one step of
the ledger (`RecordIsHeard`), and a feedback packet only removes what it names.

**Feedback.** `FeedbackIsExact` is about a function of the state, so that the invariant is
that of the ring (`FeedOK`) and the work lies in the function. `FoldUnwinds` gives the
states of any fold of the model one at a time. For the chunks, `Draft` says that the open
chunk fits one of the three kinds and no chunk has been written out with room left; then
the symbols read back are those added (`Told`), since writing out moves symbols without
losing one (`WritesOut`), and closing adds at most "lost" after the last (`Shutting`),
which the count cuts off. For the packets, `Tells` says which arrivals a
packet names and that each sum of deltas lies within half a step of its time; the error
of one delta is carried into the next and never grows (`DeltaIsNear`, `OneMoreTime`).
`Cover` cuts what is due into one slice for each packet (`CoverGrows`): a packet that
begins anew lies so close below its first arrival that the count fits 16 bits and
its first delta two bytes (`RingAssumption`, `RefUnit`).

**Receiver report.** `CountInv` says the 16-bit fields of `rr` count the unbounded
numbers heard: the cycles and the highest, less the first, are the true distance.
`NewerNumber` is the arithmetic: within half a turn the remainders tell which of two
numbers is newer and whether the circle was passed. `Counting` is about finite sets:
a receiver that heard L packets from a first to a highest number misses as many of
them as it heard in vain, plus the length of the range less L.

**Application.** `SweepInv` follows a start through its requests: once the list is
read, each session it named is still to be stopped or was refused
(`ListedIsStopped`), then only the new one is listed (`MadeIsAlone`); screens cannot
begin a second start. `FormInv` keeps the focus in the rows there would be, on and
off the screen, and the stored locale in the list, so that opening it finds a row.

**Saved login.** `NoPlaintext` speaks of a running application, but a start has
to make it true of whatever it finds, so that `PlainInv` carries the shape of
the disk through the time the application is off, and that no job runs then.
Every element of `Persisted`, `PersistFails` and `Cleared` seals the file or
removes it or leaves what was there (`PersistedSafe`, `PersistFailsSafe`,
`ClearedSafe`), and so each start ends `Safe`, or with both failures on record (`LoadSafe`). `LoginInv` says why disk
and memory agree although five places save: each job belongs to one screen, and
its clone is the login in memory, which makes the order of the saves irrelevant.

**List.** `CatInv` partitions what is pending: the two queues, the job at work, the
results, the ones a panic lost (`Carries`, `Apart`); a queue holds nothing twice. A
tick takes results and queues jobs in loops, which the model writes as a recursive
function over the results, in which every picture put on the list carries its locale
(`PicturesOver`): `RunExists` and `RunUnfolds` give its values one step at a
time, by a least counterexample, since the library's induction theorems are out of the
prover's reach; `FoldUnwinds` does the same for the folds of the feedback.

Proved and not checked by a run of its own: type correctness. Only model-checked:
liveness (`UnitsMoveOn`, `FramesReachTheScreen`, `EndedStreamIsLeft`, `ScreensMoveOn`,
`AdviceComes`, `ThreadEnds`, `EndIsSeen`, `SoundReturns`, `OwnButtonIsReleased`,
`StateArrives`, `WaitingIsAsked`, `BacklogIsFlushed`, `SelectedIsShown`), which is beyond
the prover.

## 5. Where the code and its comments disagree

Each of these has a run in which TLC finds the property violated:

* `video_full` — the wait for an IDR ends (`api/streaming/rtc/rtp.rs:661`) before
  the decode queue refuses it (675): Quality is not "artefact-free" (792-793).
* `decode_freed` — the targets copied before the wait (`streaming/video/mod.rs:122`)
  are used after it (155) when the renderer may have cleared them.
* `feedback_stamps` — datagrams of the RTX payload type enter the FIFO of arrival
  stamps (`api/streaming/rtc/transport.rs:215-220`) but nothing takes them out: one
  at the head makes later packets, none of them dropped or reordered, carry the
  time of their handling, against `api/streaming/rtc/rtp.rs:347-349`.

* `parked_order` — `grace_leading_loss_park` (`pipeline/media/assembler.rs:381`)
  parks a unit in the push that queued the outcome of the frame before it (250-251).
  The parked unit is then not "OLDER than any queued outcome" (778-779) and is
  handed out first.

Found by earlier runs of these models, which the properties now step around:

* Any single-NAL packet is a verified start (`pipeline/media/assembler.rs:274-284`),
  so that a frame of several slices that lost its first ones is Complete. The
  enum promises all packets (33-34); `CompleteIsWholeFrame` is checked for frames
  of one slice.
* A parked unit does not use up its timestamp (`pipeline/media/assembler.rs:669-673`,
  752-755): a straggler opens it a second time, and frames are resolved twice or
    out of order, against 778-781. `InOrder` holds until a unit is first parked.
* `receive` drains the queue before `direct` (`api/streaming/rtc/rtp.rs:410-421`),
  but `direct` is the older outcome; the comment at 398-400 claims the opposite.
* A lead that reaches back past its frame (longest lead 32 packets,
  `pipeline/media/assembler.rs:381-410`) has the frame before it sent again. If that
  one was lost whole, its packets open a unit from the middle while the younger
  frame is parked, and its first packet joins it without setting `start`, which is
  looked for in parked units only: the frame is held whole and resolved Damaged.
    `DamagedIsIncomplete` with grace takes `LeadsAreShort`.
* "Never leave the old plaintext token behind, even if Safe Memory is unavailable"
  (`api_xbox/auth.rs:193`): the result of the removal is ignored (194), and `main.rs:45`
  ignores its own. When both fail to remove the file and the sealed one cannot be saved,
  the plaintext stays under the running application. `NoPlaintext` names these two faults.
* The media clock under the queue delay is the raw 32-bit RTP timestamp
  (`api/streaming/rtc/rtp.rs:467`): a packet without a stamp after its wrap, or a first
  stamp after it, makes the delay jump by a turn of that clock, against "Q's delay axis
  never jumps" (465-466). `QueueIsTheRise` leaves those runs out.
* A second publication takes the protection of a texture whose frame has not been
  shown yet (`streaming/video/mod.rs:171`, comment 24-26).

Seen while modelling, without a property of their own:

* `flush_due` has no timer for a unit without marker (`pipeline/media/assembler.rs:559-565`,
  on purpose); the comments at 87-88 and `api/streaming/rtc/rtp.rs:850-856` still
  speak of one.
* An oversize unit is discarded past the gate of a parked unit
  (`pipeline/media/assembler.rs:415-424` against "nothing may drain", 386).
* "bounded HOL" (`pipeline/media/assembler.rs:139-140`) does not hold when a second
  unit is parked right after the first.
* "proven-loss" (114-116): under grace a packet may be asked for that arrived.
* `send_nack` drops the numbers beyond 32 (`api/streaming/rtc/media.rs:139`) while
  `queue_nacks` keeps 64.
* "should be impossible with > 2" (`streaming/video/mod.rs:138`): with three
  textures all can be taken.
* `publish_result` lets the next frame replace an error
  (`streaming/video/worker.rs:361`): decode errors are undercounted
  (`docs/METRICS-CSV-REFERENCE.md:51`) and the decoder is not reset for it.
* A released Back is replayed by samples of the frame loop (`shell/mod.rs:173-175`),
  but the samples between two frames pass `false` for the replay (276-281): the
  console may see View flicker.
* "superseded by the next tick" (`api/streaming/rtc/worker.rs:416-417`) is not true
  of a remote candidate (131-136): one that does not fit is not sent again.
* "D-pad + Confirm can reach every row" (`app/ui/screens/settings.rs:103-105`), but
  Confirm on a row of the debug mode returns early (567-568).
* The eviction of `queue_delay.rs` (133-145) writes the samples it keeps over ones
  it has still to move when the ring has wrapped; and the ring of 100 samples
  holds about 1.7 s at 60 fps, less than the window it is evicted by.
  `QueueIsTheRise` leaves runs with a wrapped, moved ring out.
* "monotonically non-decreasing" and "tolerate out-of-order" (`send_time.rs:13-14`,
  51-53) hold for one late packet; after two the anchor can be a whole turn ahead.
* Reports "must keep flowing" (`api_xbox/streaming/rtc/protocol.rs:11-15`), but
  none are sent while the overlay is open.
* "A pending mailbox means a probe is already in flight" (`app/mod.rs:86-89`): the
  mailbox is empty while a probe runs, so a second entry starts a second one.
* A request for the details of a title that fails leaves `GameDetails::default()`
  (`app/titles.rs:206`), which counts as details: the title stays blank until the list is
  loaded again or the locale changes.
* A start request that is under way when its start is aborted
  (`app/ui/screens/connecting.rs:71`) may make its session after the next start has listed
  and swept: nobody stops that one until the sweep after.
* The default cap of 15000 kbps (`settings.rs:201`) is not a step of the ladder
  the form moves on.
* The renderer outlives the stream: what its two channels hold when the user
  leaves, up to 32 packets and 8 buffers, opens the next stream
  (`streaming/audio.rs`, `shell/mod.rs:222-224`).

## 6. Plan

Every module of the first plan is written. What would come next, in this order:

1. Proofs: every safety property of section 3 has its theorem. What could follow are
   `InOrder` in a weaker form after a unit has been parked, and simulations across
   modules: the assembler of `VideoRtp` handing on only what `Assembler` allows.
2. REMB pacing (`send_remb`, its window of NACKs and its ladder), which is off in this
   build, and the decay of the burst boost in `VideoRtp`'s admission.
3. `gop.rs` and `freshness.rs` as algorithms, once something reads their verdicts.
4. A composition of `VideoRtp` with `DecodePipeline` over one decode queue: today
   each has the queue as its border.

## 7. Not modelled

Sockets, DTLS, SRTP and the WebRTC library; SDP text and peer set-up; HTTP, JSON
and the layout of packets; the hardware decoder, Opus and SDL beyond the outcome
of a call; metrics and log files, on which nothing in delivery depends; the
comparator that runs only when `NEW_AUTHORITY` is off; `gop.rs`, `freshness.rs` and
`pipeline/telemetry`, which nothing reads; REMB, which is off; layout, translations,
search and the mapping of single buttons. They are I/O, external, or sequential
code whose tests reach it.
