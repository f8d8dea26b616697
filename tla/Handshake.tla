----------------------------- MODULE Handshake -----------------------------
(***************************************************************************)
(* The control conversation with the console: the data channels open in    *)
(* any order (protocol.rs, handle_channel_open), the message channel       *)
(* shakes hands, the acknowledgement brings the startup messages           *)
(* (control/channel.rs), and later the control channel asks for keyframes  *)
(* and for a flush, which asserts the full picture size or a smaller one,  *)
(* in turn.                                                                *)
(***************************************************************************)
EXTENDS Naturals, Sequences, SequencesExt

CONSTANTS MaxTalk, MaxFlushes    \* messages of the console, flushes: bounds

VARIABLES open,       \* channels that told us they are open
          stage,      \* HandshakeStage
          inputReady, \* input_channel_ready
          serverSize, \* server_video_size is known
          toggle,     \* flush_size_toggle
          message, control,  \* what the console has been sent on either channel
          talk, flushes      \* bounds

vars == <<open, stage, inputReady, serverSize, toggle, message, control, talk, flushes>>

Channels == {"message", "control", "input"}

Startup == "startup"      \* the six messages of startup_messages

(* A text for a channel that has not opened may be refused by the peer     *)
(* connection; nobody looks at the result.                                 *)
Goes(channel) == IF channel \in open THEN {TRUE} ELSE BOOLEAN

Say(log, words, goes) == IF goes THEN log \o words ELSE log

ChannelOpens ==
  \E channel \in Channels \ open :
    /\ open' = open \cup {channel}
    /\ IF channel = "message" /\ stage = "WaitingForChannels"
       THEN stage' = "WaitingForHandshakeAck" /\ message' = Append(message, "Handshake")
       ELSE UNCHANGED <<stage, message>>
    /\ inputReady' = (inputReady \/ channel = "input")
    /\ UNCHANGED <<serverSize, toggle, control, talk, flushes>>

AwaitsNoMore(kind) == kind = "HandshakeAck"
Awaits(kind) == kind = "HandshakeAck" /\ stage = "WaitingForHandshakeAck"

(* handle_data_channel_message: only an acknowledgement that is awaited    *)
(* does anything, and it does it whether the control channel is open or not.*)
TextArrives ==
  /\ "message" \in open /\ talk < MaxTalk /\ talk' = talk + 1
  /\ \E kind \in {"HandshakeAck", "other"} :
       /\ kind = "HandshakeAck" => Contains(message, "Handshake")
       /\ IF Awaits(kind)
          THEN \E goes \in Goes("control") :
                 /\ stage' = "Ready"
                 /\ message' = Append(message, Startup)
                 /\ control' = Say(control, <<"authorization", "gamepad", "preference">>, goes)
          ELSE UNCHANGED <<stage, message, control>>
  /\ UNCHANGED <<open, inputReady, serverSize, toggle, flushes>>

(* parse_server_video_size, on the input channel. *)
MetadataArrives ==
  /\ "input" \in open /\ ~ serverSize /\ serverSize' = TRUE
  /\ UNCHANGED <<open, stage, inputReady, toggle, message, control, talk, flushes>>

NotifyKeyframeRequested ==
  \E goes \in Goes("control") :
    /\ ~ Contains(control, "keyframe")       \* one of them stands for all
    /\ control' = Say(control, <<"keyframe">>, goes)
    /\ UNCHANGED <<open, stage, inputReady, serverSize, toggle, message, talk, flushes>>

(* notify_stream_flush: the toggle turns even when the text does not go.   *)
NotifyStreamFlush ==
  /\ flushes < MaxFlushes /\ flushes' = flushes + 1
  /\ toggle' = ~ toggle
  /\ \E goes \in Goes("control") : control' = Say(control, <<"dimensions">>, goes)
  /\ UNCHANGED <<open, stage, inputReady, serverSize, message, talk>>

Init ==
  /\ open = {} /\ stage = "WaitingForChannels" /\ inputReady = FALSE /\ serverSize = FALSE
  /\ toggle = FALSE /\ message = <<>> /\ control = <<>>
  /\ talk = 0 /\ flushes = 0

Next == ChannelOpens \/ TextArrives \/ MetadataArrives
        \/ NotifyKeyframeRequested \/ NotifyStreamFlush

Spec == Init /\ [][Next]_vars

(* ----------------------------- what must hold --------------------------- *)

(* The console hears one handshake and, after its acknowledgement, one     *)
(* startup, however often it answers; and it may be told of the gamepad    *)
(* only after both (channel.rs:25-47).                                     *)
ShakesOnce ==
  /\ IsPrefix(message, <<"Handshake", Startup>>)
  /\ stage = "Ready" <=> Contains(message, Startup)
  /\ Contains(control, "gamepad") => stage = "Ready"

=============================================================================
