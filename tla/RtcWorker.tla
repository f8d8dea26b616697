------------------------------ MODULE RtcWorker ------------------------------
(***************************************************************************)
(* The thread of the RTC session and the application's side of it: the     *)
(* bounded channels of commands and events between them (rtc/worker.rs),   *)
(* the exchange of ICE candidates and the keepalive over HTTP              *)
(* (api_xbox/streaming/backend.rs, api_xbox/stream.rs), and the end of the *)
(* session by either side (app/stream_session/playback.rs).                *)
(*                                                                         *)
(* What the session does with media is elsewhere; a pump here gathers      *)
(* local candidates, has something to report, or finds the connection      *)
(* closed.  pump has no failing path, so its error arm is left out.        *)
(***************************************************************************)
EXTENDS Integers, FiniteSets, SequencesExt

CONSTANTS Local, Remote,  \* candidates of the client and, decoded, of the console
          MaxCommands,    \* MAX_PENDING_COMMANDS
          MaxEvents       \* MAX_PENDING_EVENTS

VARIABLES thread,    \* the worker thread: "negotiating", "running", "reporting" its end, "ended"
          ending,    \* the important event it reports
          commands, events,
          gathered,  \* local candidates the peer has come up with
          added,     \* remote candidates the peer was given
          app,       \* "streaming", "stopping" (the request is out, nothing is drained), "left"
          pending,   \* pending_local_ice_candidates
          post, poll, keepalive,  \* the jobs
          seen,      \* remote_ice_candidates
          due,       \* keepalive_next_at has passed
          offered, posted,        \* what the service has of the console and of the client
          gone,      \* the service has ended the session
          lost       \* history: candidates a full channel or a failed post lost

worker == <<thread, ending, gathered, added>>
jobs == <<pending, post, poll, keepalive, seen, due>>
service == <<offered, posted, gone>>
vars == <<worker, commands, events, app, jobs, service, lost>>

Lossy(channel, capacity, item) ==
    IF Len(channel) < capacity THEN Append(channel, item) ELSE channel

Event(kind, cands) == [kind |-> kind, cands |-> cands]
Note == Event("note", {})  \* Status, VideoResolution

\* The application has dropped its end: whatever is sent is gone.
SendEvent(evs, e) == IF app = "left" THEN evs ELSE Lossy(evs, MaxEvents, e)

(***************************************************************************)
(* The worker thread.                                                      *)
(***************************************************************************)

\* run_worker_thread: the offer is answered, refused, or not answered in time.
Negotiate ==
    /\ thread = "negotiating"
    /\ \/ /\ thread' = "running"
          /\ events' = SendEvent(events, Note)
          /\ UNCHANGED ending
       \/ /\ thread' = "reporting" /\ ending' = "error"
          /\ UNCHANGED events
    /\ UNCHANGED <<gathered, added, commands, app, jobs, service, lost>>

(* drain_commands: all that is queued, then a Stop, which is always the last *)
(* command, or the dropped sender says that no more will come.               *)
CommandedByWord == Contains(commands, "stop")
Commanded == Contains(commands, "stop") \/ app = "left"

TakeCommands ==
    /\ added' = added \cup (ToSet(commands) \cap Remote)
    /\ commands' = <<>>

TurnStops ==
    /\ thread = "running" /\ Commanded
    /\ TakeCommands
    /\ thread' = "ended"
    /\ UNCHANGED <<ending, gathered, events, app, jobs, service, lost>>

\* Candidates go out first, the status and the resolution after them.
TurnGoesOn(cands, note, closed) ==
    /\ thread = "running" /\ ~Commanded
    /\ TakeCommands
    /\ gathered' = gathered \cup cands
    /\ LET first == IF cands = {} THEN events ELSE SendEvent(events, Event("local", cands))
           full == cands # {} /\ app # "left" /\ Len(events) >= MaxEvents
       IN  /\ events' = IF note \/ closed THEN SendEvent(first, Note) ELSE first
           /\ lost' = IF full THEN lost \cup cands ELSE lost
    /\ IF closed THEN thread' = "reporting" /\ ending' = "closed"
       ELSE UNCHANGED <<thread, ending>>
    /\ UNCHANGED <<app, jobs, service>>

\* A panic, or the socket reports an error.
Fail ==
    /\ thread = "running"
    /\ thread' = "reporting" /\ ending' = "error"
    /\ UNCHANGED <<gathered, added, commands, events, app, jobs, service, lost>>

(* send_important_event waits for room, or for the receiver to be dropped. *)
HasRoom == app = "left" \/ Len(events) < MaxEvents

Report ==
    /\ thread = "reporting" /\ HasRoom
    /\ events' = SendEvent(events, Event(ending, {}))
    /\ thread' = "ended"
    /\ commands' = <<>>
    /\ UNCHANGED <<ending, gathered, added, app, jobs, service, lost>>

Turn == \E cands \in SUBSET (Local \ gathered), note, closed \in BOOLEAN :
            TurnGoesOn(cands, note, closed)

(***************************************************************************)
(* The application: a tick drains every event and then, unless the stream  *)
(* is over, looks after the three jobs.                                    *)
(***************************************************************************)

NoJob == [at |-> "idle", cands |-> {}]

SendCommand(c) == IF thread = "ended" THEN commands ELSE Lossy(commands, MaxCommands, c)

Touch ==
    /\ app = "streaming"
    /\ commands' = SendCommand("pointer")
    /\ UNCHANGED <<worker, events, app, jobs, service, lost>>

\* The user leaves: the session is asked to stop while the worker goes on.
Exit ==
    /\ app = "streaming"
    /\ app' = "stopping"
    /\ UNCHANGED <<worker, commands, events, jobs, service, lost>>

\* The request ends, one way or another, and the backend is dropped with its jobs.
Drop ==
    /\ app = "stopping"
    /\ app' = "left"
    /\ commands' = SendCommand("stop")
    /\ events' = <<>>
    /\ pending' = {} /\ seen' = {} /\ due' = FALSE
    /\ post' = NoJob /\ poll' = NoJob /\ keepalive' = "idle"
    /\ UNCHANGED <<worker, service, lost>>

ToldOfTheEnd == \E i \in DOMAIN events : events[i].kind \in {"closed", "error"}

Received == UNION {events[i].cands : i \in DOMAIN events}

\* post_local_ice: one request at a time; what comes meanwhile waits.
Waiting == pending \cup Received

PostEagerly ==
    /\ pending' = {}
    /\ post' = IF Waiting = {} THEN post ELSE [at |-> "running", cands |-> Waiting]

PostLocal ==
    IF post.at = "running"
    THEN pending' = Waiting /\ UNCHANGED post
    ELSE /\ pending' = {}
         /\ post' = IF Waiting = {} THEN NoJob ELSE [at |-> "running", cands |-> Waiting]

\* poll_remote_ice: candidates not seen before become commands.
Fresh == IF poll.at = "done" THEN SetToSeq(poll.cands \ seen) ELSE <<>>
Room == IF thread = "ended" THEN 0 ELSE MaxCommands - Len(commands)
Fitting == SubSeq(Fresh, 1, IF Room < Len(Fresh) THEN Room ELSE Len(Fresh))

PollRemote(again) ==
    /\ seen' = seen \cup ToSet(Fresh)
    /\ commands' = commands \o Fitting
    /\ lost' = IF thread = "ended" THEN lost ELSE lost \cup (ToSet(Fresh) \ ToSet(Fitting))
    /\ poll' = IF poll.at # "running" /\ again THEN [at |-> "running", cands |-> {}]
               ELSE IF poll.at = "done" THEN NoJob ELSE poll

KeepaliveStarts == keepalive \notin {"running", "gone"} /\ due

KeepAlive ==
    keepalive' = IF KeepaliveStarts THEN "running"
                 ELSE IF keepalive = "running" THEN "running" ELSE "idle"

\* The answer of the last keepalive, looked at before the next one is due or sent.
ToldGoneInTime == keepalive = "gone" /\ ~due
ToldGone == keepalive = "gone"

\* The poll of a second ago is repeated, or its second is not over.
TickMaintains(again) ==
    /\ app = "streaming" /\ ~ToldOfTheEnd
    /\ events' = <<>>
    /\ PostLocal /\ PollRemote(again) /\ KeepAlive
    /\ due' = (due /\ ~KeepaliveStarts)
    /\ app' = IF ToldGone THEN "stopping" ELSE app
    /\ UNCHANGED <<worker, service>>

\* exit_stream and stop_stream_with_error.
TickLeaves ==
    /\ app = "streaming" /\ ToldOfTheEnd
    /\ events' = <<>>
    /\ pending' = Waiting
    /\ app' = "stopping"
    /\ UNCHANGED <<worker, commands, post, poll, keepalive, seen, due, service, lost>>

Tick == TickLeaves \/ \E again \in BOOLEAN : TickMaintains(again)

(***************************************************************************)
(* The requests, the timers and the console, while the stream is looked    *)
(* after.  poll_job takes a finished job and an absent one alike.          *)
(***************************************************************************)

PostEnds ==
    /\ app = "streaming" /\ post.at = "running"
    /\ post' = NoJob
    /\ \/ posted' = posted \cup post.cands /\ UNCHANGED lost
       \/ lost' = lost \cup post.cands /\ UNCHANGED posted
    /\ UNCHANGED <<worker, commands, events, app, pending, poll, keepalive, seen, due, offered, gone>>

\* Each answer repeats what earlier ones had; an error or an empty one has nothing.
PollEnds ==
    /\ app = "streaming" /\ poll.at = "running"
    /\ \E cands \in SUBSET offered : 
          poll' = IF cands = {} THEN NoJob ELSE [at |-> "done", cands |-> cands]
    /\ UNCHANGED <<worker, commands, events, app, pending, post, keepalive, seen, due, service, lost>>

KeepaliveEnds ==
    /\ app = "streaming" /\ keepalive = "running"
    /\ keepalive' \in (IF gone THEN {"gone", "idle"} ELSE {"idle"})
    /\ UNCHANGED <<worker, commands, events, app, pending, post, poll, seen, due, service, lost>>

TimerRunsOut ==
    /\ app = "streaming" /\ ~due
    /\ due' = TRUE
    /\ UNCHANGED <<worker, commands, events, app, pending, post, poll, keepalive, seen, service, lost>>

Offer ==
    /\ app = "streaming"
    /\ \E c \in Remote \ offered : offered' = offered \cup {c}
    /\ UNCHANGED <<worker, commands, events, app, jobs, posted, gone, lost>>

SessionEnds ==
    /\ app = "streaming" /\ ~gone
    /\ gone' = TRUE
    /\ UNCHANGED <<worker, commands, events, app, jobs, offered, posted, lost>>

Init ==
    /\ thread = "negotiating" /\ ending = "none"
    /\ commands = <<>> /\ events = <<>>
    /\ gathered = {} /\ added = {}
    /\ app = "streaming"
    /\ pending = {} /\ seen = {} /\ due = TRUE
    /\ post = NoJob /\ poll = NoJob /\ keepalive = "idle"
    /\ offered = {} /\ posted = {} /\ gone = FALSE /\ lost = {}

Next == \/ Negotiate \/ TurnStops \/ Turn \/ Report \/ Fail
        \/ Touch \/ Exit \/ Drop \/ Tick
        \/ PostEnds \/ PollEnds \/ KeepaliveEnds
        \/ TimerRunsOut \/ Offer \/ SessionEnds

\* Of either thread, what goes on by itself; at most one of its steps is possible.
ThreadGoesOn == Negotiate \/ TurnStops \/ Report
AppGoesOn == Tick \/ Drop

\* Both threads run on, timers run out, requests and the exchange of SDP have a timeout.
Fairness == /\ WF_vars(ThreadGoesOn) /\ WF_vars(AppGoesOn)
            /\ WF_vars(KeepaliveEnds) /\ SF_vars(KeepaliveEnds /\ keepalive' = "gone")
            /\ WF_vars(TimerRunsOut)

Spec == Init /\ [][Next]_vars /\ Fairness

(***************************************************************************)
(* Properties.                                                             *)
(***************************************************************************)

\* While the stream lasts every candidate is somewhere on its way and nowhere twice:
\* only a full channel or a refused request loses one, and none is posted again.
OnTheWay ==
    app = "streaming" =>
        /\ gathered = Waiting \cup post.cands \cup posted \cup (lost \cap Local)
        /\ seen = added \cup (ToSet(commands) \cap Remote) \cup (lost \cap Remote)
             \/ thread \in {"reporting", "ended"}
        /\ Cardinality(gathered) = Cardinality(Waiting) + Cardinality(post.cands)
                                    + Cardinality(posted) + Cardinality(lost \cap Local)

\* The thread ends after the application has dropped it, with or without room for
\* the Stop, and also when it is waiting for room in the channel of events.
ThreadEnds == app = "left" ~> thread = "ended"

\* An end is seen: the application leaves a stream whose worker ended by itself, also
\* when the channel of events is full, and one whose session the service has ended,
\* also when the media connection says nothing.
EndIsSeen == thread = "reporting" \/ gone ~> app # "streaming"

=============================================================================
