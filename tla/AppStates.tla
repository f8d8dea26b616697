----------------------------- MODULE AppStates -----------------------------
(***************************************************************************)
(* The application's state machine (app/): signing in, the lists, starting *)
(* and connecting a stream, the stream, the settings screen over any of    *)
(* them, the header menu, the background jobs each screen polls and the    *)
(* ones that outlive it, and the sessions the service holds for this       *)
(* account.                                                                *)
(*                                                                         *)
(* The application is one thread: a command or a tick is one action.  The  *)
(* jobs are tasks of the same runtime and move between two of them, one    *)
(* request to the service at a time.                                       *)
(***************************************************************************)
EXTENDS Naturals, Sequences, FiniteSets

CONSTANTS Sessions,     \* the sessions the service can make in one behaviour
          NoSession,
          MaxFailures   \* MAX_CONSECUTIVE_POLL_FAILURES

ASSUME NoSessionAssumption == NoSession \notin Sessions
ASSUME MaxFailuresAssumption == MaxFailures \in Nat \ {0}

Kinds == {"Cloud", "Home"}

VARIABLES state,     \* the variant of AppState, that of return_to while settings is TRUE
          kind,      \* StreamKind of the lists, of the stream and of the return target
          settings,  \* the state is AppState::Settings { return_to: state }
          paused,    \* StreamingSession::paused
          menuOpen,  \* MenuState::open
          retry,     \* Error { retry_sign_in }
          stream,    \* the session of Connecting and Streaming
          job,       \* the JoinHandle of a screen that waits for one
          start,     \* the job of StartingStream
          failures,  \* ConnectingStream::consecutive_failures
          poll,      \* the provisioning poll of each session, detached ones too
          backend,   \* what the streaming backend reports next
          server,    \* each session at the service: unused, requested late, ended or its endpoint
          refused,   \* the sessions a stop request failed for or an aborted start made late
          unswept,   \* the list of sessions of this start could not be read
          sweep      \* the clean-up task a sign-in spawned

screen    == <<state, kind, settings, paused, menuOpen, retry>>
service   == <<server, refused>>
starting  == <<start, unswept>>
connected == <<stream, failures, backend>>
vars == <<screen, job, service, starting, connected, poll, sweep>>

Lists == {"Loading", "List"}

(* A clean-up: the kinds still to list and the paths still to stop. *)
Swept == [todo |-> <<>>, paths |-> {}]
NoStart == [pc |-> "none", sweep |-> Swept, made |-> NoSession]

(***************************************************************************)
(* Changing the screen.                                                    *)
(***************************************************************************)

\* set_state closes the menu; the probe it may start is CapAdvisor's.
SetState(s, k) ==
    /\ state' = s
    /\ kind' = k
    /\ settings' = FALSE
    /\ menuOpen' = FALSE
    /\ paused' = FALSE

SetScreen(s, k) == SetState(s, k) /\ retry' = FALSE

ErrorScreen(again) == SetState("Error", kind) /\ retry' = again

\* state_after_network_check: offline, the error screen that asks again.
SignInGate == \/ SetScreen("Init", kind)
              \/ ErrorScreen(TRUE)

(***************************************************************************)
(* Requests to the service.  A stop request may fail, and its failure is   *)
(* only logged.                                                            *)
(***************************************************************************)

Stop(s) == \/ server' = [server EXCEPT ![s] = "ended"] /\ UNCHANGED refused
           \/ refused' = refused \cup {s} /\ UNCHANGED server

\* cleanup_active_sessions: list the sessions of one kind, then stop each.  The
\* list is asked of the kind's own endpoint; one that fails ends the clean-up
\* of that kind.
ListActive(k) == {s \in Sessions : server[s] = k}

SweepList(w, fails) ==
    [todo |-> Tail(w.todo), paths |-> IF fails THEN {} ELSE ListActive(Head(w.todo))]

CanList(w) == w.paths = {} /\ w.todo # <<>>

SweepStops ==
    \E s \in sweep.paths :
        /\ Stop(s)
        /\ sweep' = [sweep EXCEPT !.paths = @ \ {s}]
        /\ UNCHANGED <<screen, job, starting, connected, poll>>

SweepLists ==
    /\ CanList(sweep)
    /\ \E fails \in BOOLEAN : sweep' = SweepList(sweep, fails)
    /\ UNCHANGED <<screen, job, service, starting, connected, poll>>

\* The job of StartingStream: clean up, then ask for the session.
StartLists ==
    /\ start.pc = "sweeping"
    /\ CanList(start.sweep)
    /\ \E fails \in BOOLEAN :
        /\ start' = [start EXCEPT !.sweep = SweepList(@, fails)]
        /\ unswept' = fails
    /\ UNCHANGED <<screen, job, service, connected, poll, sweep>>

StartStops ==
    /\ start.pc = "sweeping"
    /\ \E s \in start.sweep.paths :
        /\ Stop(s)
        /\ start' = [start EXCEPT !.sweep.paths = @ \ {s}]
    /\ UNCHANGED <<screen, job, unswept, connected, poll, sweep>>

(* A title the primary offering lacks is started at the free-to-play one. *)
Endpoints(k) == IF k = "Cloud" THEN {"Cloud", "CloudF2p"} ELSE {"Home"}

Unused == {s \in Sessions : server[s] = "unused"}

\* api.start_stream: the answer may be an error, or be lost after the service
\* made the session.
StartPlays ==
    /\ start.pc = "sweeping"
    /\ start.sweep = Swept
    /\ \/ /\ start' = [start EXCEPT !.pc = "failed"]
          /\ UNCHANGED server
       \/ \E s \in Unused, e \in Endpoints(kind), lost \in BOOLEAN :
            /\ server' = [server EXCEPT ![s] = e]
            /\ start' = IF lost THEN [start EXCEPT !.pc = "failed"]
                        ELSE [start EXCEPT !.pc = "done", !.made = s]
    /\ UNCHANGED <<screen, job, refused, unswept, connected, poll, sweep>>

(***************************************************************************)
(* The other jobs.                                                         *)
(***************************************************************************)

Late(k) == IF k = "Cloud" THEN "LateCloud" ELSE "LateHome"

\* The service answers a request whose start was aborted while it was under way.
LatePlays ==
    \E s \in Sessions, k \in Kinds : \E e \in Endpoints(k) :
        /\ server[s] = Late(k)
        /\ server' = [server EXCEPT ![s] = e]
        /\ refused' = refused \cup {s}
        /\ UNCHANGED <<screen, job, starting, connected, poll, sweep>>

\* The task of the screen ends; what the sign-in tasks do to the login is
\* TokenStore's.
JobEnds ==
    /\ job = "running"
    /\ job' \in {"ok", "err"}
    /\ UNCHANGED <<screen, service, starting, connected, poll, sweep>>

(* A poll whose handle was dropped runs on, and nobody reads what it says. *)
Attached(s) == state = "Connecting" /\ stream = s
PollSays(s, pc) ==
    poll' = [poll EXCEPT ![s] = IF Attached(s) \/ pc = "refreshing" THEN pc ELSE "idle"]

(* refresh_state of a session that has ended is a 404. *)
StateAnswers(s) == IF server[s] = "ended" THEN {"gone", "failed"}
                   ELSE {"waiting", "provisioned", "refreshing", "failed"}

\* poll_provisioning: refresh_state, then in ReadyToConnect get_passport_token.
PollAnswers(s) ==
    /\ poll[s] = "asking"
    /\ \E pc \in StateAnswers(s) : PollSays(s, pc)
    /\ UNCHANGED <<screen, job, service, starting, connected, sweep>>

\* The passport token, then the connect request.
PollRefreshes(s) ==
    /\ poll[s] = "refreshing"
    /\ \E pc \in {"waiting", "failed"} : PollSays(s, pc)
    /\ UNCHANGED <<screen, job, service, starting, connected, sweep>>

\* The worker closes or fails, or the keep-alive finds the session inactive.
BackendEnds ==
    /\ backend = "running"
    /\ backend' \in {"closed", "failed"}
    /\ UNCHANGED <<screen, job, service, starting, stream, failures, poll, sweep>>

(***************************************************************************)
(* tick(): one action per screen that has something to pump.               *)
(***************************************************************************)

(* poll_job: the handle is finished, with a value or an error. *)
FinishedWell == job = "ok"
Finished == job \in {"ok", "err"}

\* With a saved login its credentials are fetched, without one it is asked for.
TickInit ==
    /\ state = "Init"
    /\ \E saved \in BOOLEAN :
        /\ SetScreen(IF saved THEN "LoadingCredentials" ELSE "Language", kind)
        /\ job' = IF saved THEN "running" ELSE "none"
    /\ UNCHANGED <<service, starting, connected, poll, sweep>>

TickDeviceCode ==
    /\ state = "RequestingCode" /\ Finished
    /\ IF job = "ok" THEN SetScreen("WaitingCode", kind) /\ job' = "running"
                     ELSE ErrorScreen(FALSE) /\ job' = "none"
    /\ UNCHANGED <<service, starting, connected, poll, sweep>>

TickAuthorization ==
    /\ state = "WaitingCode" /\ Finished
    /\ SetScreen(IF job = "ok" THEN "LoadingCredentials" ELSE "RequestingCode", kind)
    /\ job' = "running"
    /\ UNCHANGED <<service, starting, connected, poll, sweep>>

\* pump_credentials: the clean-up of both kinds is spawned and left to itself.
TickCredentials ==
    /\ state = "LoadingCredentials" /\ Finished
    /\ IF job = "ok"
       THEN /\ SetScreen("ModeSelect", kind)
            /\ sweep' = [todo |-> <<"Cloud", "Home">>, paths |-> {}]
       ELSE ErrorScreen(TRUE) /\ UNCHANGED sweep
    /\ job' = "none"
    /\ UNCHANGED <<service, starting, connected, poll>>

\* pump_titles, pump_consoles
TickLoading ==
    /\ state = "Loading" /\ ~settings /\ Finished
    /\ IF job = "ok" THEN SetScreen("List", kind) ELSE ErrorScreen(FALSE)
    /\ job' = "none"
    /\ UNCHANGED <<service, starting, connected, poll, sweep>>

TickStarting ==
    /\ state = "Starting" /\ start.pc \in {"done", "failed"}
    /\ IF start.pc = "done"
       THEN /\ state' = "Connecting"
            /\ stream' = start.made
            /\ failures' = 0
            /\ UNCHANGED <<kind, settings, paused, menuOpen, retry, backend>>
       ELSE ErrorScreen(FALSE) /\ UNCHANGED connected
    /\ start' = NoStart
    /\ UNCHANGED <<job, service, unswept, poll, sweep>>

\* Every 500 ms a poll is spawned.
TickAsks ==
    /\ state = "Connecting" /\ poll[stream] = "idle"
    /\ poll' = [poll EXCEPT ![stream] = "asking"]
    /\ UNCHANGED <<screen, job, service, starting, connected, sweep>>

\* handle_connecting_poll_result
TickProvisioned ==
    /\ state = "Connecting" /\ poll[stream] = "provisioned"
    /\ \/ /\ SetScreen("Streaming", kind)
          /\ backend' = "running"
          /\ UNCHANGED <<stream, service>>
       \/ /\ Stop(stream)
          /\ ErrorScreen(FALSE)
          /\ stream' = NoSession
          /\ UNCHANGED backend
    /\ failures' = 0
    /\ poll' = [poll EXCEPT ![stream] = "idle"]
    /\ UNCHANGED <<job, starting, sweep>>

TickWaits ==
    /\ state = "Connecting" /\ poll[stream] = "waiting"
    /\ failures' = 0
    /\ poll' = [poll EXCEPT ![stream] = "idle"]
    /\ UNCHANGED <<screen, job, service, starting, stream, backend, sweep>>

(* consecutive_failures += 1 *)
OneMore == failures + 1

(* The session is gone, or too many polls in a row failed. *)
GivesUp(pc, n) == pc = "gone" \/ n >= MaxFailures

\* A failed poll gives the session up without stopping it.
TickPollFailed ==
    /\ state = "Connecting" /\ poll[stream] \in {"failed", "gone"}
    /\ IF GivesUp(poll[stream], OneMore)
       THEN /\ ErrorScreen(FALSE)
            /\ stream' = NoSession
            /\ failures' = 0
       ELSE /\ failures' = OneMore
            /\ UNCHANGED <<screen, stream>>
    /\ poll' = [poll EXCEPT ![stream] = "idle"]
    /\ UNCHANGED <<job, service, starting, backend, sweep>>

KeepsStreamAliveInFront == state = "Streaming" /\ ~settings

(* The stream is pumped under the settings screen too. *)
KeepsStreamAlive == state = "Streaming"

\* pump_rtc_session: exit_stream when it closed, an error screen when it failed.
TickStreaming ==
    /\ KeepsStreamAlive /\ backend \in {"closed", "failed"}
    /\ Stop(stream)
    /\ IF backend = "closed" THEN SetScreen("List", kind) ELSE ErrorScreen(FALSE)
    /\ stream' = NoSession
    /\ backend' = "none"
    /\ UNCHANGED <<job, starting, failures, poll, sweep>>

Tick == \/ TickInit \/ TickDeviceCode \/ TickAuthorization \/ TickCredentials
        \/ TickLoading \/ TickStarting \/ TickAsks \/ TickProvisioned \/ TickWaits
        \/ TickPollFailed \/ TickStreaming

(***************************************************************************)
(* Commands.  The keys go to the menu while it is open; a touch on a       *)
(* widget reaches its screen all the same.                                 *)
(***************************************************************************)

AtKeys(ss) == state \in ss /\ ~settings /\ ~menuOpen

LanguageContinue ==
    /\ state = "Language"
    /\ SetScreen("RequestingCode", kind)
    /\ job' = "running"
    /\ UNCHANGED <<service, starting, connected, poll, sweep>>

\* choose_stream_kind of the row; returning to the list starts over too.
ModeConfirm(k) ==
    /\ AtKeys({"ModeSelect"})
    /\ SetScreen("Loading", k)
    /\ job' = "running"
    /\ UNCHANGED <<service, starting, connected, poll, sweep>>

ListBack ==
    /\ AtKeys(Lists)
    /\ SetScreen("ModeSelect", kind)
    /\ job' = "none"
    /\ UNCHANGED <<service, starting, connected, poll, sweep>>

CleanUpForgotten(k) == Swept
CleanUp(k) == [todo |-> <<k>>, paths |-> {}]

\* start_stream_for_target
ListConfirm ==
    /\ AtKeys({"List"})
    /\ SetScreen("Starting", kind)
    /\ start' = [pc |-> "sweeping", sweep |-> CleanUp(kind), made |-> NoSession]
    /\ unswept' = FALSE
    /\ UNCHANGED <<job, service, connected, poll, sweep>>

(* The job is aborted: what it asked the service for has been done, will not be *)
(* done, or, if it was the start request, may still travel.                     *)
Aborted == NoStart

StartingBack ==
    /\ AtKeys({"Starting"})
    /\ SetScreen("List", kind)
    /\ start' = Aborted
    /\ \/ UNCHANGED server
       \/ /\ start.pc = "sweeping" /\ start.sweep = Swept
          /\ \E s \in Unused : server' = [server EXCEPT ![s] = Late(kind)]
    /\ UNCHANGED <<job, refused, unswept, connected, poll, sweep>>

\* A poll in flight is detached, not aborted.
ConnectingBack ==
    /\ AtKeys({"Connecting"})
    /\ Stop(stream)
    /\ SetScreen("List", kind)
    /\ stream' = NoSession
    /\ failures' = 0
    /\ poll' = IF poll[stream] \in {"asking", "refreshing"} THEN poll
               ELSE [poll EXCEPT ![stream] = "idle"]
    /\ UNCHANGED <<job, starting, backend, sweep>>

ErrorBack ==
    /\ AtKeys({"Error"})
    /\ IF retry THEN SignInGate ELSE SetScreen("ModeSelect", kind)
    /\ UNCHANGED <<job, service, starting, connected, poll, sweep>>

OpenPauseOverlay ==
    /\ state = "Streaming" /\ ~settings /\ ~paused
    /\ paused' = TRUE
    /\ menuOpen' = FALSE
    /\ UNCHANGED <<state, kind, settings, retry, job, service, starting, connected, poll, sweep>>

AtOverlay == state = "Streaming" /\ ~settings /\ paused

\* Resume and PressGuideButton.
Resume ==
    /\ AtOverlay
    /\ paused' = FALSE
    /\ menuOpen' = FALSE
    /\ UNCHANGED <<state, kind, settings, retry, job, service, starting, connected, poll, sweep>>

\* exit_stream
ExitGame ==
    /\ AtOverlay
    /\ Stop(stream)
    /\ SetScreen("List", kind)
    /\ stream' = NoSession
    /\ backend' = "none"
    /\ UNCHANGED <<job, starting, failures, poll, sweep>>

\* open_settings, from the overlay's row or the menu's.
OpenSettings ==
    /\ AtOverlay \/ (menuOpen /\ ~settings)
    /\ settings' = TRUE
    /\ menuOpen' = FALSE
    /\ UNCHANGED <<state, kind, paused, retry, job, service, starting, connected, poll, sweep>>

LeaveSettings ==
    /\ settings /\ ~menuOpen
    /\ settings' = FALSE
    /\ menuOpen' = FALSE
    /\ UNCHANGED <<state, kind, paused, retry, job, service, starting, connected, poll, sweep>>

HasMenu == ~settings /\ (state \in Lists \/ (state = "Streaming" /\ paused))

ToggleMenu ==
    /\ HasMenu
    /\ menuOpen' = ~menuOpen
    /\ UNCHANGED <<state, kind, settings, paused, retry, job, service, starting, connected, poll, sweep>>

\* Service::logout, then the sign-in gate.  The stream of a paused game goes with
\* the state it is part of; nothing stops it.
Logout ==
    /\ menuOpen
    /\ sweep = Swept  \* bound: one sign-in's clean-up at a time
    /\ SignInGate
    /\ job' = "none"
    /\ stream' = NoSession
    /\ backend' = "none"
    /\ UNCHANGED <<service, starting, failures, poll, sweep>>

Command ==
    \/ LanguageContinue \/ \E k \in Kinds : ModeConfirm(k) \/ ListBack \/ ListConfirm
    \/ StartingBack \/ ConnectingBack \/ ErrorBack \/ OpenPauseOverlay \/ Resume \/ ExitGame
    \/ OpenSettings \/ LeaveSettings \/ ToggleMenu \/ Logout

Task == \/ JobEnds \/ StartLists \/ StartStops \/ StartPlays
        \/ \E s \in Sessions : PollAnswers(s) \/ PollRefreshes(s)
        \/ SweepLists \/ SweepStops \/ LatePlays

Next == Tick \/ Command \/ Task \/ BackendEnds

Init ==
    /\ state \in {"Init", "Error"} /\ retry = (state = "Error")
    /\ kind = "Cloud" /\ settings = FALSE /\ paused = FALSE /\ menuOpen = FALSE
    /\ stream = NoSession /\ job = "none" /\ start = NoStart /\ failures = 0
    /\ poll = [s \in Sessions |-> "idle"]
    /\ backend = "none"
    /\ server \in [Sessions -> {"unused", "Cloud"}]
    /\ refused = {} /\ unswept = FALSE
    /\ sweep = Swept

(* The frame loop ticks for ever, and every request has a timeout. *)
Fairness == /\ WF_vars(Tick)
            /\ WF_vars(JobEnds)
            /\ WF_vars(StartLists \/ StartStops \/ StartPlays)
            /\ \A s \in Sessions : WF_vars(PollAnswers(s) \/ PollRefreshes(s))

Spec == Init /\ [][Next]_vars /\ Fairness

(***************************************************************************)
(* Properties.                                                             *)
(***************************************************************************)

\* Whatever an aborted start, a failed connection or a signed-out stream left
\* at the service is gone before another stream of its kind runs: while one
\* connects or plays, each other session its endpoint lists is one whose list
\* or whose stop the service refused, or one made by a start request that was
\* still under way when its start was aborted and was answered later.
OrphansAreSwept ==
    state \in {"Connecting", "Streaming"} /\ ~unswept =>
        \A s \in Sessions \ {stream} : server[s] = kind => s \in refused

\* A stream that ended is left, with the settings screen open over it as well.
EndedStreamIsLeft == (state = "Streaming" /\ backend \in {"closed", "failed"}) ~> (state # "Streaming")

\* No screen that waits for one job waits for ever: the job ends and a tick reads
\* it, unless the user opens the settings over it.  The sign-in screens, which
\* renew an expired code, and the connecting one, which may stand in the service's
\* queue, wait for as long as it takes and are left out.
Waiting == state \in {"Init", "LoadingCredentials", "Loading", "Starting"}
WaitingEnds == (Waiting /\ ~settings) ~> (~Waiting \/ settings)

=============================================================================
