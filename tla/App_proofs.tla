------------------------------ MODULE App_proofs ------------------------------
(***************************************************************************)
(* The application's screens, for any number of sessions: what an aborted  *)
(* start or a signed-out stream left at the service is swept before the    *)
(* next stream of its kind.  The clean-up a start begins with lists the    *)
(* sessions first and stops them one by one, so the invariant follows the  *)
(* sessions through the list, the paths still to stop, the answer of the   *)
(* start request, and the connection.                                      *)
(*                                                                         *)
(* The settings form, for any number of rows: the focus stays on one.      *)
(***************************************************************************)
EXTENDS MCApp, SequenceTheorems, TLAPS

Screens == {"Init", "LoadingCredentials", "Language", "RequestingCode", "WaitingCode",
            "ModeSelect", "Loading", "List", "Starting", "Connecting", "Streaming", "Error"}

Endpoint == {"unused", "LateCloud", "LateHome", "ended", "Cloud", "CloudF2p", "Home"}

\* A session made by an aborted start is exempt from then on.
MadeLate ==
    \E s \in Sessions, k \in Kinds : \E e \in Endpoints(k) :
        server' = [server EXCEPT ![s] = e] /\ refused' = refused \cup {s}

ScreensOK ==
    /\ state \in Screens
    /\ kind \in Kinds
    /\ server \in [Sessions -> Endpoint]
    /\ unswept \in BOOLEAN
    /\ stream \in Sessions \cup {NoSession}

StartsOK ==
    start \in [pc : {"none", "sweeping", "failed", "done"},
               sweep : [todo : {<<>>, <<"Cloud">>, <<"Home">>}, paths : SUBSET Sessions],
               made : Sessions \cup {NoSession}]

\* Only the starting screen has a start, and the menu does not open over it.
StartIsShown ==
    /\ (state = "Starting") <=> (start.pc # "none")
    /\ menuOpen => state \in Lists \cup {"Streaming"}

\* The start lists the sessions of its own kind.
ListsItsKind == start.pc = "sweeping" => start.sweep.todo \in {<<>>, <<kind>>}

\* There is a session to connect to, to play and to stop.
SessionIsThere ==
    /\ start.pc = "done" => start.made \in Sessions
    /\ state \in {"Connecting", "Streaming"} => stream \in Sessions

Refused(s) == server[s] = kind => s \in refused

\* With the list read, what it named is still to be stopped, or was refused.
ListedIsStopped ==
    start.pc = "sweeping" /\ start.sweep.todo = <<>> /\ ~unswept =>
        \A s \in Sessions : Refused(s) \/ s \in start.sweep.paths

\* Between the answer and the connection the service has one session more.
MadeIsAlone ==
    start.pc = "done" /\ ~unswept => \A s \in Sessions \ {start.made} : Refused(s)

SweepInv == /\ ScreensOK /\ StartsOK /\ StartIsShown /\ ListsItsKind
            /\ SessionIsThere /\ ListedIsStopped /\ MadeIsAlone /\ OrphansAreSwept

-----------------------------------------------------------------------------
\* A stop request makes no session: what was refused or elsewhere stays so, and
\* the session that was to be stopped has ended or is refused from now on.
LEMMA StopSweeps ==
  ASSUME ScreensOK, NEW s, Stop(s)
  PROVE  /\ server' \in [Sessions -> Endpoint]
         /\ \A t \in Sessions, k \in Kinds :
               (server[t] = k => t \in refused) => (server'[t] = k => t \in refused')
         /\ s \in Sessions => \A k \in Kinds : server'[s] = k => s \in refused'
BY DEF ScreensOK, Stop, Kinds, Endpoint

\* A step on another screen than those of a start or a stream.
LEMMA OffTheStream ==
  ASSUME SweepInv, ScreensOK', StartsOK',
         state' \notin {"Starting", "Connecting", "Streaming"}, start'.pc = "none",
         menuOpen' => state' \in Lists
  PROVE  SweepInv'
BY DEF SweepInv, StartIsShown, ListsItsKind, ListedIsStopped, MadeIsAlone, OrphansAreSwept,
       SessionIsThere

\* A step of something else: the screen is the same, with the menu or without it, the
\* start as well, and what happened at the service, if anything, was a stop request or
\* the late answer to an aborted start.
LEMMA OnTheSide ==
  ASSUME SweepInv, state' = state, kind' = kind, start' = start, unswept' = unswept,
         stream' = stream, menuOpen' => state \in Lists \cup {"Streaming"},
         UNCHANGED service \/ (\E s : Stop(s)) \/ MadeLate
  PROVE  SweepInv'
<1>1. CASE UNCHANGED service
  BY <1>1 DEF SweepInv, ScreensOK, StartsOK, StartIsShown, ListsItsKind, ListedIsStopped, SessionIsThere,
              MadeIsAlone, OrphansAreSwept, Refused, service
<1>2. CASE \E s : Stop(s)
  <2> PICK s : Stop(s)
    BY <1>2
  <2>1. /\ server' \in [Sessions -> Endpoint]
        /\ \A t \in Sessions : Refused(t) => Refused(t)'
    BY StopSweeps DEF SweepInv, ScreensOK, Refused
  <2> QED
    BY <2>1 DEF SweepInv, ScreensOK, StartsOK, StartIsShown, ListsItsKind, ListedIsStopped, SessionIsThere,
                MadeIsAlone, OrphansAreSwept, Refused
<1>3. CASE MadeLate
  <2> PICK s \in Sessions, k \in Kinds : \E e \in Endpoints(k) :
        server' = [server EXCEPT ![s] = e] /\ refused' = refused \cup {s}
    BY <1>3 DEF MadeLate
  <2>1. /\ server' \in [Sessions -> Endpoint]
        /\ \A t \in Sessions : Refused(t) => Refused(t)'
    BY DEF SweepInv, ScreensOK, Refused, Endpoints, Endpoint
  <2> QED
    BY <2>1 DEF SweepInv, ScreensOK, StartsOK, StartIsShown, ListsItsKind, ListedIsStopped, SessionIsThere,
                MadeIsAlone, OrphansAreSwept, Refused
<1> QED BY <1>1, <1>2, <1>3

\* A stream that is given up, with a stop request or without one.
LEMMA StreamIsStopped ==
  ASSUME SweepInv, state \in {"Connecting", "Streaming"}, UNCHANGED starting,
         UNCHANGED service \/ Stop(stream), stream' \in Sessions \cup {NoSession},
         NEW s \in Screens \ {"Starting", "Connecting", "Streaming"}, SetState(s, kind)
  PROVE  SweepInv'
<1>1. stream \in Sessions
  BY DEF SweepInv, SessionIsThere
<1>2. server' \in [Sessions -> Endpoint]
  BY <1>1, StopSweeps DEF SweepInv, ScreensOK, service
<1>3. state' = s /\ kind' = kind /\ ~menuOpen'
  BY DEF SetState
<1> QED
  BY <1>2, <1>3, OffTheStream DEF SweepInv, ScreensOK, StartsOK, StartIsShown, starting

-----------------------------------------------------------------------------
\* The ticks: only those of a start and of a connection touch the sweep.
LEMMA TickSweeps ==
  ASSUME SweepInv, Tick
  PROVE  SweepInv'
<1> USE NoSessionAssumption
<1>1. CASE TickInit \/ TickDeviceCode \/ TickAuthorization \/ TickCredentials \/ TickLoading
  <2>1. /\ state' \in Screens \ {"Starting", "Connecting", "Streaming"} /\ kind' = kind
        /\ ~menuOpen' /\ UNCHANGED <<service, starting, connected>>
        /\ state \notin {"Starting", "Connecting", "Streaming"}
    BY <1>1 DEF TickInit, TickDeviceCode, TickAuthorization, TickCredentials, TickLoading,
                SetScreen, ErrorScreen, SetState, Screens
  <2> QED
    BY <2>1, OffTheStream DEF SweepInv, ScreensOK, StartsOK, StartIsShown, service, starting,
                              connected
<1>2. CASE TickStarting
  <2>1. CASE start.pc = "done"
    <3>1. /\ state' = "Connecting" /\ stream' = start.made /\ start' = NoStart
          /\ UNCHANGED <<kind, menuOpen, server, refused, unswept>> /\ state = "Starting"
      BY <1>2, <2>1 DEF TickStarting, service
    <3>2. start'.pc = "none" /\ start.made \in Sessions /\ ~menuOpen'
      BY <2>1, <3>1 DEF NoStart, SweepInv, SessionIsThere, StartIsShown, Lists
    <3>3. ScreensOK' /\ StartsOK'
      BY <3>1, <3>2 DEF SweepInv, ScreensOK, StartsOK, Screens, NoStart, Swept
    <3>4. OrphansAreSwept'
      BY <2>1, <3>1, Zenon DEF SweepInv, MadeIsAlone, OrphansAreSwept, Refused
    <3> QED
      BY <3>1, <3>2, <3>3, <3>4 DEF SweepInv, StartIsShown, ListsItsKind, SessionIsThere,
                                    ListedIsStopped, MadeIsAlone
  <2>2. CASE start.pc # "done"
    <3>1. /\ state' = "Error" /\ kind' = kind /\ ~menuOpen' /\ start' = NoStart
          /\ UNCHANGED <<service, unswept, connected>>
      BY <1>2, <2>2 DEF TickStarting, ErrorScreen, SetState
    <3> QED
      BY <3>1, OffTheStream DEF SweepInv, ScreensOK, StartsOK, Screens, service, connected,
                                NoStart, Swept
  <2> QED BY <2>1, <2>2
<1>3. CASE TickAsks \/ TickWaits
  <2>1. /\ UNCHANGED <<screen, service, starting, stream>>
    BY <1>3 DEF TickAsks, TickWaits, connected
  <2> QED
    BY <2>1, OnTheSide DEF SweepInv, StartIsShown, screen, starting
<1>4. CASE TickProvisioned
  <2>1. CASE SetScreen("Streaming", kind) /\ UNCHANGED <<stream, service>>
    <3>1. /\ state = "Connecting" /\ state' = "Streaming" /\ ~menuOpen'
          /\ UNCHANGED <<kind, server, refused, stream, start, unswept>>
      BY <1>4, <2>1 DEF TickProvisioned, SetScreen, SetState, service, starting
    <3>2. ScreensOK' /\ StartsOK'
      BY <3>1 DEF SweepInv, ScreensOK, StartsOK, Screens
    <3>3. OrphansAreSwept'
      BY <3>1, Zenon DEF SweepInv, OrphansAreSwept
    <3> QED
      BY <3>1, <3>2, <3>3 DEF SweepInv, StartIsShown, ListsItsKind, SessionIsThere,
                              ListedIsStopped, MadeIsAlone
  <2>2. CASE Stop(stream) /\ ErrorScreen(FALSE)
    <3>1. state = "Connecting" /\ UNCHANGED starting /\ stream' \in Sessions \cup {NoSession}
      BY <1>4, <2>2 DEF TickProvisioned, SweepInv, ScreensOK, ErrorScreen, SetScreen, SetState
    <3> QED BY <2>2, <3>1, StreamIsStopped DEF ErrorScreen, Screens
  <2> QED BY <1>4, <2>1, <2>2 DEF TickProvisioned
<1>5. CASE TickPollFailed
  <2>1. CASE ErrorScreen(FALSE)
    <3>1. state = "Connecting" /\ UNCHANGED <<starting, service>> /\ stream' \in Sessions \cup {NoSession}
      BY <1>5, <2>1 DEF TickPollFailed, SweepInv, ScreensOK
    <3> QED BY <2>1, <3>1, StreamIsStopped DEF ErrorScreen, Screens
  <2>2. CASE UNCHANGED <<screen, stream>>
    <3>1. UNCHANGED <<service, starting>>
      BY <1>5 DEF TickPollFailed
    <3> QED
      BY <2>2, <3>1, OnTheSide DEF SweepInv, StartIsShown, screen, starting
  <2> QED BY <1>5, <2>1, <2>2 DEF TickPollFailed
<1>6. CASE TickStreaming
  <2>1. state = "Streaming" /\ UNCHANGED starting /\ Stop(stream)
    BY <1>6 DEF TickStreaming, KeepsStreamAlive
  <2> QED BY <1>6, <2>1, StreamIsStopped DEF TickStreaming, SetScreen, ErrorScreen, Screens
<1> QED BY <1>1, <1>2, <1>3, <1>4, <1>5, <1>6 DEF Tick

\* The commands: ListConfirm begins a clean-up with the list of its own kind.
LEMMA CommandSweeps ==
  ASSUME SweepInv, Command
  PROVE  SweepInv'
<1> USE NoSessionAssumption
<1>1. CASE LanguageContinue \/ ListBack \/ ErrorBack \/ \E k \in Kinds : ModeConfirm(k)
  <2>1. /\ state' \in Screens \ {"Starting", "Connecting", "Streaming"} /\ kind' \in Kinds
        /\ ~menuOpen' /\ UNCHANGED <<service, starting, connected>>
        /\ state \notin {"Starting", "Connecting", "Streaming"}
    BY <1>1 DEF LanguageContinue, ListBack, ErrorBack, ModeConfirm, AtKeys, Lists, SignInGate,
                SetScreen, ErrorScreen, SetState, Screens, SweepInv, ScreensOK
  <2> QED
    BY <2>1, OffTheStream DEF SweepInv, ScreensOK, StartsOK, StartIsShown, service, starting,
                              connected
<1>2. CASE ListConfirm
  <2>1. /\ state' = "Starting" /\ kind' = kind /\ ~menuOpen' /\ unswept' = FALSE
        /\ start' = [pc |-> "sweeping", sweep |-> CleanUp(kind), made |-> NoSession]
        /\ UNCHANGED <<service, stream>>
    BY <1>2 DEF ListConfirm, SetScreen, SetState, connected
  <2>2. StartsOK'
    BY <2>1 DEF SweepInv, ScreensOK, StartsOK, CleanUp, Kinds
  <2>3. start'.sweep.todo = <<kind>> /\ <<kind>> # <<>> /\ start'.pc = "sweeping"
    BY <2>1 DEF CleanUp
  <2> QED
    BY <2>1, <2>2, <2>3 DEF SweepInv, ScreensOK, StartIsShown, ListsItsKind, SessionIsThere,
         ListedIsStopped, MadeIsAlone, OrphansAreSwept, Screens, service
<1>3. CASE StartingBack
  <2>1. /\ state' = "List" /\ kind' = kind /\ ~menuOpen' /\ start' = NoStart
        /\ UNCHANGED <<unswept, connected>>
    BY <1>3 DEF StartingBack, SetScreen, SetState, Aborted
  <2>2. server' \in [Sessions -> Endpoint]
    BY <1>3 DEF StartingBack, Unused, Late, Endpoint, SweepInv, ScreensOK
  <2> QED
    BY <2>1, <2>2, OffTheStream DEF SweepInv, ScreensOK, StartsOK, Screens, service, connected,
                              NoStart, Swept
<1>4. CASE ConnectingBack
  <2>1. /\ state = "Connecting" /\ UNCHANGED starting /\ Stop(stream) /\ stream' = NoSession
        /\ SetState("List", kind)
    BY <1>4 DEF ConnectingBack, AtKeys, SetScreen
  <2> QED BY <2>1, StreamIsStopped DEF Screens
<1>5. CASE ExitGame
  <2>1. /\ state = "Streaming" /\ UNCHANGED starting /\ Stop(stream) /\ stream' = NoSession
        /\ SetState("List", kind)
    BY <1>5 DEF ExitGame, AtOverlay, SetScreen
  <2> QED BY <2>1, StreamIsStopped DEF Screens
<1>6. CASE OpenPauseOverlay \/ Resume \/ OpenSettings \/ LeaveSettings \/ ToggleMenu
  <2>1. /\ UNCHANGED <<state, kind, service, starting, stream>>
        /\ menuOpen' => state \in Lists \cup {"Streaming"}
    BY <1>6 DEF OpenPauseOverlay, Resume, OpenSettings, LeaveSettings, ToggleMenu, HasMenu,
                connected
  <2> QED BY <2>1, OnTheSide DEF starting
<1>7. CASE Logout
  <2>1. /\ state' \in {"Init", "Error"} /\ kind' = kind /\ ~menuOpen' /\ stream' = NoSession
        /\ UNCHANGED <<service, starting>> /\ menuOpen
    BY <1>7 DEF Logout, SignInGate, SetScreen, ErrorScreen, SetState
  <2> QED
    BY <2>1, OffTheStream DEF SweepInv, ScreensOK, StartsOK, StartIsShown, Screens, Lists,
                              service, starting
<1> QED BY <1>1, <1>2, <1>3, <1>4, <1>5, <1>6, <1>7 DEF Command

-----------------------------------------------------------------------------
\* The tasks: the list names every session of the kind, a stop ends one of them or is
\* refused, and only then the start request makes one more.
LEMMA TaskSweeps ==
  ASSUME SweepInv, Task
  PROVE  SweepInv'
<1>1. CASE JobEnds \/ SweepLists \/ \E s \in Sessions : PollAnswers(s) \/ PollRefreshes(s)
  <2>1. UNCHANGED <<screen, service, starting, connected>>
    BY <1>1 DEF JobEnds, SweepLists, PollAnswers, PollRefreshes
  <2> QED
    BY <2>1, OnTheSide DEF SweepInv, StartIsShown, screen, starting, connected
<1>2. CASE SweepStops
  <2>1. /\ UNCHANGED <<screen, starting, connected>>
        /\ \E s \in sweep.paths : Stop(s)
    BY <1>2 DEF SweepStops
  <2> QED
    BY <2>1, OnTheSide DEF SweepInv, StartIsShown, screen, starting, connected
<1>3. CASE StartLists
  <2> PICK fails \in BOOLEAN :
        start' = [start EXCEPT !.sweep = SweepList(@, fails)] /\ unswept' = fails
    BY <1>3 DEF StartLists
  <2>1. /\ start.pc = "sweeping" /\ UNCHANGED <<screen, service, connected>>
        /\ CanList(start.sweep)
    BY <1>3 DEF StartLists
  <2>2. /\ start'.sweep = SweepList(start.sweep, fails)
        /\ start'.pc = start.pc /\ start'.made = start.made
    BY DEF SweepInv, StartsOK
  <2>3. /\ start'.sweep.todo = <<>>
        /\ start'.sweep.paths = IF fails THEN {} ELSE ListActive(kind)
    <3>1. start.sweep.todo \in {<<>>, <<kind>>}
      BY <2>1 DEF SweepInv, ListsItsKind
    <3>2. start.sweep.todo = <<kind>>
      BY <2>1, <3>1 DEF CanList
    <3>3. Tail(<<kind>>) = <<>> /\ Head(<<kind>>) = kind
      OBVIOUS
    <3> DEFINE listed == IF fails THEN {} ELSE ListActive(kind)
    <3>4. start'.sweep = [todo |-> <<>>, paths |-> listed]
      BY <2>2, <3>2, <3>3, Zenon DEF SweepList
    <3> HIDE DEF listed
    <3>5. start'.sweep.todo = <<>> /\ start'.sweep.paths = listed
      BY <3>4
    <3> QED BY <3>5, Zenon DEF listed
  <2>4. StartsOK'
    <3>1. start'.sweep = [todo |-> <<>>, paths |-> start'.sweep.paths]
      BY <2>2, <2>3 DEF SweepList
    <3>2. start'.sweep.paths \subseteq Sessions
      BY <2>3 DEF ListActive
    <3> QED BY <2>2, <3>1, <3>2 DEF SweepInv, StartsOK
  <2>5. ListedIsStopped'
    BY <2>1, <2>3 DEF ListedIsStopped, Refused, ListActive, screen, service
  <2> QED
    BY <2>1, <2>2, <2>3, <2>4, <2>5 DEF SweepInv, ScreensOK, StartIsShown, ListsItsKind,
         SessionIsThere, MadeIsAlone, OrphansAreSwept, screen, service, connected
<1>4. CASE StartStops
  <2> PICK s \in start.sweep.paths :
        Stop(s) /\ start' = [start EXCEPT !.sweep.paths = @ \ {s}]
    BY <1>4 DEF StartStops
  <2>1. start.pc = "sweeping" /\ UNCHANGED <<screen, unswept, connected>> /\ s \in Sessions
    BY <1>4 DEF StartStops, SweepInv, StartsOK
  <2>2. /\ start'.sweep.paths = start.sweep.paths \ {s} /\ start'.sweep.todo = start.sweep.todo
        /\ start'.pc = start.pc /\ start'.made = start.made
        /\ StartsOK'
    BY DEF SweepInv, StartsOK
  <2>3. /\ server' \in [Sessions -> Endpoint]
        /\ \A t \in Sessions : Refused(t) => Refused(t)'
        /\ Refused(s)'
    BY <2>1, StopSweeps DEF SweepInv, ScreensOK, Refused, screen
  <2>4. ListedIsStopped'
    BY <2>1, <2>2, <2>3 DEF SweepInv, ListedIsStopped
  <2> QED
    BY <2>1, <2>2, <2>3, <2>4 DEF SweepInv, ScreensOK, StartIsShown, ListsItsKind,
         SessionIsThere, MadeIsAlone, OrphansAreSwept, screen, connected
<1>5. CASE StartPlays
  <2>1. /\ start.pc = "sweeping" /\ start.sweep = Swept /\ state = "Starting"
        /\ UNCHANGED <<screen, refused, unswept, connected>>
    BY <1>5 DEF StartPlays, SweepInv, StartIsShown
  <2>2. start.sweep.todo = <<>> /\ start.sweep.paths = {}
    BY <2>1 DEF Swept
  <2>3. CASE /\ start' = [start EXCEPT !.pc = "failed"]
             /\ UNCHANGED server \/ \E s, e : e \in Endpoints(kind) /\ server' = [server EXCEPT ![s] = e]
    <3>1. server' \in [Sessions -> Endpoint]
      BY <2>3 DEF SweepInv, ScreensOK, Endpoints, Endpoint
    <3>2. start'.pc = "failed" /\ StartsOK'
      BY <2>3 DEF SweepInv, StartsOK
    <3> QED
      BY <2>1, <3>1, <3>2 DEF SweepInv, ScreensOK, StartIsShown, ListsItsKind,
         SessionIsThere, ListedIsStopped, MadeIsAlone, OrphansAreSwept, screen, connected
  <2>4. CASE \E s \in Unused, e \in Endpoints(kind) :
               /\ server' = [server EXCEPT ![s] = e]
               /\ start' = [start EXCEPT !.pc = "done", !.made = s]
    <3> PICK s \in Unused, e \in Endpoints(kind) :
               /\ server' = [server EXCEPT ![s] = e]
               /\ start' = [start EXCEPT !.pc = "done", !.made = s]
      BY <2>4
    <3>1. s \in Sessions /\ server' \in [Sessions -> Endpoint]
      BY DEF Unused, Endpoints, Endpoint, SweepInv, ScreensOK
    <3>2. start'.pc = "done" /\ start'.made = s /\ start'.sweep = start.sweep /\ StartsOK'
      BY <3>1 DEF SweepInv, StartsOK
    <3>3. \A t \in Sessions \ {s} : server'[t] = server[t]
      BY DEF SweepInv, ScreensOK
    <3>4. MadeIsAlone'
      BY <2>1, <2>2, <3>2, <3>3 DEF SweepInv, ListedIsStopped, MadeIsAlone, Refused, screen
    <3> QED
      BY <2>1, <3>1, <3>2, <3>4 DEF SweepInv, ScreensOK, StartIsShown, ListsItsKind,
           SessionIsThere, ListedIsStopped, OrphansAreSwept, screen, connected
  <2>5. CASE start' = [start EXCEPT !.pc = "failed"] /\ UNCHANGED server
    BY <2>3, <2>5
  <2>6. CASE \E s \in Unused, e \in Endpoints(kind), lost \in BOOLEAN :
               /\ server' = [server EXCEPT ![s] = e]
               /\ start' = IF lost THEN [start EXCEPT !.pc = "failed"]
                           ELSE [start EXCEPT !.pc = "done", !.made = s]
    <3> PICK s \in Unused, e \in Endpoints(kind), lost \in BOOLEAN :
               /\ server' = [server EXCEPT ![s] = e]
               /\ start' = IF lost THEN [start EXCEPT !.pc = "failed"]
                           ELSE [start EXCEPT !.pc = "done", !.made = s]
      BY <2>6
    <3>1. CASE lost
      BY <2>3, <3>1
    <3>2. CASE ~lost
      BY <2>4, <3>2
    <3> QED BY <3>1, <3>2
  <2> QED
    BY <1>5, <2>5, <2>6 DEF StartPlays
<1>6. CASE LatePlays
  <2>1. MadeLate /\ UNCHANGED <<screen, starting, connected>>
    BY <1>6 DEF LatePlays, MadeLate
  <2> QED
    BY <2>1, OnTheSide DEF SweepInv, StartIsShown, screen, starting, connected
<1> QED BY <1>1, <1>2, <1>3, <1>4, <1>5, <1>6 DEF Task

LEMMA InitSweeps ==
  ASSUME Init
  PROVE  SweepInv
BY DEF Init, SweepInv, ScreensOK, StartsOK, StartIsShown, ListsItsKind, SessionIsThere,
       ListedIsStopped, MadeIsAlone, OrphansAreSwept, NoStart, Swept, Screens, Kinds, Endpoint

LEMMA NextSweeps ==
  ASSUME SweepInv, [Next]_vars
  PROVE  SweepInv'
<1>1. CASE BackendEnds
  BY <1>1, OnTheSide DEF BackendEnds, SweepInv, StartIsShown, screen, service, starting
<1>2. CASE UNCHANGED vars
  BY <1>2, OnTheSide DEF vars, SweepInv, StartIsShown, screen, service, starting, connected
<1> QED
  BY <1>1, <1>2, TickSweeps, CommandSweeps, TaskSweeps DEF Next

\* Whatever was left at the service is gone before another stream of its kind runs,
\* however many sessions there are, but for refused stops and late answers to aborted
\* starts: a start lists them all and stops each before it asks for its own (stream_session/mod.rs, api_xbox/stream.rs).
THEOREM StartsSweepOrphans == Spec => []OrphansAreSwept
<1>1. Spec => []SweepInv
  BY InitSweeps, NextSweeps, PTL DEF Spec
<1>2. SweepInv => OrphansAreSwept
  BY DEF SweepInv
<1> QED BY <1>1, <1>2, PTL

-----------------------------------------------------------------------------
(* The settings form. *)

RowKinds == {"locales", "locale", "game", "shared", "debug", "cap", "back"}
FormRow == {r \in [kind : RowKinds, value : Int] : r.kind = "locale" => r.value \in DOMAIN Locales}

RowsIn(open, game) == (IF open THEN Len(Locales) ELSE 0) + (IF game THEN 6 ELSE 5)
RowCount == RowsIn(expanded, titled)

HasLocale(s) ==
    \E l \in DOMAIN Locales : \E c, d : s = [locale |-> l, cap |-> c, debug |-> d]

\* The focus is within the rows there are, on the settings screen and off it; what is
\* stored has one of the locales, so that opening their list finds its row.
FormInv == /\ expanded \in BOOLEAN /\ titled \in BOOLEAN
           /\ row \in 1 .. RowCount
           /\ HasLocale(stored) /\ (file = Form!Gone \/ HasLocale(file))

LEMMA RowsInside ==
  ASSUME NEW open \in BOOLEAN, NEW game \in BOOLEAN
  PROVE  /\ RowsIn(open, game) \in Nat /\ RowsIn(open, game) >= 5
         /\ open => RowsIn(open, game) >= Len(Locales) + 1
<1>1. Len(Locales) \in Nat
  BY LocalesAssumption
<1>2. /\ open /\ game => RowsIn(open, game) = Len(Locales) + 6
      /\ open /\ ~game => RowsIn(open, game) = Len(Locales) + 5
      /\ ~open /\ game => RowsIn(open, game) = 0 + 6
      /\ ~open /\ ~game => RowsIn(open, game) = 0 + 5
  BY Zenon DEF RowsIn
<1> QED BY <1>1, <1>2

LEMMA LocaleIsHad ==
  ASSUME NEW l \in DOMAIN Locales, NEW c, NEW d
  PROVE  HasLocale([locale |-> l, cap |-> c, debug |-> d])
BY DEF HasLocale

LEMMA LocaleOfSettings ==
  ASSUME NEW s, HasLocale(s)
  PROVE  /\ s.locale \in DOMAIN Locales
         /\ \A l \in DOMAIN Locales : HasLocale([s EXCEPT !.locale = l])
         /\ \A c : HasLocale([s EXCEPT !.cap = c])
         /\ \A d : HasLocale([s EXCEPT !.debug = d])
<1> PICK l \in DOMAIN Locales : \E c, d : s = [locale |-> l, cap |-> c, debug |-> d]
  BY DEF HasLocale
<1> PICK c, d : s = [locale |-> l, cap |-> c, debug |-> d]
  OBVIOUS
<1>1. s.locale = l
  OBVIOUS
<1>2. /\ \A m : [s EXCEPT !.locale = m] = [locale |-> m, cap |-> c, debug |-> d]
      /\ \A m : [s EXCEPT !.cap = m] = [locale |-> l, cap |-> m, debug |-> d]
      /\ \A m : [s EXCEPT !.debug = m] = [locale |-> l, cap |-> c, debug |-> m]
  OBVIOUS
<1>3. /\ \A m \in DOMAIN Locales : HasLocale([locale |-> m, cap |-> c, debug |-> d])
      /\ \A m : HasLocale([locale |-> l, cap |-> m, debug |-> d])
      /\ \A m : HasLocale([locale |-> l, cap |-> c, debug |-> m])
  BY LocaleIsHad
<1>4. \A m \in DOMAIN Locales : HasLocale([s EXCEPT !.locale = m])
  BY <1>2, <1>3, Zenon
<1>5. ASSUME NEW m
      PROVE  HasLocale([s EXCEPT !.cap = m]) /\ HasLocale([s EXCEPT !.debug = m])
  <2>1. HasLocale([locale |-> l, cap |-> m, debug |-> d])
    BY <1>3
  <2>2. HasLocale([locale |-> l, cap |-> c, debug |-> m])
    BY <1>3
  <2>3. [s EXCEPT !.cap = m] = [locale |-> l, cap |-> m, debug |-> d]
    BY <1>2
  <2>4. [s EXCEPT !.debug = m] = [locale |-> l, cap |-> c, debug |-> m]
    BY <1>2
  <2> QED BY <2>1, <2>2, <2>3, <2>4, Zenon
<1> QED BY <1>1, <1>4, <1>5

\* How many rows there are, and that only a locale's row names one.
LEMMA RowsCounted ==
  ASSUME expanded \in BOOLEAN, titled \in BOOLEAN
  PROVE  Form!Rows \in Seq(FormRow) /\ Len(Form!Rows) = RowCount
<1> DEFINE head == <<Form!Row("locales", 0)>>
           list == IF expanded THEN [i \in DOMAIN Locales |-> Form!Row("locale", i)] ELSE <<>>
           middle == IF titled THEN <<Form!Row("game", 0), Form!Row("game", 1)>>
                     ELSE <<Form!Row("shared", 0)>>
           tail == <<Form!Row("debug", 0), Form!Row("cap", 0), Form!Row("back", 0)>>
<1>1. Locales \in Seq(STRING) /\ DOMAIN Locales = 1 .. Len(Locales) /\ Len(Locales) \in Nat
  BY LocalesAssumption
<1>0. /\ \A k \in RowKinds \ {"locale"}, v \in Int : Form!Row(k, v) \in FormRow
      /\ \A v \in DOMAIN Locales : Form!Row("locale", v) \in FormRow
  BY <1>1 DEF Form!Row, FormRow, RowKinds
<1> {"locales", "game", "shared", "debug", "cap", "back"} \subseteq RowKinds \ {"locale"}
  BY DEF RowKinds
<1>2. head \in Seq(FormRow) /\ Len(head) = 1
  BY <1>0
<1>3. list \in Seq(FormRow) /\ Len(list) = IF expanded THEN Len(Locales) ELSE 0
  <2>1. CASE expanded
    <3>1. \A i \in 1 .. Len(Locales) : Form!Row("locale", i) \in FormRow
      BY <1>0, <1>1
    <3>2. list = [i \in 1 .. Len(Locales) |-> Form!Row("locale", i)]
      BY <1>1, <2>1
    <3> HIDE DEF list
    <3> QED BY <1>1, <2>1, <3>1, <3>2
  <2>2. CASE ~expanded
    BY <2>2
  <2> QED BY <2>1, <2>2
<1>4. middle \in Seq(FormRow) /\ Len(middle) = IF titled THEN 2 ELSE 1
  BY <1>0
<1>5. tail \in Seq(FormRow) /\ Len(tail) = 3
  BY <1>0
<1>6. Form!Rows = ((head \o list) \o middle) \o tail
  BY Zenon DEF Form!Rows
<1> HIDE DEF head, list, middle, tail
<1>7. head \o list \in Seq(FormRow) /\ Len(head \o list) = Len(head) + Len(list)
  BY <1>2, <1>3, ConcatProperties
<1>8. /\ (head \o list) \o middle \in Seq(FormRow)
      /\ Len((head \o list) \o middle) = Len(head \o list) + Len(middle)
  BY <1>4, <1>7, ConcatProperties
<1>9. Form!Rows \in Seq(FormRow) /\ Len(Form!Rows) = Len((head \o list) \o middle) + Len(tail)
  BY <1>5, <1>6, <1>8, ConcatProperties
<1>10. Len(Form!Rows) = 1 + Len(list) + Len(middle) + 3 /\ Len(list) \in Nat
  BY <1>2, <1>3, <1>4, <1>5, <1>7, <1>8, <1>9
<1>11. RowCount = Len(list) + (IF titled THEN 6 ELSE 5)
  BY <1>3, Zenon DEF RowCount, RowsIn
<1>12. Len(Form!Rows) = RowCount
  BY <1>4, <1>10, <1>11
<1> QED BY <1>9, <1>12

LEMMA RowsOfTheForm ==
  ASSUME FormInv
  PROVE  /\ DOMAIN Form!Rows = 1 .. RowCount /\ Len(Form!Rows) = RowCount /\ RowCount \in Nat
         /\ \A i \in DOMAIN Form!Rows : Form!Rows[i].kind = "locale" =>
               Form!Rows[i].value \in DOMAIN Locales
<1>1. Form!Rows \in Seq(FormRow) /\ Len(Form!Rows) = RowCount
  BY RowsCounted DEF FormInv
<1>2. RowCount \in Nat
  BY RowsInside DEF FormInv, RowCount
<1>3. DOMAIN Form!Rows = 1 .. RowCount
      /\ \A i \in 1 .. RowCount : Form!Rows[i] \in FormRow
  BY <1>1
<1> QED BY <1>1, <1>2, <1>3 DEF FormRow

\* Saving settings that have a locale.
LEMMA SaveKeepsLocale ==
  ASSUME FormInv, NEW s, HasLocale(s), Form!Save(s)
  PROVE  HasLocale(stored)' /\ (file = Form!Gone \/ HasLocale(file))'
BY DEF FormInv, Form!Save, HasLocale

\* A row that is chosen, by touch or by the pad.
LEMMA RowKeepsFocus ==
  ASSUME FormInv, NEW i \in DOMAIN Form!Rows,
         Form!ConfirmRow(Form!Rows[i]) \/ Form!TouchRow(Form!Rows[i])
  PROVE  FormInv'
<1> DEFINE chosen == Form!Rows[i]
<1>0. Len(Locales) \in Nat /\ DOMAIN Locales = 1 .. Len(Locales)
  BY LocalesAssumption
<1>1. CASE Form!ToggleLocales
  <2>1. stored.locale \in 1 .. Len(Locales)
    BY <1>0, LocaleOfSettings DEF FormInv
  <2>2. /\ expanded' = ~expanded /\ row' = IF expanded THEN 1 ELSE 1 + stored.locale
        /\ UNCHANGED <<titled, stored, file>>
    BY <1>1 DEF Form!ToggleLocales
  <2>3. row' \in 1 .. RowCount'
    <3>1. /\ RowCount' \in Nat /\ RowCount' >= 5
          /\ expanded' => RowCount' >= Len(Locales) + 1
      BY <2>2, RowsInside DEF FormInv, RowCount
    <3>2. CASE expanded
      <4>1. row' = 1
        BY <2>2, <3>2
      <4> QED BY <3>1, <4>1
    <3>3. CASE ~expanded
      <4>1. row' = 1 + stored.locale /\ expanded'
        BY <2>2, <3>3
      <4> QED BY <1>0, <2>1, <3>1, <4>1
    <3> QED BY <3>2, <3>3
  <2>4. HasLocale(stored)' /\ (file = Form!Gone \/ HasLocale(file))'
    BY <2>2 DEF FormInv, HasLocale
  <2> QED BY <2>2, <2>3, <2>4 DEF FormInv
<1>2. CASE chosen.kind = "locale" /\ Form!SetLocale(chosen.value)
  <2>1. chosen.value \in DOMAIN Locales
    BY <1>2, RowsOfTheForm
  <2>2. HasLocale([stored EXCEPT !.locale = chosen.value])
    BY <2>1, LocaleOfSettings DEF FormInv
  <2>3. HasLocale(stored)' /\ (file = Form!Gone \/ HasLocale(file))'
    <3>1. CASE UNCHANGED <<stored, file>>
      BY <3>1 DEF FormInv, HasLocale
    <3>2. CASE Form!Save([stored EXCEPT !.locale = chosen.value])
      BY <2>2, <3>2, SaveKeepsLocale
    <3> QED BY <1>2, <3>1, <3>2 DEF Form!SetLocale
  <2>4. expanded' = FALSE /\ row' = 1 /\ titled' = titled
    BY <1>2 DEF Form!SetLocale, Form!Collapse
  <2>5. row' \in 1 .. RowCount'
    <3>1. RowCount' \in Nat /\ RowCount' >= 5
      BY <2>4, RowsInside DEF FormInv, RowCount
    <3> QED BY <2>4, <3>1
  <2> QED BY <2>3, <2>4, <2>5 DEF FormInv
<1>3. ASSUME NEW s, Form!Change(s), HasLocale(s)
      PROVE  FormInv'
  <2>1. UNCHANGED <<titled, expanded, row>> /\ Form!Save(s)
    BY <1>3 DEF Form!Change
  <2>2. HasLocale(stored)' /\ (file = Form!Gone \/ HasLocale(file))'
    BY <1>3, <2>1, SaveKeepsLocale
  <2> QED BY <2>1, <2>2 DEF FormInv, RowCount
<1>4. CASE Form!Leave
  BY <1>4 DEF Form!Leave, FormInv, RowCount, HasLocale
<1>5. HasLocale(stored) /\ \A c : HasLocale([stored EXCEPT !.cap = c])
                       /\ \A d : HasLocale([stored EXCEPT !.debug = d])
  BY LocaleOfSettings DEF FormInv
<1> QED
  BY <1>1, <1>2, <1>3, <1>4, <1>5 DEF Form!ConfirmRow, Form!TouchRow, Form!Activate

LEMMA FormStepKeepsFocus ==
  ASSUME FormInv, [Form!Next]_(Form!vars)
  PROVE  FormInv'
<1>0. Len(Locales) \in Nat \ {0} /\ DOMAIN Locales = 1 .. Len(Locales)
  BY LocalesAssumption
<1>1. CASE Form!Confirm
  <2>1. row \in DOMAIN Form!Rows
    BY RowsOfTheForm DEF FormInv
  <2> QED BY <1>1, <2>1, RowKeepsFocus DEF Form!Confirm
<1>2. CASE Form!Touch
  BY <1>2, RowKeepsFocus DEF Form!Touch
<1>3. CASE Form!Move
  <2>1. row' \in {Form!MovePrev, Form!MoveNext} /\ UNCHANGED <<titled, expanded, stored, file>>
    BY <1>3 DEF Form!Move
  <2>2. row' \in 1 .. RowCount
    BY <2>1, RowsOfTheForm DEF Form!MovePrev, Form!MoveNext, FormInv
  <2> QED BY <2>1, <2>2 DEF FormInv, RowCount, HasLocale
<1>4. CASE Form!OpenSettings
  <2>1. /\ expanded' = FALSE /\ titled' \in BOOLEAN /\ row' = 1 /\ UNCHANGED <<stored, file>>
    BY <1>4 DEF Form!OpenSettings
  <2>2. row' \in 1 .. RowCount'
    <3>1. RowCount' \in Nat /\ RowCount' >= 5
      BY <2>1, RowsInside DEF FormInv, RowCount
    <3> QED BY <2>1, <3>1
  <2>3. HasLocale(stored)' /\ (file = Form!Gone \/ HasLocale(file))'
    BY <2>1 DEF FormInv, HasLocale
  <2> QED BY <2>1, <2>2, <2>3 DEF FormInv
<1>5. CASE Form!Boot
  <2>1. expanded' = FALSE /\ titled' = FALSE /\ row' = 1 /\ file' = file /\ stored' \in Form!Load
    BY <1>5 DEF Form!Boot
  <2>2. HasLocale(Form!Default)
    BY <1>0, LocaleIsHad DEF Form!Default
  <2>3. HasLocale(stored')
    BY <2>1, <2>2 DEF Form!Load, FormInv
  <2>4. row' \in 1 .. RowCount'
    <3>1. RowCount' \in Nat /\ RowCount' >= 5
      BY <2>1, RowsInside DEF FormInv, RowCount
    <3> QED BY <2>1, <3>1
  <2>5. HasLocale(stored)' /\ (file = Form!Gone \/ HasLocale(file))'
    BY <2>1, <2>3 DEF FormInv, HasLocale
  <2> QED BY <2>1, <2>4, <2>5 DEF FormInv
<1>6. CASE Form!ApplyCap
  <2>1. Form!Save([stored EXCEPT !.cap = advice]) /\ UNCHANGED <<titled, expanded, row>>
    BY <1>6 DEF Form!ApplyCap
  <2>2. HasLocale([stored EXCEPT !.cap = advice])
    BY LocaleOfSettings DEF FormInv
  <2>3. HasLocale(stored)' /\ (file = Form!Gone \/ HasLocale(file))'
    BY <2>1, <2>2, SaveKeepsLocale
  <2> QED BY <2>1, <2>3 DEF FormInv, RowCount
<1>7. CASE Form!ProbeEnds \/ Form!Tick \/ Form!Dismiss \/ Form!Back \/ Form!Elsewhere
           \/ UNCHANGED Form!vars
  BY <1>7 DEF Form!ProbeEnds, Form!Tick, Form!Dismiss, Form!Back, Form!Leave, Form!Elsewhere,
              Form!vars, FormInv, RowCount, HasLocale
<1> QED
  BY <1>1, <1>2, <1>3, <1>4, <1>5, <1>6, <1>7 DEF Form!Next

LEMMA FormBeginsFocused ==
  ASSUME Form!Init
  PROVE  FormInv
<1>1. 1 \in DOMAIN Locales
  BY LocalesAssumption
<1>2. HasLocale(stored)
  BY <1>1, LocaleIsHad DEF Form!Init, Form!Default
<1>3. RowCount \in Nat /\ RowCount >= 5
  BY RowsInside DEF Form!Init, RowCount
<1>4. expanded \in BOOLEAN /\ titled \in BOOLEAN /\ file = Form!Gone
  BY Zenon DEF Form!Init
<1>5. row = 1
  BY DEF Form!Init
<1>6. row \in 1 .. RowCount
  BY <1>3, <1>5
<1> QED BY <1>2, <1>4, <1>6, Zenon DEF FormInv

\* The focus of the settings form is on a row, however many languages there are and in
\* whatever order the list opens, closes and is touched (settings_form.rs).
THEOREM FocusStaysOnARow == Form!Spec => []FocusIsOnARow
<1>1. Form!Spec => []FormInv
  BY FormBeginsFocused, FormStepKeepsFocus, PTL DEF Form!Spec
<1>2. FormInv => FocusIsOnARow
  BY RowsOfTheForm DEF FormInv, FocusIsOnARow, Form!FocusIsOnARow
<1> QED BY <1>1, <1>2, PTL

=============================================================================
