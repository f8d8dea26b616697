----------------------------- MODULE CapAdvisor -----------------------------
(***************************************************************************)
(* The settings and the bitrate advice: the settings form (its rows, its   *)
(* focus, touch and pad), the file behind it (settings.rs), and the probe  *)
(* that suggests a cap (shell/netprobe.rs), which runs on threads of its   *)
(* own and reports through a mailbox that every tick looks at.             *)
(*                                                                         *)
(* Of the settings the model keeps the locale, the cap and the debug mode; *)
(* a toggle, of a game's profile or for all games, is a row that saves.    *)
(***************************************************************************)
EXTENDS Integers, Sequences, SequencesExt

CONSTANTS Locales,        \* as a sequence: Locale::ALL
          Ladder,         \* BITRATE_PRESETS_KBPS
          DefaultCap,     \* 15_000: above the ladder
          DebugModes,     \* StreamDebugMode, in the order a touch walks
          Rtts, Downlinks,   \* what a probe may measure, None included
          MaxProbes, MaxBoots   \* bounds

None == -1

VARIABLES screen,         \* "entry", "list", "settings", "stream"
          return, titled, \* where leaving the settings leads; title_id is there
          expanded, selected,  \* locale_expanded, selected (from 1)
          settings,       \* in memory
          file,           \* settings.json: a settings record or Gone
          probes, mailbox, advice, dismissed,
          boots

vars == <<screen, return, titled, expanded, selected, settings, file,
          probes, mailbox, advice, dismissed, boots>>

Gone == [locale |-> None, cap |-> None, debug |-> None]

Default == [locale |-> 1, cap |-> DefaultCap, debug |-> 1]

(* ------------------------------ the probe ------------------------------- *)

(* suggest_kbps, in kbit/s, from milliseconds and tenths of a Mbit/s.      *)
Suggest(rtt, down) ==
  CASE down # None /\ down < 8                          -> 1000
    [] down \in 8 .. 24                                 -> 1500
    [] down \in 25 .. 59                                -> IF rtt >= 15 THEN 2500 ELSE 5000
    [] down >= 60                                       -> 5000
    [] down = None /\ rtt = None                        -> 0
    [] down = None /\ rtt # None /\ rtt < 15            -> 5000
    [] down = None /\ rtt \in 15 .. 39                  -> 1500
    [] down = None /\ rtt >= 40                         -> 1000

(* run_probe: without a round trip the downlink is not tried.              *)
ProbeEnds ==
  /\ probes > 0 /\ probes' = probes - 1
  /\ \E rtt \in Rtts, down \in Downlinks :
       /\ rtt = None => down = None
       /\ mailbox' = Suggest(rtt, down)
  /\ UNCHANGED <<screen, return, titled, expanded, selected, settings, file, advice, dismissed, boots>>

(* maybe_start_cap_probe: a result nobody took yet prevents a new probe,   *)
(* one still running does not; without a gateway there is none either.     *)
MaybeProbe ==
  \/ mailbox = None /\ probes < MaxProbes /\ probes' = probes + 1
  \/ UNCHANGED probes

(* set_state, as far as the advisor sees it. *)
SetState(s) == screen' = s /\ IF s = "list" THEN MaybeProbe ELSE UNCHANGED probes

(* The head of App::tick. *)
ReadyOnList == advice = None /\ screen = "list"    \* looks only while the banner may show
Ready == advice = None

Tick ==
  /\ Ready /\ mailbox # None
  /\ advice' = mailbox /\ mailbox' = None
  /\ UNCHANGED <<screen, return, titled, expanded, selected, settings, file, probes, dismissed, boots>>

(* ------------------------------ the file -------------------------------- *)

(* save: the old file is removed first; an error is only logged.           *)
Save(s) == settings' = s /\ file' \in {s, Gone, file}

(* A banner button: the cap is stored as suggested, and the banner is gone *)
(* until the next start.                                                   *)
BannerShown == screen = "list" /\ advice \notin {None, 0} /\ ~ dismissed

ApplyCap ==
  /\ BannerShown /\ dismissed' = TRUE
  /\ Save([settings EXCEPT !.cap = advice])
  /\ UNCHANGED <<screen, return, titled, expanded, selected, probes, mailbox, advice, boots>>

Dismiss ==
  /\ BannerShown /\ dismissed' = TRUE
  /\ UNCHANGED <<screen, return, titled, expanded, selected, settings, file, probes, mailbox, advice, boots>>

(* The program ends anywhere and is started again: load falls back to the  *)
(* defaults when the file is gone or cannot be read.                       *)
Load == IF file = Gone THEN {Default} ELSE {file, Default}

Boot ==
  /\ boots < MaxBoots /\ boots' = boots + 1
  /\ settings' \in Load
  /\ screen' = "entry" /\ return' = "entry" /\ titled' = FALSE /\ expanded' = FALSE /\ selected' = 1
  /\ probes' = 0 /\ mailbox' = None /\ advice' = None /\ dismissed' = FALSE
  /\ UNCHANGED file

(* ------------------------------ the form -------------------------------- *)

(* settings_rows: one of the toggles is there or the other.                *)
Row(k, v) == [kind |-> k, value |-> v]

Rows ==
  <<Row("locales", 0)>>
  \o (IF expanded THEN [i \in DOMAIN Locales |-> Row("locale", i)] ELSE <<>>)
  \o (IF titled THEN <<Row("game", 0), Row("game", 1)>> ELSE <<Row("shared", 0)>>)
  \o <<Row("debug", 0), Row("cap", 0), Row("back", 0)>>

MovePrev == IF selected = 1 THEN Len(Rows) ELSE selected - 1
MoveNext == IF selected = Len(Rows) THEN 1 ELSE selected + 1

(* Past the last preset, and from a cap off the ladder: the first one.     *)
NextPreset(cap) ==
  LET at == {i \in 1 .. Len(Ladder) - 1 : Ladder[i] = cap}
  IN  IF at = {} THEN Ladder[1] ELSE Ladder[(CHOOSE i \in at : TRUE) + 1]

OpenSettings ==
  /\ screen \in {"list", "stream", "entry"}
  /\ titled' \in IF screen = "entry" THEN {FALSE} ELSE BOOLEAN
  /\ return' = screen /\ expanded' = FALSE /\ selected' = 1 /\ SetState("settings")
  /\ UNCHANGED <<settings, file, mailbox, advice, dismissed, boots>>

Move ==
  /\ screen = "settings" /\ selected' \in {MovePrev, MoveNext}
  /\ UNCHANGED <<screen, return, titled, expanded, settings, file, probes, mailbox, advice, dismissed, boots>>

ToggleLocales ==
  /\ expanded' = ~ expanded
  /\ selected' = IF expanded THEN 1 ELSE 1 + settings.locale
  /\ UNCHANGED <<screen, return, titled, settings, file, probes>>

(* The list closes without moving the focus back. *)
CollapseOnly == expanded' = FALSE /\ UNCHANGED selected
Collapse     == expanded' = FALSE /\ selected' = 1

SetLocale(l) ==
  /\ Collapse
  /\ IF l = settings.locale THEN UNCHANGED <<settings, file>>
                            ELSE Save([settings EXCEPT !.locale = l])
  /\ UNCHANGED <<screen, return, titled, probes>>

Leave == SetState(return) /\ UNCHANGED <<return, titled, expanded, selected, settings, file>>

Change(s) == Save(s) /\ UNCHANGED <<screen, return, titled, expanded, selected, probes>>

(* What both ways of choosing a row do. *)
Activate(row) ==
  \/ row.kind = "locales" /\ ToggleLocales
  \/ row.kind = "locale" /\ SetLocale(row.value)
  \/ row.kind \in {"game", "shared"} /\ Change(settings)
  \/ row.kind = "cap" /\ Change([settings EXCEPT !.cap = NextPreset(@)])
  \/ row.kind = "back" /\ Leave

(* show: a touched row.  The debug row walks on through the modes.         *)
TouchRow(row) ==
  \/ Activate(row)
  \/ row.kind = "debug" /\ Change([settings EXCEPT !.debug = (@ % Len(DebugModes)) + 1])

(* confirm_settings_row: here the debug row stores the mode it shows.      *)
ConfirmRow(row) ==
  \/ Activate(row)
  \/ row.kind = "debug" /\ Change(settings)

(* Confirm acts on the focused row; a row that is not there leaves.        *)
Confirm ==
  /\ screen = "settings"
  /\ IF selected \in DOMAIN Rows THEN ConfirmRow(Rows[selected]) ELSE Leave
  /\ UNCHANGED <<mailbox, advice, dismissed, boots>>

Touch ==
  /\ screen = "settings"
  /\ \E i \in DOMAIN Rows : TouchRow(Rows[i])
  /\ UNCHANGED <<mailbox, advice, dismissed, boots>>

Back ==
  /\ screen = "settings" /\ Leave
  /\ UNCHANGED <<mailbox, advice, dismissed, boots>>

(* The other screens, as AppStates runs them. *)
Elsewhere ==
  /\ \/ screen = "entry" /\ SetState("list")
     \/ screen = "list" /\ SetState("stream")
     \/ screen = "list" /\ SetState("entry")
     \/ screen = "stream" /\ SetState("entry")
  /\ UNCHANGED <<return, titled, expanded, selected, settings, file, mailbox, advice, dismissed, boots>>

Init ==
  /\ screen = "entry" /\ return = "entry" /\ titled = FALSE /\ expanded = FALSE /\ selected = 1
  /\ settings = Default /\ file = Gone
  /\ probes = 0 /\ mailbox = None /\ advice = None /\ dismissed = FALSE /\ boots = 0

Next == \/ ProbeEnds \/ Tick \/ ApplyCap \/ Dismiss \/ Boot
        \/ OpenSettings \/ Move \/ Confirm \/ Touch \/ Back \/ Elsewhere

(* A probe's socket calls time out; the application ticks every frame.     *)
Fairness == WF_vars(ProbeEnds) /\ WF_vars(Tick)

Spec == Init /\ [][Next]_vars /\ Fairness

(* ----------------------------- what must hold --------------------------- *)

(* The focus is on a row, whatever opens, closes and is touched meanwhile. *)
FocusIsOnARow == screen = "settings" => selected \in DOMAIN Rows

(* In the last run of the program a probe that runs leads to advice.       *)
AdviceComes == boots = MaxBoots /\ probes > 0 ~> advice # None

=============================================================================
