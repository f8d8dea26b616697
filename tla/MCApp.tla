-------------------------------- MODULE MCApp --------------------------------
(***************************************************************************)
(* The application's screens with their sessions, and the settings form    *)
(* with the bitrate advice.  What they share, opening and leaving the      *)
(* settings, either module has for itself, so they are checked side by     *)
(* side: the initial state picks the one that goes on, the other stays as  *)
(* it begins.                                                              *)
(***************************************************************************)
EXTENDS AppStates, Integers

CONSTANTS Locales, Ladder, DefaultCap, Rtts, MaxProbes, MaxBoots   \* of CapAdvisor

ASSUME LocalesAssumption == Locales \in Seq(STRING) \ {<<>>}

TwoLocales == <<"en", "fr">>
TwoPresets == <<0, 5000>>

VARIABLES
    inForm,    \* the form goes on, else the screens
    page, return, titled, expanded, row, stored, file, probes, mailbox, advice, dismissed,
    boots                                                               \* of CapAdvisor

NoDownlink == -1

Form == INSTANCE CapAdvisor WITH
          DebugModes <- <<"off">>, Downlinks <- {NoDownlink}, screen <- page, selected <- row, settings <- stored

formVars == <<page, return, titled, expanded, row, stored, file, probes, mailbox, advice,
              dismissed, boots>>

mcVars == <<inForm, vars, formVars>>

\* The screens stand still in one of their initial states.
OneStart == state = "Init" /\ server = [s \in Sessions |-> "unused"]

MCInit == inForm \in BOOLEAN /\ Init /\ Form!Init /\ (inForm => OneStart)

MCNext ==
    \/ ~inForm /\ Next /\ UNCHANGED <<inForm, formVars>>
    \/ inForm /\ Form!Next /\ UNCHANGED <<inForm, vars>>

\* The fairness of either module, for the one that goes on.
MCFairness ==
    /\ WF_vars(~inForm /\ Tick)
    /\ WF_vars(~inForm /\ JobEnds)
    /\ WF_vars(~inForm /\ (StartLists \/ StartStops \/ StartPlays))
    /\ \A s \in Sessions : WF_vars(~inForm /\ (PollAnswers(s) \/ PollRefreshes(s)))
    /\ WF_formVars(inForm /\ Form!ProbeEnds)
    /\ WF_formVars(inForm /\ Form!Tick)

MCSpec == MCInit /\ [][MCNext]_mcVars /\ MCFairness

-----------------------------------------------------------------------------
\* The focus is on a row of the form, whatever opens, closes and is touched.
FocusIsOnARow == Form!FocusIsOnARow

\* A probe that runs leads to advice unless the program ends first: in its last run
\* it does (app/mod.rs, netprobe.rs).
AdviceComes == Form!AdviceComes

\* No screen that waits for one job does so for ever, unless the user opens the
\* settings over it.
ScreensMoveOn == ~inForm => WaitingEnds
=============================================================================
