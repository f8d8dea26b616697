------------------------------- MODULE MCFront -------------------------------
(***************************************************************************)
(* Two parts of the front end: the saved login, and the list of titles     *)
(* with its loading worker.  They share no state and are checked side by   *)
(* side: the initial state picks the one that goes on, the other stays as  *)
(* it begins.                                                              *)
(***************************************************************************)
EXTENDS TokenStore

CONSTANTS Count, Listed, Radius, PerTick, MaxJobs, MaxPrefetch, MaxResults, Languages,
          MaxPanics, Panicky

ASSUME CatalogAssumption ==
    /\ Count \in Nat \ {0} /\ Listed \subseteq 0 .. Count - 1 /\ Radius \in Nat /\ MaxPanics \in Nat
    /\ PerTick \in Nat \ {0} /\ MaxJobs \in Nat \ {0} /\ MaxPrefetch \in Nat \ {0}
    /\ MaxResults \in Nat \ {0}
    /\ {None, "empty", "failed"} \cap Languages = {}
    /\ None \notin [kind : {"metadata", "cover", "icon"}, title : 0 .. Count - 1, locale : Languages]

VARIABLES
    inList,    \* the list goes on, else the login
    shown, title, locale, titles, queue, prefetch, working, results, panicked    \* of Catalog

List == INSTANCE Catalog WITH Locales <- Languages, selected <- title, jobs <- queue

listVars == <<shown, title, locale, titles, queue, prefetch, working, results, panicked>>
mcVars == <<inList, vars, listVars>>

\* A part that stays as it begins begins in one way only.
OneDisk == disk = [file |-> NoFile, key |-> None]
OneLocale == locale = CHOOSE l \in Languages : TRUE

MCInit ==
    /\ inList \in BOOLEAN
    /\ Init /\ List!Init
    /\ IF inList THEN OneDisk ELSE OneLocale

MCNext ==
    \/ ~inList /\ Next /\ UNCHANGED <<inList, listVars>>
    \/ inList /\ List!Next /\ UNCHANGED <<inList, vars>>

\* The fairness of the list; the login asks for none.
ListFairness ==
    /\ WF_listVars(inList /\ List!Tick)
    /\ WF_listVars(inList /\ List!Worker)
    /\ SF_listVars(inList /\ List!EndJob(TRUE))

MCSpec == MCInit /\ [][MCNext]_mcVars /\ ListFairness

-----------------------------------------------------------------------------
\* What is pending is on its way exactly once, unless a panic took it (titles.rs).
PendingIsOnItsWay == List!PendingIsOnItsWay

\* No text or picture asked for in another locale is on the list (service.rs).
DetailsMatchLocale == List!DetailsMatchLocale

\* The title the user stays on gets its details and its picture, unless it has none,
\* its one request for details failed, or a panic took a request (titles.rs).
SelectedIsShown == inList => List!SelectedIsShown
=============================================================================
