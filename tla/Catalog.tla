------------------------------- MODULE Catalog -------------------------------
(***************************************************************************)
(* The list of titles and the worker that loads what it shows:             *)
(* app/titles.rs decides on every tick what to ask for and what to keep,   *)
(* api/catalog/worker.rs runs one job at a time from two bounded queues,   *)
(* the urgent one first, and blocks on a bounded channel of results; a new *)
(* locale or sign-in starts a new worker (app/service.rs).                 *)
(*                                                                         *)
(* A background is treated like a cover and is left out, as is the avatar; *)
(* the details of a listed title name its pictures.  Details, covers and   *)
(* icons stand for the locale they were asked for in.                      *)
(* The files of the cache are kept per locale, so that a job yields the    *)
(* same with them and without.                                             *)
(***************************************************************************)
EXTENDS Integers, FiniteSets, SequencesExt

CONSTANTS Count,       \* titles in the list
          Listed,      \* those with a metadata_id
          Radius,      \* ICON_CACHE_RADIUS
          PerTick,     \* RESULTS_PER_TICK
          MaxJobs, MaxPrefetch, MaxResults,  \* capacities of the three channels
          Locales,
          MaxPanics,   \* bound: panics of one worker
          Panicky,     \* bound: the kinds of job that may panic
          None         \* nothing there

Titles == 0 .. Count - 1

VARIABLES shown, selected,  \* AppState::TitleList { selected }
          locale,
          titles,           \* details, cover, icon, and what is pending of each
          jobs, prefetch,   \* the two queues of the worker
          working,          \* the job it runs, None or one that is done and waits for room
          results,
          panicked          \* history: jobs of this worker that panicked

vars == <<shown, selected, locale, titles, jobs, prefetch, working, results, panicked>>

Kinds == {"metadata", "cover", "icon"}
Job(kind, t) == [kind |-> kind, title |-> t, locale |-> locale]

AbsDiff(a, b) == IF a > b THEN a - b ELSE b - a

\* title_distance: the list is a ring.
Distance(t) == LET direct == AbsDiff(t, selected)
               IN  IF Count - direct < direct THEN Count - direct ELSE direct

Near == {t \in Titles : Distance(t) <= Radius}
Nearest(ts) == CHOOSE t \in ts : \A u \in ts : \/ Distance(t) < Distance(u)
                                               \/ Distance(t) = Distance(u) /\ t <= u

(***************************************************************************)
(* What a tick does, as steps on the titles and the two queues.            *)
(***************************************************************************)

Now == [titles |-> titles, jobs |-> jobs, prefetch |-> prefetch]

\* prune_title_images
Only(pictures, kept) == [t \in Titles |-> IF t \in kept THEN pictures[t] ELSE None]
Prune(s) == [s EXCEPT !.titles.cover = Only(@, {selected}),
                      !.titles.icon = Only(@, Near)]

\* Requests and prefetches use try_send.
Capacity(queue) == IF queue = "jobs" THEN MaxJobs ELSE MaxPrefetch
Accepts(s, queue) == Len(s[queue]) < Capacity(queue)

\* A full queue takes nothing and leaves nothing pending.
Ask(s, queue, job) ==
    IF ~Accepts(s, queue) THEN s
    ELSE [s EXCEPT ![queue] = Append(@, job),
                   !.titles.pending[job.kind] = @ \cup {job.title}]

\* request_metadata_if_needed
AskMetadataAgain(s, queue, t) ==
    IF t \notin Listed THEN [s EXCEPT !.titles.details[t] = "empty"]
    ELSE Ask(s, queue, Job("metadata", t))

AskMetadataListed(s, queue, t) ==
    IF t \in s.titles.pending["metadata"] \/ t \notin Listed THEN s
    ELSE Ask(s, queue, Job("metadata", t))

AskMetadata(s, queue, t) ==
    IF t \in s.titles.pending["metadata"] THEN s
    ELSE IF t \notin Listed THEN [s EXCEPT !.titles.details[t] = "empty"]
    ELSE Ask(s, queue, Job("metadata", t))

\* GameDetails::default: of a title without a metadata_id, and what is left of a
\* request that failed.
NoDetails == {"empty", "failed"}
HasUrl(s, t) == s.titles.details[t] \notin {None} \cup NoDetails

\* ensure_title_details_job
AskSelected(s) ==
    IF s.titles.details[selected] = None THEN AskMetadata(s, "jobs", selected)
    ELSE IF /\ HasUrl(s, selected)
            /\ s.titles.cover[selected] = None /\ selected \notin s.titles.pending["cover"]
         THEN Ask(s, "jobs", Job("cover", selected))
    ELSE s

\* ensure_icon_prefetch_job: the nearest title without metadata, also when it is
\* pending already, and the nearest without an icon.
AskNearMetadata(s) ==
    LET missing == {t \in Near : s.titles.details[t] = None}
    IN  IF missing = {} THEN s ELSE AskMetadata(s, "prefetch", Nearest(missing))

AskNearIcon(s) ==
    LET missing == {t \in Near : HasUrl(s, t) /\ s.titles.icon[t] = None} \ s.titles.pending["icon"]
    IN  IF missing = {} THEN s ELSE Ask(s, "prefetch", Job("icon", Nearest(missing)))

Wanted(kind, t) ==
    CASE kind = "metadata" -> TRUE [] kind = "cover" -> t = selected [] kind = "icon" -> t \in Near

StillPending(s, r) == s.titles.pending[r.kind] \ {r.title}

Put(pictures, r) == [pictures EXCEPT ![r.title] = IF r.ok THEN r.locale ELSE None]

\* One result: an image of a title that is no longer wanted is dropped.
Received(s, r) ==
    LET done == [s EXCEPT !.titles.pending[r.kind] = StillPending(s, r)]
    IN  IF ~Wanted(r.kind, r.title) THEN done
        ELSE CASE r.kind = "metadata" ->
                    [done EXCEPT !.titles.details[r.title] = IF r.ok THEN r.locale ELSE "failed"]
               [] r.kind = "cover" -> [done EXCEPT !.titles.cover = Put(@, r)]
               [] r.kind = "icon" -> [done EXCEPT !.titles.icon = Put(@, r)]

TakenPerTick == IF Len(results) < PerTick THEN Len(results) ELSE PerTick

\* The results a tick takes, one after the other.
AllReceived(s) ==
    LET after[n \in 0 .. TakenPerTick] ==
            IF n = 0 THEN s ELSE Received(after[n - 1], results[n])
    IN  after[TakenPerTick]

Tick ==
    /\ shown
    /\ \E pruned \in {Prune(Now)} : \E asked \in {AskSelected(pruned)} :
       \E metadata \in {AskNearMetadata(asked)} : \E icons \in {AskNearIcon(metadata)} :
       \E s \in {AllReceived(icons)} :
           /\ titles' = s.titles
           /\ jobs' = s.jobs /\ prefetch' = s.prefetch
    /\ results' = SubSeq(results, TakenPerTick + 1, Len(results))
    /\ UNCHANGED <<shown, selected, locale, working, panicked>>

(***************************************************************************)
(* The user.                                                               *)
(***************************************************************************)

\* Up, down, to another initial, or to the first match of a search.
Select ==
    /\ shown
    /\ selected' \in Titles \ {selected}
    /\ UNCHANGED <<shown, locale, titles, jobs, prefetch, working, results, panicked>>

Leave ==
    /\ shown
    /\ shown' = FALSE
    /\ UNCHANGED <<selected, locale, titles, jobs, prefetch, working, results, panicked>>

Blank == [t \in Titles |-> None]
Fresh == [titles EXCEPT !.details = Blank, !.cover = Blank, !.icon = Blank]

\* Back from the settings or a stream, or with a list that was loaded again.
Return ==
    /\ ~shown
    /\ shown' = TRUE
    /\ \/ UNCHANGED <<selected, titles>>
       \/ selected' = 0 /\ titles' = Fresh
    /\ UNCHANGED <<locale, jobs, prefetch, working, results, panicked>>

NoPending == [k \in Kinds |-> {}]

KeepWorker ==
    /\ titles' = Fresh
    /\ UNCHANGED <<jobs, prefetch, results, working, panicked>>

\* A new worker with channels of its own; the old one is left to itself with its
\* channels, ends its job, and finds nobody to send the result to.
Spawn ==
    /\ jobs' = <<>> /\ prefetch' = <<>> /\ results' = <<>>
    /\ working' = None
    /\ panicked' = {}

\* restart_catalog_worker, with the details of the titles gone.
RestartWorker ==
    /\ titles' = [Fresh EXCEPT !.pending = NoPending]
    /\ Spawn

\* From the settings, which hide the list.
SetLocale ==
    /\ ~shown
    /\ locale' \in Locales \ {locale}
    /\ RestartWorker
    /\ UNCHANGED <<shown, selected>>

\* Signed out or in again: the titles are loaded anew before they are shown.
SignIn ==
    /\ ~shown
    /\ RestartWorker
    /\ selected' = 0
    /\ UNCHANGED <<shown, locale>>

(***************************************************************************)
(* The worker.                                                             *)
(***************************************************************************)

TakeJob ==
    /\ working = None
    /\ \/ /\ jobs # <<>>
          /\ working' = Head(jobs) /\ jobs' = Tail(jobs)
          /\ UNCHANGED prefetch
       \/ /\ jobs = <<>> /\ prefetch # <<>>
          /\ working' = Head(prefetch) /\ prefetch' = Tail(prefetch)
          /\ UNCHANGED jobs
    /\ UNCHANGED <<shown, selected, locale, titles, results, panicked>>

Result(job, ok) == [kind |-> job.kind, title |-> job.title, locale |-> job.locale, ok |-> ok]

\* The job is done, and its result is sent once there is room.
EndJob(ok) ==
    /\ working # None
    /\ Len(results) < MaxResults
    /\ results' = Append(results, Result(working, ok))
    /\ working' = None
    /\ UNCHANGED <<shown, selected, locale, titles, jobs, prefetch, panicked>>

\* "job panicked; continuing": there is no result.
PanicJob ==
    /\ working # None /\ working.kind \in Panicky /\ Cardinality(panicked) < MaxPanics
    /\ panicked' = panicked \cup {<<working.kind, working.title>>}
    /\ working' = None
    /\ UNCHANGED <<shown, selected, locale, titles, jobs, prefetch, results>>

Worker == TakeJob \/ \E ok \in BOOLEAN : EndJob(ok)

Init ==
    /\ shown = TRUE /\ selected = 0 /\ locale \in Locales
    /\ titles = [details |-> Blank, cover |-> Blank, icon |-> Blank, pending |-> NoPending]
    /\ jobs = <<>> /\ prefetch = <<>> /\ working = None /\ results = <<>> /\ panicked = {}

Next == Tick \/ Select \/ Leave \/ Return \/ SetLocale \/ SignIn \/ Worker \/ PanicJob

\* The list ticks while it is shown, the worker runs, requests do not fail for ever.
Fairness == WF_vars(Tick) /\ WF_vars(Worker) /\ SF_vars(EndJob(TRUE))

Spec == Init /\ [][Next]_vars /\ Fairness

(***************************************************************************)
(* Properties.                                                             *)
(***************************************************************************)

InFlight == ToSet(jobs) \cup ToSet(prefetch) \cup ToSet(results)
                \cup (IF working = None THEN {} ELSE {working})
Asked(kind) == {j.title : j \in {i \in InFlight : i.kind = kind}}

\* What is pending is on its way exactly once, in a queue, at work or in the results,
\* however lists are reloaded and locales change; only a panic leaves it pending.
PendingIsOnItsWay ==
    /\ \A k \in Kinds :
        titles.pending[k] = Asked(k) \cup {t \in Titles : <<k, t>> \in panicked}
    /\ Len(jobs) + Len(prefetch) + Len(results) + (IF working = None THEN 0 ELSE 1)
         + Cardinality(panicked) = Cardinality(titles.pending["metadata"])
             + Cardinality(titles.pending["cover"]) + Cardinality(titles.pending["icon"])

\* No text or picture asked for in another locale is on the list, however late a worker answers.
DetailsMatchLocale ==
    \A t \in Titles : /\ titles.details[t] \in {None, locale} \cup NoDetails
                      /\ {titles.cover[t], titles.icon[t]} \subseteq {None, locale}

\* The title the user stays on, in one locale, gets its details and its picture.  It
\* does not if it has no metadata_id; if its one request for details failed, which
\* counts as an answer (unwrap_or_default) and is never repeated; or if a panic took
\* that request or the one for the picture.  A picture that fails is asked for again.
Settled == \/ titles.details[selected] = locale /\ titles.cover[selected] = locale
           \/ titles.details[selected] = "empty" /\ selected \notin Listed
           \/ titles.details[selected] = "failed"
           \/ \E k \in {"metadata", "cover"} : <<k, selected>> \in panicked
Stays == <>[]shown /\ <>[][UNCHANGED <<selected, locale>>]_vars
SelectedIsShown == Stays => []<>Settled

=============================================================================
