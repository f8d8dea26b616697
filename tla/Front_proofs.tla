----------------------------- MODULE Front_proofs -----------------------------
(***************************************************************************)
(* The saved login, for any accounts and keys.  Once the application runs, *)
(* a plaintext file is left on the disk only if its removal failed and a   *)
(* read or a save failed too: a write of the file seals it or removes it,  *)
(* a death inside a write happens on the way out, and what a start finds   *)
(* is removed first, or else overwritten.  As long as nothing but a        *)
(* removal fails, a restart finds the login in memory: each job holds a    *)
(* clone of it, and saves that or nothing.                                 *)
(*                                                                         *)
(* The list of titles, for lists, queues and languages of any size: what   *)
(* is pending has one job or one result, and no text or picture on the     *)
(* list was asked for in another locale.  Jobs and results are told apart  *)
(* by kind and title, and the two queues, the results, the job at work and *)
(* what panics took share no pair of the two; a title is asked for only    *)
(* when it is not pending.                                                 *)
(***************************************************************************)
EXTENDS MCFront, SequenceTheorems, FiniteSetTheorems, WellFoundedInduction, TLAPS

\* The disk is a file and a key, and nothing is said of either.
IsDisk(d) == d = [file |-> d.file, key |-> d.key]

\* A plaintext file is there only if the faults f explain it.
Held(d, f) == IsDisk(d) /\ (d.file.form = "legacy" => {"removal", "storage"} \subseteq f)

\* The answer r leaves no plaintext file that was not there before.
AddsNoPlaintext(d, r) == IsDisk(r.disk) /\ (r.disk.file.form = "legacy" => d.file.form = "legacy")

-----------------------------------------------------------------------------
LEMMA KeyTriedKeepsFile ==
  ASSUME NEW d, IsDisk(d), NEW e \in KeyTried(d)
  PROVE  IsDisk(e) /\ e.file = d.file
BY DEF KeyTried, IsDisk

\* A sealed file, no file and half a file are no plaintext.
LEMMA WrittenSealed ==
  ASSUME NEW d, IsDisk(d), NEW a
  PROVE  IsDisk(Written(d, a)) /\ Written(d, a).file.form # "legacy"
BY DEF Written, Sealed, IsDisk

LEMMA RemovedGone ==
  ASSUME NEW d, IsDisk(d)
  PROVE  IsDisk(FileRemoved(d)) /\ FileRemoved(d).file.form # "legacy"
BY DEF FileRemoved, NoFile, IsDisk

LEMMA TornSealed ==
  ASSUME NEW d, IsDisk(d)
  PROVE  IsDisk([d EXCEPT !.file = Torn]) /\ [d EXCEPT !.file = Torn].file.form # "legacy"
BY DEF Torn, IsDisk

\* A save in good order leaves a sealed file.
LEMMA PersistedSealed ==
  ASSUME NEW d, IsDisk(d), NEW a, NEW e \in Persisted(d, a)
  PROVE  IsDisk(e) /\ e.file.form # "legacy"
<1>1. PICK k : IsDisk(k) /\ e = Written(k, a)
  BY KeyTriedKeepsFile DEF Persisted, KeyKept
<1> QED BY <1>1, WrittenSealed

\* A save that fails leaves plaintext only where there was some.
LEMMA PersistFailsKeeps ==
  ASSUME NEW d, IsDisk(d), NEW a, NEW e \in PersistFails(d, a)
  PROVE  IsDisk(e) /\ (e.file.form = "legacy" => d.file.form = "legacy")
<1>1. CASE e = d
  BY <1>1
<1>2. CASE \E k \in KeyTried(d) : e \in {k, Written(k, a), FileRemoved(k), [k EXCEPT !.file = Torn]}
  <2>1. PICK k \in KeyTried(d) : e \in {k, Written(k, a), FileRemoved(k), [k EXCEPT !.file = Torn]}
    BY <1>2
  <2>2. IsDisk(k) /\ k.file = d.file
    BY KeyTriedKeepsFile
  <2> QED BY <2>1, <2>2, WrittenSealed, RemovedGone, TornSealed
<1> QED BY <1>1, <1>2 DEF PersistFails

\* A save leaves plaintext only where there was some and the save failed.
LEMMA SaveLeaves ==
  ASSUME NEW d, IsDisk(d), NEW a, NEW f, NEW r \in Save(d, a, f)
  PROVE  /\ AddsNoPlaintext(d, r) /\ f \subseteq r.faults
         /\ r.disk.file.form = "legacy" => "storage" \in r.faults
<1>1. CASE \E e \in Persisted(d, a) : r = Answer(a, e, f)
  BY <1>1, PersistedSealed DEF Answer, AddsNoPlaintext
<1>2. CASE \E e \in PersistFails(d, a) : r = Answer(a, e, f \cup {"storage"})
  BY <1>2, PersistFailsKeeps DEF Answer, AddsNoPlaintext
<1> QED BY <1>1, <1>2 DEF Save

LEMMA ClearedAddsNone ==
  ASSUME NEW d, IsDisk(d), NEW r \in Cleared(d)
  PROVE  AddsNoPlaintext(d, r)
<1>1. r.disk \in {BothGone, FileRemoved(d), KeyGone(d), d}
  BY DEF Cleared, Answer
<1>2. IsDisk(KeyGone(d)) /\ KeyGone(d).file = d.file
  BY DEF KeyGone, IsDisk
<1>3. IsDisk(BothGone) /\ BothGone.file.form # "legacy"
  BY DEF BothGone, NoFile, IsDisk
<1> QED BY <1>1, <1>2, <1>3, RemovedGone DEF AddsNoPlaintext

\* Whatever file a start finds, the plaintext it leaves is explained.
LEMMA LoadHeld == ASSUME NEW d, IsDisk(d), NEW r \in Load(d) PROVE Held(r.disk, r.faults)
<1>1. ASSUME r \in Unreadable(d) PROVE Held(r.disk, r.faults)
  BY <1>1, RemovedGone DEF Unreadable, Answer, Held
<1>2. ASSUME r \in Save(FileRemoved(d), d.file.acct, {}) PROVE Held(r.disk, r.faults)
  BY <1>2, RemovedGone, SaveLeaves DEF Held, AddsNoPlaintext
<1>3. ASSUME r \in Save(d, d.file.acct, {"removal"}) PROVE Held(r.disk, r.faults)
  BY <1>3, SaveLeaves DEF Held, AddsNoPlaintext
<1>4. CASE d.file.form = "none"
  <2>1. r = Answer(None, d, {})
    BY <1>4 DEF Load, Opens
  <2> QED BY <1>4, <2>1 DEF Answer, Held
<1>5. CASE d.file.form = "legacy"
  <2>1. Load(d) = Migrate(d) \cup Unreadable(d)
    BY <1>5 DEF Load, Opens
  <2> QED BY <2>1, <1>1, <1>2, <1>3 DEF Migrate
<1>6. CASE d.file.form # "none" /\ d.file.form # "legacy"
  <2>1. r.disk = d \/ r.disk = FileRemoved(d)
    BY <1>6 DEF Load, Unreadable, Answer
  <2> QED BY <1>6, <2>1, RemovedGone DEF Held
<1> QED BY <1>4, <1>5, <1>6

-----------------------------------------------------------------------------
\* A refresh, a refusal and a logout keep what is explained explained.
LEMMA TakenHeld ==
  ASSUME Held(disk, faults), NEW r, AddsNoPlaintext(disk, r), Take(r)
  PROVE  Held(disk', faults')
<1>1. disk' = r.disk /\ faults' = faults \cup r.faults
  BY Zenon DEF Take
<1>2. faults \subseteq faults'
  BY <1>1
<1> QED BY <1>1, <1>2 DEF Held, AddsNoPlaintext

LEMMA RefusedAddsNone ==
  ASSUME IsDisk(disk), NEW r \in Refused
  PROVE  AddsNoPlaintext(disk, r) /\ "refused" \in r.faults
<1>1. PICK c \in Cleared(disk) : r = [c EXCEPT !.faults = @ \cup {"refused"}]
  BY DEF Refused
<1>2. c = [acct |-> c.acct, disk |-> c.disk, faults |-> c.faults]
  BY DEF Cleared, Answer
<1>3. r.disk = c.disk /\ r.faults = c.faults \cup {"refused"}
  BY <1>1, <1>2
<1> QED BY <1>3, ClearedAddsNone DEF AddsNoPlaintext

-----------------------------------------------------------------------------
NoJobs == signIn = NoJob /\ loader = NoJob /\ poll = NoJob /\ late = NoJob

\* While the application is off nothing is known of the file, and no job runs.
PlainInv == IsDisk(disk) /\ NoPlaintext /\ (screen = "off" => NoJobs)

LEMMA PlainStart == Init => PlainInv
<1> SUFFICES ASSUME Init PROVE PlainInv
  OBVIOUS
<1>1. IsDisk(disk)
  BY DEF Init, IsDisk
<1> QED BY <1>1 DEF Init, PlainInv, NoPlaintext, NoJobs

\* A step that leaves the disk and what failed, and stays on, disturbs nothing.
LEMMA QuietStep ==
  ASSUME PlainInv, disk' = disk, faults' = faults, screen # "off", screen' # "off"
  PROVE  PlainInv'
BY DEF PlainInv, NoPlaintext, IsDisk

\* So does a step that leaves the file explained.
LEMMA SavingStep == ASSUME Held(disk', faults'), screen' # "off" PROVE PlainInv'
BY DEF PlainInv, NoPlaintext, Held, IsDisk

LEMMA RunningIsHeld == ASSUME PlainInv, screen # "off" PROVE Held(disk, faults)
BY DEF PlainInv, NoPlaintext, Held

\* A job's save, or its failure before there was anything to save.
LEMMA RefreshHeld ==
  ASSUME PlainInv, screen # "off", screen' # "off", NEW a,
         (\E r \in Refreshed(a) \cup Refused : Take(r)) \/ UNCHANGED <<disk, faults>>
  PROVE  PlainInv'
<1>1. CASE UNCHANGED <<disk, faults>>
  BY <1>1, QuietStep
<1>2. CASE \E r \in Refreshed(a) \cup Refused : Take(r)
  <2>1. PICK r \in Refreshed(a) \cup Refused : Take(r)
    BY <1>2
  <2>2. IsDisk(disk)
    BY DEF PlainInv
  <2>3. AddsNoPlaintext(disk, r)
    BY <2>2, SaveLeaves, RefusedAddsNone DEF Refreshed
  <2> QED BY <2>1, <2>3, RunningIsHeld, TakenHeld, SavingStep
<1> QED BY <1>1, <1>2

LEMMA PlainStep == PlainInv /\ [Next]_vars => PlainInv'
<1> SUFFICES ASSUME PlainInv, [Next]_vars PROVE PlainInv'
  OBVIOUS
<1>1. CASE RequestDeviceCode \/ SignInExpires \/ LoaderExchanges \/ PollAsks \/ LateEnds
  <2>1. screen # "off"
    BY <1>1 DEF PlainInv, NoJobs, NoJob, RequestDeviceCode, SignInExpires, LoaderExchanges, PollAsks, LateEnds
  <2>2. disk' = disk /\ faults' = faults /\ screen' # "off"
    BY <1>1, <2>1 DEF RequestDeviceCode, SignInExpires, LoaderExchanges, PollAsks, LateEnds
  <2> QED BY <2>1, <2>2, QuietStep
<1>2. CASE SignInAuthorized
  <2>1. screen # "off" /\ screen' = screen
    BY <1>2 DEF SignInAuthorized, PlainInv, NoJobs, NoJob
  <2>2. \E a \in Accounts : \E r \in Refreshed(a) : Take(r)
    BY <1>2 DEF SignInAuthorized
  <2> QED BY <2>1, <2>2, RefreshHeld
<1>3. CASE LoaderRefreshes \/ LoaderProfiles \/ PollRefreshes \/ LateRefreshes
  <2>1. screen # "off" /\ screen' = screen
    BY <1>3 DEF LoaderRefreshes, LoaderProfiles, PollRefreshes, LateRefreshes, PlainInv, NoJobs, NoJob
  <2>2. \E a : (\E r \in Refreshed(a) \cup Refused : Take(r)) \/ UNCHANGED <<disk, faults>>
    BY <1>3 DEF LoaderRefreshes, LoaderProfiles, PollRefreshes, LateRefreshes, Refresh
  <2> QED BY <2>1, <2>2, RefreshHeld
<1>4. CASE Boot
  <2>1. PICK r \in Load(disk) : disk' = r.disk /\ faults' = r.faults
    BY <1>4 DEF Boot
  <2>2. Held(r.disk, r.faults)
    BY LoadHeld DEF PlainInv
  <2> QED BY <1>4, <2>1, <2>2, SavingStep DEF Boot
<1>5. CASE TickInit \/ TickSignIn \/ TickLoader \/ Retry \/ Connect \/ TickAsks \/ Leave
  BY <1>5, QuietStep DEF TickInit, TickSignIn, TickLoader, Retry, Connect, TickAsks, Leave
<1>6. CASE TickPolled
  <2>1. screen # "off" /\ screen' # "off"
    BY <1>6 DEF TickPolled
  <2>2. CASE UNCHANGED <<disk, faults>>
    BY <2>1, <2>2, QuietStep
  <2>3. CASE \E r \in Load(disk) : Take(r)
    <3>1. PICK r \in Load(disk) : Take(r)
      BY <2>3
    <3>2. Held(r.disk, r.faults)
      BY LoadHeld DEF PlainInv
    <3>3. disk' = r.disk /\ faults' = faults \cup r.faults
      BY <3>1, Zenon DEF Take
    <3>4. r.faults \subseteq faults'
      BY <3>3
    <3> QED BY <2>1, <3>2, <3>3, <3>4, SavingStep DEF Held
  <2> QED BY <1>6, <2>2, <2>3 DEF TickPolled, ReloadLogin
<1>7. CASE Logout
  <2>1. PICK r \in Cleared(disk) : Take(r)
    BY <1>7 DEF Logout
  <2>2. AddsNoPlaintext(disk, r)
    BY ClearedAddsNone DEF PlainInv
  <2>3. screen # "off" /\ screen' # "off"
    BY <1>7 DEF Logout
  <2> QED BY <2>1, <2>2, <2>3, RunningIsHeld, TakenHeld, SavingStep
<1>8. CASE Die
  <2>1. ASSUME NEW a, NEW d \in PersistDies(disk, a) PROVE IsDisk(d)
    <3>1. PICK k \in KeyTried(disk) : d \in {k, FileRemoved(k), [k EXCEPT !.file = Torn]}
      BY <2>1 DEF PersistDies
    <3>2. IsDisk(k)
      BY KeyTriedKeepsFile DEF PlainInv
    <3> QED BY <3>1, <3>2 DEF FileRemoved, IsDisk
  <2>2. IsDisk(disk')
    BY <1>8, <2>1 DEF Die, PlainInv
  <2> QED BY <1>8, <2>2 DEF Die, PlainInv, NoPlaintext, NoJobs
<1>9. CASE UNCHANGED vars
  BY <1>9 DEF vars, jobs, PlainInv, NoPlaintext, NoJobs, IsDisk
<1> QED BY <1>1, <1>2, <1>3, <1>4, <1>5, <1>6, <1>7, <1>8, <1>9 DEF Next

\* Safe Memory alone cannot leave a plaintext token on the disk (the comment at
\* auth.rs:193): once the application runs, one is there only if its removal failed,
\* which nobody looks at, and a read or a save failed as well.
THEOREM NeverPlaintext == Spec => []NoPlaintext
<1>1. PlainInv => NoPlaintext
  BY DEF PlainInv
<1> QED BY <1>1, PlainStart, PlainStep, PTL DEF Spec

-----------------------------------------------------------------------------
(* The login in memory and the one on the disk.                             *)

SavedOn(d) == IF Opens(d) THEN d.file.acct ELSE None

\* A save in good order is found by the next start.
LEMMA PersistedIsSaved ==
  ASSUME NEW d, IsDisk(d), NEW a, NEW e \in Persisted(d, a)
  PROVE  SavedOn(e) = a
<1>1. PICK k : IsDisk(k) /\ k.key # None /\ e = Written(k, a)
  BY NoneAssumption DEF Persisted, KeyTried, KeyKept, IsDisk
<1> QED BY <1>1 DEF SavedOn, Opens, Written, Sealed, IsDisk

LEMMA RemovedIsNotSaved == ASSUME NEW d, IsDisk(d) PROVE SavedOn(FileRemoved(d)) = None
BY DEF SavedOn, Opens, FileRemoved, NoFile, IsDisk

\* A logout that does not fail altogether leaves nothing a start would open.
LEMMA ClearedIsNotSaved ==
  ASSUME NEW d, IsDisk(d), NEW r \in Cleared(d), "clearing" \notin r.faults
  PROVE  SavedOn(r.disk) = None
<1>1. r.disk \in {BothGone, FileRemoved(d), KeyGone(d)}
  BY DEF Cleared, Answer
<1>2. SavedOn(BothGone) = None
  BY DEF BothGone, SavedOn, Opens, NoFile
<1>3. SavedOn(KeyGone(d)) = None
  BY DEF KeyGone, SavedOn, Opens, IsDisk
<1> QED BY <1>1, <1>2, <1>3, RemovedIsNotSaved

\* A save of which nothing but a removal failed is found by the next start.
LEMMA SaveIsSaved ==
  ASSUME NEW d, IsDisk(d), NEW a, NEW f, NEW r \in Save(d, a, f), "storage" \notin r.faults
  PROVE  SavedOn(r.disk) = a /\ r.acct = a
<1>1. PICK e \in Persisted(d, a) : r = Answer(a, e, f)
  BY DEF Save, Answer
<1> QED BY <1>1, PersistedIsSaved DEF Answer

\* A load of which nothing but a removal failed has in memory what it leaves on the
\* disk, which is what it found there unless that was plaintext.
LEMMA LoadIsSaved ==
  ASSUME NEW d, IsDisk(d), NEW r \in Load(d), r.faults \subseteq {"removal"}
  PROVE  /\ SavedOn(r.disk) = r.acct
         /\ d.file.form # "legacy" => SavedOn(d) = r.acct
<1>0. "storage" \notin r.faults /\ r \notin Unreadable(d)
  BY DEF Unreadable, Answer
<1>1. CASE d.file.form = "none"
  <2>1. r = Answer(None, d, {})
    BY <1>1 DEF Load, Opens
  <2> QED BY <1>1, <2>1 DEF Answer, SavedOn, Opens
<1>2. CASE d.file.form = "legacy"
  <2>1. Load(d) = Migrate(d) \cup Unreadable(d)
    BY <1>2 DEF Load, Opens
  <2>2. r \in Save(FileRemoved(d), d.file.acct, {}) \/ r \in Save(d, d.file.acct, {"removal"})
    BY <1>0, <2>1 DEF Migrate
  <2> QED BY <1>0, <1>2, <2>2, RemovedGone, SaveIsSaved
<1>3. CASE d.file.form # "none" /\ d.file.form # "legacy" /\ Opens(d)
  <2>1. r = Answer(d.file.acct, d, {})
    BY <1>0, <1>3 DEF Load
  <2> QED BY <1>3, <2>1 DEF Answer, SavedOn
<1>4. CASE d.file.form # "none" /\ d.file.form # "legacy" /\ ~Opens(d)
  <2>1. r \in {Answer(None, FileRemoved(d), {}), Answer(None, d, {"removal"})}
    BY <1>4 DEF Load
  <2> QED BY <1>4, <2>1, RemovedIsNotSaved DEF Answer, SavedOn
<1> QED BY <1>1, <1>2, <1>3, <1>4

\* Each job belongs to one screen, and a device code is asked for without a login.
JobsInPlace ==
    /\ signIn.pc # "none" => screen = "Waiting"
    /\ loader.pc # "none" => screen = "Loading"
    /\ poll.pc # "none" => screen = "Connecting"
    /\ screen = "Waiting" => auth = None

\* The clone of a running job holds the login in memory; a detached poll holds it
\* or none, and one that holds none saves nothing.
ClonesAgree ==
    /\ loader.pc # "none" => loader.acct = auth
    /\ poll.pc # "none" => poll.acct = auth
    /\ late.acct \in {None, auth}

\* What is saved is the login in memory, or the one that was just signed in.
SavedAgrees == Saved = IF signIn.pc = "ok" THEN signIn.acct ELSE auth

\* So far nothing has failed but removals.
Calm == faults \subseteq {"removal"}

Undisturbed == screen # "off" /\ Calm /\ ghosts = {}

LoginInv == JobsInPlace /\ (Undisturbed => ClonesAgree /\ SavedAgrees)

LEMMA SavedIsOnDisk == Saved = SavedOn(disk) /\ Saved' = SavedOn(disk')
BY DEF Saved, SavedOn, Opens

LEMMA CalmStays == faults' = faults => Calm' = Calm
BY DEF Calm

LEMMA TakenCalmly ==
  ASSUME NEW r, Take(r), Calm'
  PROVE  Calm /\ r.faults \subseteq {"removal"} /\ disk' = r.disk
<1>1. disk' = r.disk /\ faults' = faults \cup r.faults
  BY Zenon DEF Take
<1> QED BY <1>1 DEF Calm

LEMMA GrantedIsSaved ==
  ASSUME IsDisk(disk), NEW a, NEW r \in Refreshed(a), Take(r), Calm'
  PROVE  Calm /\ SavedOn(disk') = a
<1>1. Calm /\ r.faults \subseteq {"removal"} /\ disk' = r.disk
  BY TakenCalmly
<1>2. r \in Save(disk, a, {}) /\ "storage" \notin r.faults
  BY <1>1 DEF Refreshed
<1> QED BY <1>1, <1>2, SaveIsSaved

\* A refresh in the calm leaves the clone its login, and the disk as it was or with
\* that login.
LEMMA RefreshAgrees ==
  ASSUME IsDisk(disk), NEW a, NEW granted, NEW b, Refresh(a, granted, b), Calm'
  PROVE  /\ Calm /\ b = a
         /\ SavedOn(disk') = SavedOn(disk) \/ (a # None /\ SavedOn(disk') = a)
<1>1. CASE a # None /\ granted /\ b = a /\ \E r \in Refreshed(a) : Take(r)
  BY <1>1, GrantedIsSaved
<1>2. CASE \E r \in Refused : Take(r)
  <2>1. PICK r \in Refused : Take(r)
    BY <1>2
  <2>2. "refused" \in r.faults
    BY RefusedAddsNone
  <2> QED BY <2>1, <2>2, TakenCalmly
<1>3. CASE ~granted /\ b = a /\ UNCHANGED <<disk, faults>>
  BY <1>3 DEF Calm
<1> QED BY <1>1, <1>2, <1>3 DEF Refresh

LEMMA LoginStart == Init => LoginInv
BY DEF Init, LoginInv, JobsInPlace, Undisturbed, NoJob

LEMMA LoginStep == PlainInv /\ LoginInv /\ [Next]_vars => LoginInv'
<1> SUFFICES ASSUME PlainInv, LoginInv, [Next]_vars PROVE LoginInv'
  OBVIOUS
<1>0. IsDisk(disk) /\ (screen = "off" => NoJobs)
  BY DEF PlainInv
<1> USE SavedIsOnDisk, CalmStays DEF LoginInv, JobsInPlace, Undisturbed, ClonesAgree, SavedAgrees, Running, NoJob
<1>1. CASE RequestDeviceCode
  BY <1>1 DEF RequestDeviceCode
<1>2. CASE SignInAuthorized
  <2>1. PICK a \in Accounts : (\E r \in Refreshed(a) : Take(r)) /\ signIn' = Running("ok", a)
    BY <1>2 DEF SignInAuthorized
  <2>2. Calm' => Calm /\ SavedOn(disk') = a
    BY <1>0, <2>1, GrantedIsSaved
  <2> QED BY <1>2, <2>1, <2>2 DEF SignInAuthorized
<1>3. CASE SignInExpires
  BY <1>3 DEF SignInExpires
<1>4. CASE LoaderRefreshes
  <2>1. PICK granted \in BOOLEAN, b \in {loader.acct, None} :
          /\ Refresh(loader.acct, granted, b)
          /\ loader' = Running(IF granted THEN "exchange" ELSE "failed", b)
    BY <1>4 DEF LoaderRefreshes
  <2>2. Calm' => /\ Calm /\ b = loader.acct
                 /\ SavedOn(disk') = SavedOn(disk) \/ (loader.acct # None /\ SavedOn(disk') = loader.acct)
    BY <1>0, <2>1, RefreshAgrees
  <2>3. loader.pc = "refresh" /\ UNCHANGED <<auth, screen, signIn, poll, late, ghosts>>
    BY <1>4 DEF LoaderRefreshes
  <2>4. loader'.acct = b /\ loader'.pc # "none"
    BY <2>1
  <2> QED BY <2>2, <2>3, <2>4
<1>5. CASE LoaderExchanges
  BY <1>5 DEF LoaderExchanges
<1>6. CASE LoaderProfiles
  <2>1. PICK granted \in BOOLEAN, b \in {loader.acct, None} :
          Refresh(loader.acct, granted, b) /\ loader' = Running("ok", b)
    BY <1>6 DEF LoaderProfiles
  <2>2. Calm' => /\ Calm /\ b = loader.acct
                 /\ SavedOn(disk') = SavedOn(disk) \/ (loader.acct # None /\ SavedOn(disk') = loader.acct)
    BY <1>0, <2>1, RefreshAgrees
  <2>3. loader.pc = "profile" /\ UNCHANGED <<auth, screen, signIn, poll, late, ghosts>>
    BY <1>6 DEF LoaderProfiles
  <2>4. loader'.acct = b /\ loader'.pc # "none"
    BY <2>1
  <2> QED BY <2>2, <2>3, <2>4
<1>7. CASE PollAsks
  BY <1>7 DEF PollAsks
<1>8. CASE PollRefreshes
  <2>1. PICK granted \in BOOLEAN, b \in {poll.acct, None} : \E pc :
          Refresh(poll.acct, granted, b) /\ poll' = Running(pc, b)
    BY <1>8 DEF PollRefreshes
  <2>2. Calm' => /\ Calm /\ b = poll.acct
                 /\ SavedOn(disk') = SavedOn(disk) \/ (poll.acct # None /\ SavedOn(disk') = poll.acct)
    BY <1>0, <2>1, RefreshAgrees
  <2>3. poll.pc = "refresh" /\ UNCHANGED <<auth, screen, signIn, loader, late, ghosts>>
    BY <1>8 DEF PollRefreshes
  <2>4. poll'.acct = b
    BY <2>1
  <2> QED BY <2>2, <2>3, <2>4
<1>9. CASE LateRefreshes
  <2>1. PICK granted \in BOOLEAN, b \in {late.acct, None} : Refresh(late.acct, granted, b)
    BY <1>9 DEF LateRefreshes
  <2>2. Calm' => /\ Calm
                 /\ SavedOn(disk') = SavedOn(disk) \/ (late.acct # None /\ SavedOn(disk') = late.acct)
    BY <1>0, <2>1, RefreshAgrees
  <2>3. late.pc = "refresh" /\ late' = NoJob /\ UNCHANGED <<auth, screen, signIn, loader, poll, ghosts>>
    BY <1>9 DEF LateRefreshes
  <2> QED BY <2>2, <2>3
<1>10. CASE LateEnds
  BY <1>10 DEF LateEnds
<1>11. CASE Boot
  <2>1. PICK r \in Load(disk) : disk' = r.disk /\ auth' = r.acct /\ faults' = r.faults
    BY <1>11 DEF Boot
  <2>2. Calm' => SavedOn(disk') = auth'
    BY <1>0, <2>1, LoadIsSaved DEF Calm
  <2> QED BY <1>0, <1>11, <2>2 DEF Boot, NoJobs, jobs
<1>12. CASE TickInit
  BY <1>12 DEF TickInit
<1>13. CASE TickSignIn
  BY <1>13 DEF TickSignIn
<1>14. CASE TickLoader
  BY <1>14 DEF TickLoader
<1>15. CASE Retry \/ Connect \/ TickAsks
  BY <1>15 DEF Retry, Connect, TickAsks, jobs
<1>16. CASE TickPolled
  <2>1. CASE ReloadLogin
    <3>1. PICK r \in Load(disk) : Take(r) /\ auth' = r.acct
      BY <2>1 DEF ReloadLogin
    <3>2. Calm => disk.file.form # "legacy"
      BY <1>16 DEF TickPolled, PlainInv, NoPlaintext, Calm
    <3>3. Calm' => Calm /\ SavedOn(disk') = auth' /\ SavedOn(disk) = auth'
      BY <1>0, <3>1, <3>2, TakenCalmly, LoadIsSaved
    <3> QED BY <1>16, <3>3 DEF TickPolled
  <2>2. CASE UNCHANGED <<disk, auth, faults>>
    BY <1>16, <2>2 DEF TickPolled
  <2> QED BY <1>16, <2>1, <2>2 DEF TickPolled
<1>17. CASE Leave
  BY <1>17 DEF Leave
<1>18. CASE Logout
  <2>1. Calm' => Calm /\ SavedOn(disk') = None
    <3>1. PICK r \in Cleared(disk) : Take(r)
      BY <1>18 DEF Logout
    <3> QED BY <1>0, <3>1, TakenCalmly, ClearedIsNotSaved
  <2>2. ghosts' = {} => ghosts = {} /\ late.acct = None
    BY <1>18 DEF Logout
  <2> QED BY <1>18, <2>1, <2>2 DEF Logout, jobs
<1>19. CASE Die
  BY <1>19 DEF Die
<1>20. CASE UNCHANGED vars
  BY <1>20 DEF vars, jobs
<1> QED BY <1>1, <1>2, <1>3, <1>4, <1>5, <1>6, <1>7, <1>8, <1>9, <1>10, <1>11, <1>12, <1>13, <1>14,
           <1>15, <1>16, <1>17, <1>18, <1>19, <1>20 DEF Next

\* As long as nothing fails but the removal of a file, and no account was logged out
\* under a detached poll, a restart finds the login in memory: each
\* job's clone saves that login or nothing, in whatever order their saves come.
THEOREM RestartFindsTheLogin == Spec => []DiskFollowsMemory
<1>1. PlainInv /\ LoginInv => DiskFollowsMemory
  BY DEF LoginInv, Undisturbed, Calm, SavedAgrees, DiskFollowsMemory
<1> QED BY <1>1, PlainStart, PlainStep, LoginStart, LoginStep, PTL DEF Spec

-----------------------------------------------------------------------------
(* The list of titles.                                                      *)

JobsOver(l) == [kind : List!Kinds, title : List!Titles, locale : {l}]
ResultsOver(l) == [kind : List!Kinds, title : List!Titles, locale : {l}, ok : BOOLEAN]

\* A list of the locale l: every text and picture was asked for in that locale.
PicturesOver(l) == [List!Titles -> {None, l}]
TitlesOver(l) ==
    [details : [List!Titles -> {None, "empty", "failed", l}], cover : PicturesOver(l),
     icon : PicturesOver(l), pending : [List!Kinds -> SUBSET List!Titles]]
SlateOver(l) == [titles : TitlesOver(l), jobs : Seq(JobsOver(l)), prefetch : Seq(JobsOver(l))]

\* What a job or a result is about, and what those of a queue are about.
KeyOf(j) == <<j.kind, j.title>>
KeysOf(q) == {KeyOf(q[i]) : i \in 1 .. Len(q)}
Once(q) == \A i, j \in 1 .. Len(q) : KeyOf(q[i]) = KeyOf(q[j]) => i = j
WorkKeys(w) == IF w = None THEN {} ELSE {KeyOf(w)}
PendingKeys(ti) == {k \in List!Kinds \X List!Titles : k[2] \in ti.pending[k[1]]}

\* What is pending is in one queue, once, or elsewhere.
Carries(s, elsewhere) ==
    /\ Once(s.jobs) /\ Once(s.prefetch)
    /\ KeysOf(s.jobs) \cap KeysOf(s.prefetch) = {}
    /\ KeysOf(s.jobs) \cap elsewhere = {} /\ KeysOf(s.prefetch) \cap elsewhere = {}
    /\ PendingKeys(s.titles) = KeysOf(s.jobs) \cup KeysOf(s.prefetch) \cup elsewhere

\* The results that are left once n are taken.
Rest(q, n) == {KeyOf(q[i]) : i \in n + 1 .. Len(q)}

\* Elsewhere: in the results, at work, or lost in a panic.
Apart(res, w, lost) ==
    /\ Once(res)
    /\ KeysOf(res) \cap WorkKeys(w) = {} /\ KeysOf(res) \cap lost = {} /\ WorkKeys(w) \cap lost = {}

CatOK(l, sel, s, res, w, lost) ==
    /\ l \in Languages /\ sel \in List!Titles
    /\ s \in SlateOver(l) /\ res \in Seq(ResultsOver(l)) /\ w \in JobsOver(l) \cup {None}
    /\ lost \subseteq List!Kinds \X List!Titles /\ IsFiniteSet(lost)
    /\ Apart(res, w, lost)
    /\ Carries(s, KeysOf(res) \cup WorkKeys(w) \cup lost)

CatInv == CatOK(locale, title, List!Now, results, working, panicked)

-----------------------------------------------------------------------------
\* Keys of queues.

LEMMA AppendKeys ==
  ASSUME NEW S, NEW q \in Seq(S), NEW e \in S
  PROVE  /\ Append(q, e) \in Seq(S)
         /\ KeysOf(Append(q, e)) = KeysOf(q) \cup {KeyOf(e)}
         /\ Once(q) /\ KeyOf(e) \notin KeysOf(q) => Once(Append(q, e))
<1> DEFINE a == Append(q, e)
<1>1. /\ a \in Seq(S) /\ Len(q) \in Nat /\ Len(a) = Len(q) + 1
      /\ \A i \in 1 .. Len(q) : a[i] = q[i]
      /\ a[Len(q) + 1] = e
  BY AppendProperties, LenProperties
<1> HIDE DEF a
<1>2. \A i \in 1 .. Len(a) : i \in 1 .. Len(q) \/ i = Len(q) + 1
  BY <1>1
<1>3. KeysOf(a) = KeysOf(q) \cup {KeyOf(e)}
  <2>1. ASSUME NEW k \in KeysOf(a) PROVE k \in KeysOf(q) \cup {KeyOf(e)}
    <3>1. PICK i \in 1 .. Len(a) : k = KeyOf(a[i])
      BY DEF KeysOf
    <3> QED BY <3>1, <1>1, <1>2 DEF KeysOf
  <2>2. ASSUME NEW k \in KeysOf(q) PROVE k \in KeysOf(a)
    <3>1. PICK i \in 1 .. Len(q) : k = KeyOf(q[i])
      BY DEF KeysOf
    <3>2. i \in 1 .. Len(a) /\ a[i] = q[i]
      BY <1>1
    <3> QED BY <3>1, <3>2 DEF KeysOf
  <2>3. KeyOf(e) \in KeysOf(a)
    <3>1. Len(q) + 1 \in 1 .. Len(a)
      BY <1>1
    <3> QED BY <1>1, <3>1 DEF KeysOf
  <2> QED BY <2>1, <2>2, <2>3
<1>4. ASSUME Once(q), KeyOf(e) \notin KeysOf(q) PROVE Once(a)
  <2> SUFFICES ASSUME NEW i \in 1 .. Len(a), NEW j \in 1 .. Len(a), KeyOf(a[i]) = KeyOf(a[j])
               PROVE  i = j
    BY DEF Once
  <2>1. \A m \in 1 .. Len(q) : KeyOf(a[m]) \in KeysOf(q)
    BY <1>1 DEF KeysOf
  <2>2. CASE i \in 1 .. Len(q) /\ j \in 1 .. Len(q)
    BY <1>1, <1>4, <2>2 DEF Once
  <2>3. CASE i = Len(q) + 1 /\ j \in 1 .. Len(q)
    BY <1>1, <1>4, <2>1, <2>3
  <2>4. CASE j = Len(q) + 1 /\ i \in 1 .. Len(q)
    BY <1>1, <1>4, <2>1, <2>4
  <2> QED BY <1>2, <2>2, <2>3, <2>4
<1> QED BY <1>1, <1>3, <1>4 DEF a

LEMMA RestOfNone ==
  ASSUME NEW q
  PROVE  Rest(q, 0) = KeysOf(q)
BY DEF Rest, KeysOf

\* Taking one more of those that are left.
LEMMA RestSplits ==
  ASSUME NEW S, NEW q \in Seq(S), Once(q), NEW n \in 1 .. Len(q)
  PROVE  /\ Rest(q, n - 1) = Rest(q, n) \cup {KeyOf(q[n])}
         /\ KeyOf(q[n]) \notin Rest(q, n)
<1>0. Len(q) \in Nat
  BY LenProperties
<1>1. (n - 1) + 1 .. Len(q) = (n + 1 .. Len(q)) \cup {n}
  BY <1>0
<1>2. Rest(q, n - 1) = Rest(q, n) \cup {KeyOf(q[n])}
  BY <1>1, Zenon DEF Rest
<1>3. \A i \in n + 1 .. Len(q) : KeyOf(q[i]) # KeyOf(q[n])
  BY <1>0 DEF Once
<1> QED BY <1>2, <1>3 DEF Rest

Drop(q, n) == SubSeq(q, n + 1, Len(q))

LEMMA DropLeavesRest ==
  ASSUME NEW S, NEW q \in Seq(S), Once(q), NEW n \in 0 .. Len(q)
  PROVE  /\ Drop(q, n) \in Seq(S) /\ Once(Drop(q, n))
         /\ KeysOf(Drop(q, n)) = Rest(q, n) /\ KeysOf(Drop(q, n)) \subseteq KeysOf(q)
<1> DEFINE r == Drop(q, n)
<1>0. Len(q) \in Nat /\ \A i \in n + 1 .. Len(q) : q[i] \in S
  BY LenProperties, ElementOfSeq
<1>1. /\ r \in Seq(S) /\ Len(r) = Len(q) - n
      /\ \A i \in 1 .. Len(q) - n : r[i] = q[n + i]
  <2>1. /\ r \in Seq(S) /\ Len(r) = IF n + 1 <= Len(q) THEN Len(q) - (n + 1) + 1 ELSE 0
        /\ \A i \in 1 .. Len(q) - (n + 1) + 1 : r[i] = q[n + 1 + i - 1]
    BY <1>0, SubSeqProperties DEF Drop
  <2>2. Len(r) = Len(q) - n
    BY <1>0, <2>1
  <2>3. ASSUME NEW i \in 1 .. Len(q) - n PROVE r[i] = q[n + i]
    <3>1. i \in 1 .. Len(q) - (n + 1) + 1 /\ n + 1 + i - 1 = n + i
      BY <1>0
    <3> QED BY <2>1, <3>1
  <2> QED BY <2>1, <2>2, <2>3
<1> HIDE DEF r
<1>2. Once(r)
  <2> SUFFICES ASSUME NEW i \in 1 .. Len(r), NEW j \in 1 .. Len(r), KeyOf(r[i]) = KeyOf(r[j])
               PROVE  i = j
    BY DEF Once
  <2>1. n + i \in 1 .. Len(q) /\ n + j \in 1 .. Len(q) /\ KeyOf(q[n + i]) = KeyOf(q[n + j])
    BY <1>0, <1>1
  <2>2. n + i = n + j
    BY <2>1 DEF Once
  <2> QED BY <2>2, <1>0, <1>1
<1>3. KeysOf(r) = Rest(q, n)
  <2>1. ASSUME NEW k \in KeysOf(r) PROVE k \in Rest(q, n)
    <3>1. PICK i \in 1 .. Len(r) : k = KeyOf(r[i])
      BY DEF KeysOf
    <3>2. n + i \in n + 1 .. Len(q) /\ r[i] = q[n + i]
      BY <1>0, <1>1
    <3> QED BY <3>1, <3>2 DEF Rest
  <2>2. ASSUME NEW k \in Rest(q, n) PROVE k \in KeysOf(r)
    <3>1. PICK i \in n + 1 .. Len(q) : k = KeyOf(q[i])
      BY DEF Rest
    <3>2. i - n \in 1 .. Len(r) /\ n + (i - n) = i /\ i - n \in 1 .. Len(q) - n
      BY <1>0, <1>1
    <3>3. r[i - n] = q[i]
      BY <1>1, <3>2
    <3> QED BY <3>1, <3>2, <3>3 DEF KeysOf
  <2> QED BY <2>1, <2>2
<1>4. Rest(q, n) \subseteq KeysOf(q)
  BY <1>0 DEF Rest, KeysOf
<1> QED BY <1>1, <1>2, <1>3, <1>4 DEF r

LEMMA TailKeys ==
  ASSUME NEW S, NEW q \in Seq(S), q # <<>>, Once(q)
  PROVE  /\ Head(q) \in S /\ Tail(q) \in Seq(S) /\ Once(Tail(q))
         /\ KeysOf(q) = KeysOf(Tail(q)) \cup {KeyOf(Head(q))}
         /\ KeyOf(Head(q)) \notin KeysOf(Tail(q))
<1>1. Head(q) \in S /\ Head(q) = q[1] /\ Tail(q) = Drop(q, 1) /\ 1 \in 1 .. Len(q) /\ 1 \in 0 .. Len(q)
  <2>1. Tail(q) = SubSeq(q, 2, Len(q))
    BY TailIsSubSeq
  <2>2. Len(q) \in Nat \ {0}
    BY EmptySeq
  <2> QED BY <2>1, <2>2, HeadTailProperties DEF Drop
<1>2. /\ Rest(q, 1 - 1) = Rest(q, 1) \cup {KeyOf(q[1])}
      /\ KeyOf(q[1]) \notin Rest(q, 1)
  BY <1>1, RestSplits
<1>3. Tail(q) \in Seq(S) /\ Once(Tail(q)) /\ KeysOf(Tail(q)) = Rest(q, 1)
  <2>1. 1 \in 0 .. Len(q)
    BY <1>1
  <2>2. Drop(q, 1) \in Seq(S) /\ Once(Drop(q, 1)) /\ KeysOf(Drop(q, 1)) = Rest(q, 1)
    BY <2>1, DropLeavesRest
  <2> QED BY <1>1, <2>2
<1>4. 1 - 1 = 0
  OBVIOUS
<1> QED BY <1>1, <1>2, <1>3, <1>4, RestOfNone

\* A queue that names each thing once is as long as it names things.
LEMMA CountOnce ==
  ASSUME NEW S, NEW q \in Seq(S), Once(q)
  PROVE  IsFiniteSet(KeysOf(q)) /\ Cardinality(KeysOf(q)) = Len(q)
<1> DEFINE f == [i \in 1 .. Len(q) |-> KeyOf(q[i])]
<1>1. f \in Bijection(1 .. Len(q), KeysOf(q))
  <2>1. f \in [1 .. Len(q) -> KeysOf(q)]
    BY DEF KeysOf
  <2>2. f \in Injection(1 .. Len(q), KeysOf(q))
    BY <2>1 DEF Once, Injection, IsInjective
  <2>3. f \in Surjection(1 .. Len(q), KeysOf(q))
    BY <2>1 DEF Surjection, KeysOf
  <2> QED BY <2>2, <2>3 DEF Bijection
<1>2. Len(q) \in Nat
  BY LenProperties
<1>3. ExistsBijection(1 .. Len(q), KeysOf(q))
  BY <1>1 DEF ExistsBijection
<1>4. IsFiniteSet(1 .. Len(q))
  BY <1>2, FS_Interval
<1> QED BY <1>2, <1>3, <1>4, FS_Bijection, FS_CountingElements

-----------------------------------------------------------------------------
\* What is pending.

LEMMA PendingAdds ==
  ASSUME NEW l, NEW ti \in TitlesOver(l), NEW k \in List!Kinds, NEW t \in List!Titles,
         NEW to, to.pending = [ti.pending EXCEPT ![k] = @ \cup {t}]
  PROVE  PendingKeys(to) = PendingKeys(ti) \cup {<<k, t>>}
<1>1. ti.pending \in [List!Kinds -> SUBSET List!Titles]
  BY DEF TitlesOver
<1>2. \A m \in List!Kinds : to.pending[m] = IF m = k THEN ti.pending[k] \cup {t} ELSE ti.pending[m]
  BY <1>1
<1> HIDE DEF List!Kinds, List!Titles
<1>3. ASSUME NEW m \in List!Kinds, NEW u \in List!Titles
      PROVE  <<m, u>> \in PendingKeys(to) <=> <<m, u>> \in PendingKeys(ti) \cup {<<k, t>>}
  BY <1>2 DEF PendingKeys
<1>4. PendingKeys(to) \subseteq List!Kinds \X List!Titles
      /\ PendingKeys(ti) \cup {<<k, t>>} \subseteq List!Kinds \X List!Titles
  BY DEF PendingKeys
<1> QED BY <1>3, <1>4

LEMMA PendingRemoves ==
  ASSUME NEW l, NEW ti \in TitlesOver(l), NEW k \in List!Kinds, NEW t \in List!Titles,
         NEW to, to.pending = [ti.pending EXCEPT ![k] = ti.pending[k] \ {t}]
  PROVE  PendingKeys(to) = PendingKeys(ti) \ {<<k, t>>}
<1>1. ti.pending \in [List!Kinds -> SUBSET List!Titles]
  BY DEF TitlesOver
<1>2. \A m \in List!Kinds : to.pending[m] = IF m = k THEN ti.pending[k] \ {t} ELSE ti.pending[m]
  BY <1>1
<1>3. ASSUME NEW m \in List!Kinds, NEW u \in List!Titles
      PROVE  <<m, u>> \in PendingKeys(to) <=> <<m, u>> \in PendingKeys(ti) \ {<<k, t>>}
  BY <1>2 DEF PendingKeys
<1>4. PendingKeys(to) \subseteq List!Kinds \X List!Titles
      /\ PendingKeys(ti) \ {<<k, t>>} \subseteq List!Kinds \X List!Titles
  BY DEF PendingKeys
<1> QED BY <1>3, <1>4

\* A slate of the locale l whose queues carry what is pending and not elsewhere.
Good(l, s, elsewhere) == s \in SlateOver(l) /\ Carries(s, elsewhere)

\* A step on the texts and pictures.
LEMMA SamePending ==
  ASSUME NEW l, NEW s, NEW O, Good(l, s, O), NEW r, r \in SlateOver(l),
         r.jobs = s.jobs, r.prefetch = s.prefetch, r.titles.pending = s.titles.pending
  PROVE  Good(l, r, O)
<1>1. PendingKeys(r.titles) = PendingKeys(s.titles)
  BY Zenon DEF PendingKeys
<1> QED BY <1>1 DEF Good, Carries

LEMMA PruneKeeps ==
  ASSUME NEW l, NEW s, NEW O, Good(l, s, O)
  PROVE  Good(l, List!Prune(s), O)
<1> DEFINE r == List!Prune(s)
<1>0. \A p \in PicturesOver(l) : \A kept : List!Only(p, kept) \in PicturesOver(l)
  BY DEF PicturesOver, List!Only
<1>1. r \in SlateOver(l) /\ r.jobs = s.jobs /\ r.prefetch = s.prefetch
      /\ r.titles.pending = s.titles.pending
  BY <1>0 DEF Good, SlateOver, TitlesOver, List!Prune
<1> HIDE DEF r
<1>2. Good(l, r, O)
  BY <1>1, SamePending
<1> QED BY <1>2 DEF r

\* A job for what is not pending.
LEMMA AskKeeps ==
  ASSUME NEW l, NEW s, NEW O, Good(l, s, O), NEW line \in {"jobs", "prefetch"},
         NEW job \in JobsOver(l), KeyOf(job) \notin PendingKeys(s.titles)
  PROVE  Good(l, List!Ask(s, line, job), O)
<1> DEFINE r == List!Ask(s, line, job)
           ti == s.titles
           to == [ti EXCEPT !.pending[job.kind] = @ \cup {job.title}]
<1>0. /\ s.titles \in TitlesOver(l) /\ s.jobs \in Seq(JobsOver(l)) /\ s.prefetch \in Seq(JobsOver(l))
      /\ job.kind \in List!Kinds /\ job.title \in List!Titles /\ KeyOf(job) = <<job.kind, job.title>>
  BY DEF Good, SlateOver, JobsOver, KeyOf
<1>1. CASE ~List!Accepts(s, line)
  BY <1>1 DEF List!Ask
<1>2. s = [titles |-> ti, jobs |-> s.jobs, prefetch |-> s.prefetch]
  BY DEF Good, SlateOver
<1>3. to \in TitlesOver(l) /\ to.pending = [ti.pending EXCEPT ![job.kind] = @ \cup {job.title}]
  BY <1>0 DEF TitlesOver
<1>4. PendingKeys(to) = PendingKeys(ti) \cup {KeyOf(job)}
  <2> DEFINE k == job.kind
             t == job.title
  <2>1. ti \in TitlesOver(l) /\ k \in List!Kinds /\ t \in List!Titles
    BY <1>0
  <2>2. to.pending = [ti.pending EXCEPT ![k] = @ \cup {t}]
    BY <1>3
  <2> HIDE DEF to, ti, k, t
  <2>3. PendingKeys(to) = PendingKeys(ti) \cup {<<k, t>>}
    BY <2>1, <2>2, PendingAdds
  <2> QED BY <1>0, <2>3 DEF k, t
<1>5. KeyOf(job) \notin KeysOf(s.jobs) \cup KeysOf(s.prefetch) \cup O
  BY DEF Good, Carries
<1> HIDE DEF r, to
<1>6. CASE List!Accepts(s, line) /\ line = "jobs"
  <2>1. r = [s EXCEPT !.jobs = Append(s.jobs, job), !.titles = to]
    BY <1>6 DEF List!Ask, to, r
  <2>2. r.titles = to /\ r.jobs = Append(s.jobs, job) /\ r.prefetch = s.prefetch
        /\ r = [titles |-> r.titles, jobs |-> r.jobs, prefetch |-> r.prefetch]
    BY <1>2, <2>1
  <2>3. /\ Append(s.jobs, job) \in Seq(JobsOver(l))
        /\ KeysOf(Append(s.jobs, job)) = KeysOf(s.jobs) \cup {KeyOf(job)}
        /\ Once(Append(s.jobs, job))
    <3>1. Once(s.jobs) /\ KeyOf(job) \notin KeysOf(s.jobs)
      BY <1>5 DEF Good, Carries
    <3> QED BY <1>0, <3>1, AppendKeys
  <2>4. r.jobs \in Seq(JobsOver(l)) /\ KeysOf(r.jobs) = KeysOf(s.jobs) \cup {KeyOf(job)} /\ Once(r.jobs)
    BY <2>2, <2>3
  <2>5. r \in SlateOver(l)
    BY <2>2, <2>4, <1>0, <1>3 DEF SlateOver
  <2>6. Carries(r, O)
    BY <1>4, <1>5, <2>2, <2>4 DEF Good, Carries, ti
  <2> QED BY <2>5, <2>6 DEF Good, r
<1>7. CASE List!Accepts(s, line) /\ line = "prefetch"
  <2>1. r = [s EXCEPT !.prefetch = Append(s.prefetch, job), !.titles = to]
    BY <1>7 DEF List!Ask, to, r
  <2>2. r.titles = to /\ r.prefetch = Append(s.prefetch, job) /\ r.jobs = s.jobs
        /\ r = [titles |-> r.titles, jobs |-> r.jobs, prefetch |-> r.prefetch]
    BY <1>2, <2>1
  <2>3. /\ Append(s.prefetch, job) \in Seq(JobsOver(l))
        /\ KeysOf(Append(s.prefetch, job)) = KeysOf(s.prefetch) \cup {KeyOf(job)}
        /\ Once(Append(s.prefetch, job))
    <3>1. Once(s.prefetch) /\ KeyOf(job) \notin KeysOf(s.prefetch)
      BY <1>5 DEF Good, Carries
    <3> QED BY <1>0, <3>1, AppendKeys
  <2>4. /\ r.prefetch \in Seq(JobsOver(l)) /\ Once(r.prefetch)
        /\ KeysOf(r.prefetch) = KeysOf(s.prefetch) \cup {KeyOf(job)}
    BY <2>2, <2>3
  <2>5. r \in SlateOver(l)
    BY <2>2, <2>4, <1>0, <1>3 DEF SlateOver
  <2>6. Carries(r, O)
    BY <1>4, <1>5, <2>2, <2>4 DEF Good, Carries, ti
  <2> QED BY <2>5, <2>6 DEF Good, r
<1> QED BY <1>1, <1>6, <1>7

-----------------------------------------------------------------------------
\* The nearest title.

LEMMA NatMinimum ==
  ASSUME NEW T \in SUBSET Nat, T # {}
  PROVE  \E x \in T : \A y \in T : x <= y
<1>1. PICK x \in T : \A y \in T : ~(<<y, x>> \in OpToRel(<, Nat))
  BY NatLessThanWellFounded, WFMin
<1>2. \A y \in T : ~(y < x)
  BY <1>1 DEF OpToRel
<1> QED BY <1>2

LEMMA NearestIsThere ==
  ASSUME title \in List!Titles, NEW ts \in SUBSET List!Titles, ts # {}
  PROVE  List!Nearest(ts) \in ts
<1>1. \A t \in ts : t \in Nat /\ List!Distance(t) \in Nat
  BY CatalogAssumption DEF List!Titles, List!Distance, List!AbsDiff
<1> DEFINE far == {List!Distance(t) : t \in ts}
           near(d) == {t \in ts : List!Distance(t) = d}
<1>2. PICK d \in far : \A e \in far : d <= e
  <2>1. far \in SUBSET Nat /\ far # {}
    BY <1>1
  <2> HIDE DEF far
  <2> QED BY <2>1, NatMinimum
<1>3. PICK t \in near(d) : \A u \in near(d) : t <= u
  <2> DEFINE these == near(d)
  <2>1. these \in SUBSET Nat /\ these # {}
    BY <1>1, <1>2
  <2> HIDE DEF these
  <2>2. \E t \in these : \A u \in these : t <= u
    BY <2>1, NatMinimum
  <2> QED BY <2>2 DEF these
<1>4. \A u \in ts : \/ List!Distance(t) < List!Distance(u)
                    \/ List!Distance(t) = List!Distance(u) /\ t <= u
  <2> TAKE u \in ts
  <2>1. List!Distance(u) \in far /\ List!Distance(t) = d
    BY <1>3
  <2>2. d <= List!Distance(u) /\ d \in Nat /\ List!Distance(u) \in Nat
    BY <1>1, <1>2, <2>1
  <2>3. CASE List!Distance(u) = d
    <3>1. u \in near(d)
      BY <2>3
    <3> QED BY <3>1, <1>3, <2>1, <2>3
  <2> QED BY <2>1, <2>2, <2>3
<1>5. \E v \in ts : \A u \in ts : \/ List!Distance(v) < List!Distance(u)
                                  \/ List!Distance(v) = List!Distance(u) /\ v <= u
  BY <1>3, <1>4
<1> QED BY <1>5, Zenon DEF List!Nearest

-----------------------------------------------------------------------------
\* What a tick asks for.

LEMMA KeyIsPending ==
  ASSUME NEW k, NEW t, NEW ti, <<k, t>> \in PendingKeys(ti)
  PROVE  t \in ti.pending[k]
BY DEF PendingKeys

LEMMA JobOf ==
  ASSUME NEW k \in List!Kinds, NEW t \in List!Titles
  PROVE  List!Job(k, t) \in JobsOver(locale) /\ KeyOf(List!Job(k, t)) = <<k, t>>
BY DEF List!Job, JobsOver, KeyOf

LEMMA AskMetadataKeeps ==
  ASSUME NEW s, NEW O, Good(locale, s, O), NEW line \in {"jobs", "prefetch"}, NEW t \in List!Titles
  PROVE  Good(locale, List!AskMetadata(s, line, t), O)
<1>1. CASE t \in s.titles.pending["metadata"]
  BY <1>1 DEF List!AskMetadata
<1>2. CASE t \notin s.titles.pending["metadata"] /\ t \notin Listed
  <2> DEFINE r == [s EXCEPT !.titles.details[t] = "empty"]
  <2>1. r \in SlateOver(locale) /\ r.jobs = s.jobs /\ r.prefetch = s.prefetch
        /\ r.titles.pending = s.titles.pending
    BY DEF Good, SlateOver, TitlesOver
  <2> HIDE DEF r
  <2>2. Good(locale, r, O)
    BY <2>1, SamePending
  <2> QED BY <1>2, <2>2 DEF List!AskMetadata, r
<1>3. CASE t \notin s.titles.pending["metadata"] /\ t \in Listed
  <2> DEFINE job == List!Job("metadata", t)
  <2>1. job \in JobsOver(locale) /\ KeyOf(job) = <<"metadata", t>>
    BY JobOf DEF List!Kinds
  <2> HIDE DEF job
  <2>2. KeyOf(job) \notin PendingKeys(s.titles)
    BY <1>3, <2>1, KeyIsPending
  <2>3. Good(locale, List!Ask(s, line, job), O)
    BY <2>1, <2>2, AskKeeps
  <2> QED BY <1>3, <2>3 DEF List!AskMetadata, job
<1> QED BY <1>1, <1>2, <1>3

LEMMA AskPictureKeeps ==
  ASSUME NEW s, NEW O, Good(locale, s, O), NEW line \in {"jobs", "prefetch"},
         NEW k \in List!Kinds, NEW t \in List!Titles, t \notin s.titles.pending[k]
  PROVE  Good(locale, List!Ask(s, line, List!Job(k, t)), O)
<1> DEFINE job == List!Job(k, t)
<1>1. job \in JobsOver(locale) /\ KeyOf(job) = <<k, t>>
  BY JobOf
<1> HIDE DEF job
<1>2. KeyOf(job) \notin PendingKeys(s.titles)
  BY <1>1, KeyIsPending
<1>3. Good(locale, List!Ask(s, line, job), O)
  BY <1>1, <1>2, AskKeeps
<1> QED BY <1>3 DEF job

LEMMA AskSelectedKeeps ==
  ASSUME title \in List!Titles, NEW s, NEW O, Good(locale, s, O)
  PROVE  Good(locale, List!AskSelected(s), O)
<1>1. Good(locale, List!AskMetadata(s, "jobs", title), O)
  BY AskMetadataKeeps
<1>2. title \notin s.titles.pending["cover"]
        => Good(locale, List!Ask(s, "jobs", List!Job("cover", title)), O)
  BY AskPictureKeeps DEF List!Kinds
<1> QED BY <1>1, <1>2 DEF List!AskSelected

LEMMA AskNearMetadataKeeps ==
  ASSUME title \in List!Titles, NEW s, NEW O, Good(locale, s, O)
  PROVE  Good(locale, List!AskNearMetadata(s), O)
<1> DEFINE missing == {t \in List!Near : s.titles.details[t] = None}
<1>1. missing \in SUBSET List!Titles
  BY DEF List!Near
<1>2. missing = {} => List!AskNearMetadata(s) = s
  BY DEF List!AskNearMetadata
<1>3. missing # {} => List!AskNearMetadata(s) = List!AskMetadata(s, "prefetch", List!Nearest(missing))
  BY DEF List!AskNearMetadata
<1> HIDE DEF missing
<1>4. missing # {} => List!Nearest(missing) \in List!Titles
  BY <1>1, NearestIsThere
<1>5. missing # {} => Good(locale, List!AskMetadata(s, "prefetch", List!Nearest(missing)), O)
  BY <1>4, AskMetadataKeeps
<1> QED BY <1>2, <1>3, <1>5

LEMMA AskNearIconKeeps ==
  ASSUME title \in List!Titles, NEW s, NEW O, Good(locale, s, O)
  PROVE  Good(locale, List!AskNearIcon(s), O)
<1> DEFINE missing == {t \in List!Near : List!HasUrl(s, t) /\ s.titles.icon[t] = None}
                          \ s.titles.pending["icon"]
<1>1. missing \in SUBSET List!Titles /\ missing \cap s.titles.pending["icon"] = {}
  BY DEF List!Near
<1>2. missing = {} => List!AskNearIcon(s) = s
  BY DEF List!AskNearIcon
<1>3. missing # {} => List!AskNearIcon(s) = List!Ask(s, "prefetch", List!Job("icon", List!Nearest(missing)))
  BY DEF List!AskNearIcon
<1> HIDE DEF missing
<1>4. missing # {} => /\ List!Nearest(missing) \in List!Titles
                      /\ List!Nearest(missing) \notin s.titles.pending["icon"]
  BY <1>1, NearestIsThere
<1>5. missing # {} => Good(locale, List!Ask(s, "prefetch", List!Job("icon", List!Nearest(missing))), O)
  BY <1>4, AskPictureKeeps DEF List!Kinds
<1> QED BY <1>2, <1>3, <1>5

-----------------------------------------------------------------------------
\* The results a tick takes.

\* Texts and pictures of the locale in the place of others.
LEMMA TitlesPut ==
  ASSUME NEW l, NEW s \in SlateOver(l), NEW ti \in TitlesOver(l), NEW u, u = [s EXCEPT !.titles = ti]
  PROVE  u \in SlateOver(l) /\ u.jobs = s.jobs /\ u.prefetch = s.prefetch /\ u.titles = ti
BY DEF SlateOver

\* What comes back is no longer pending, nor elsewhere.
LEMMA ReceivedKeeps ==
  ASSUME NEW l, NEW s, NEW O, NEW r \in ResultsOver(l), KeyOf(r) \notin O,
         Good(l, s, O \cup {KeyOf(r)})
  PROVE  Good(l, List!Received(s, r), O)
<1> DEFINE done == [s EXCEPT !.titles.pending[r.kind] = List!StillPending(s, r)]
           u == List!Received(s, r)
<1>0. s \in SlateOver(l) /\ Carries(s, O \cup {KeyOf(r)}) /\ s.titles \in TitlesOver(l)
      /\ r.kind \in List!Kinds /\ r.title \in List!Titles /\ r.locale = l
      /\ KeyOf(r) = <<r.kind, r.title>>
  BY DEF Good, SlateOver, ResultsOver, KeyOf
<1>1. /\ done \in SlateOver(l) /\ done.jobs = s.jobs /\ done.prefetch = s.prefetch
      /\ done.titles.pending = [s.titles.pending EXCEPT ![r.kind] = s.titles.pending[r.kind] \ {r.title}]
  BY <1>0 DEF SlateOver, TitlesOver, List!StillPending
<1>2. u \in SlateOver(l) /\ u.jobs = s.jobs /\ u.prefetch = s.prefetch
      /\ u.titles.pending = done.titles.pending
  <2> HIDE DEF done
  <2>1. CASE ~List!Wanted(r.kind, r.title)
    BY <1>1, <2>1 DEF List!Received, done
  <2>2. CASE List!Wanted(r.kind, r.title) /\ r.kind = "metadata"
    <3> DEFINE ti == [done.titles EXCEPT !.details[r.title] = IF r.ok THEN r.locale ELSE "failed"]
    <3>1. u = [done EXCEPT !.titles = ti]
      BY <2>2 DEF List!Received, done
    <3>2. (IF r.ok THEN r.locale ELSE "failed") \in {None, "empty", "failed", l}
      BY <1>0
    <3>3. done.titles \in TitlesOver(l)
      BY <1>1 DEF SlateOver
    <3>4. ti \in TitlesOver(l) /\ ti.pending = done.titles.pending
      BY <1>0, <3>2, <3>3 DEF TitlesOver
    <3> HIDE DEF ti
    <3> QED BY <1>1, <3>1, <3>4, TitlesPut
  <2>3. CASE List!Wanted(r.kind, r.title) /\ r.kind = "cover"
    <3> DEFINE ti == [done.titles EXCEPT !.cover = List!Put(@, r)]
    <3>1. u = [done EXCEPT !.titles = ti]
      BY <2>3 DEF List!Received, done
    <3>2. \A p \in PicturesOver(l) : List!Put(p, r) \in PicturesOver(l)
      BY <1>0 DEF PicturesOver, List!Put
    <3>3. done.titles \in TitlesOver(l)
      BY <1>1 DEF SlateOver
    <3>4. ti \in TitlesOver(l) /\ ti.pending = done.titles.pending
      BY <1>0, <3>2, <3>3 DEF TitlesOver
    <3> HIDE DEF ti
    <3> QED BY <1>1, <3>1, <3>4, TitlesPut
  <2>4. CASE List!Wanted(r.kind, r.title) /\ r.kind = "icon"
    <3> DEFINE ti == [done.titles EXCEPT !.icon = List!Put(@, r)]
    <3>1. u = [done EXCEPT !.titles = ti]
      BY <2>4 DEF List!Received, done
    <3>2. \A p \in PicturesOver(l) : List!Put(p, r) \in PicturesOver(l)
      BY <1>0 DEF PicturesOver, List!Put
    <3>3. done.titles \in TitlesOver(l)
      BY <1>1 DEF SlateOver
    <3>4. ti \in TitlesOver(l) /\ ti.pending = done.titles.pending
      BY <1>0, <3>2, <3>3 DEF TitlesOver
    <3> HIDE DEF ti
    <3> QED BY <1>1, <3>1, <3>4, TitlesPut
  <2> QED BY <1>0, <2>1, <2>2, <2>3, <2>4 DEF List!Kinds
<1> HIDE DEF u, done
<1>3. PendingKeys(u.titles) = PendingKeys(s.titles) \ {KeyOf(r)}
  <2>1. u.titles.pending = [s.titles.pending EXCEPT ![r.kind] = s.titles.pending[r.kind] \ {r.title}]
    BY <1>1, <1>2
  <2> QED BY <1>0, <2>1, PendingRemoves
<1>4. Carries(u, O)
  BY <1>0, <1>2, <1>3 DEF Carries
<1> QED BY <1>2, <1>4 DEF Good, u

\* The lists after each of the first m results.
Run(g, s, m) == g = [n \in 0 .. m |-> IF n = 0 THEN s ELSE List!Received(g[n - 1], results[n])]

LEMMA RunStarts == ASSUME NEW s PROVE \E g : Run(g, s, 0)
<1> DEFINE g == [n \in 0 .. 0 |-> s]
<1>1. \A n \in 0 .. 0 : n = 0
  OBVIOUS
<1>2. Run(g, s, 0)
  BY <1>1, Zenon DEF Run
<1> QED BY <1>2

LEMMA RunGoesOn ==
  ASSUME NEW s, NEW m \in Nat, NEW g, Run(g, s, m)
  PROVE  \E h : Run(h, s, m + 1)
<1> DEFINE h == [n \in 0 .. m + 1 |-> IF n = m + 1 THEN List!Received(g[m], results[m + 1]) ELSE g[n]]
<1>1. /\ \A n \in 0 .. m : h[n] = g[n]
      /\ h[m + 1] = List!Received(g[m], results[m + 1])
  OBVIOUS
<1>2. \A n \in 0 .. m : g[n] = IF n = 0 THEN s ELSE List!Received(g[n - 1], results[n])
  BY Zenon DEF Run
<1>3. \A n \in 0 .. m + 1 : h[n] = IF n = 0 THEN s ELSE List!Received(h[n - 1], results[n])
  <2> HIDE DEF h
  <2> TAKE n \in 0 .. m + 1
  <2>1. CASE n = m + 1
    <3>1. h[n - 1] = g[m] /\ n # 0 /\ h[n] = List!Received(g[m], results[n])
      BY <1>1, <2>1
    <3> QED BY <3>1, Zenon
  <2>2. CASE n # m + 1 /\ n # 0
    <3>1. n \in 0 .. m /\ n - 1 \in 0 .. m
      BY <2>2
    <3>2. h[n] = g[n] /\ h[n - 1] = g[n - 1]
      BY <3>1, <1>1
    <3> QED BY <3>1, <3>2, <2>2, <1>2, Zenon
  <2>3. CASE n = 0
    <3>1. n \in 0 .. m
      BY <2>3
    <3> QED BY <3>1, <2>3, <1>1, <1>2, Zenon
  <2> QED BY <2>1, <2>2, <2>3
<1>4. h = [n \in 0 .. m + 1 |-> h[n]]
  OBVIOUS
<1> HIDE DEF h
<1>5. Run(h, s, m + 1)
  BY <1>3, <1>4, Zenon DEF Run
<1> QED BY <1>5

LEMMA RunExists == ASSUME NEW s, NEW m \in Nat PROVE \E g : Run(g, s, m)
<1> DEFINE none == {n \in Nat : ~ \E g : Run(g, s, n)}
<1>1. none = {}
  <2> SUFFICES ASSUME none # {} PROVE FALSE
    OBVIOUS
  <2>1. none \in SUBSET Nat
    OBVIOUS
  <2>2. PICK n \in none : \A k \in none : n <= k
    <3> HIDE DEF none
    <3> QED BY <2>1, NatMinimum
  <2>3. n # 0
    BY RunStarts
  <2>4. n - 1 \in Nat /\ n - 1 \notin none
    BY <2>2, <2>3
  <2>5. PICK g : Run(g, s, n - 1)
    BY <2>4
  <2>6. \E h : Run(h, s, (n - 1) + 1)
    BY <2>4, <2>5, RunGoesOn
  <2>7. (n - 1) + 1 = n
    BY <2>4
  <2> QED BY <2>2, <2>6, <2>7
<1> QED BY <1>1

LEMMA RunUnfolds ==
  ASSUME NEW s, List!TakenPerTick \in Nat
  PROVE  \E g : Run(g, s, List!TakenPerTick) /\ List!AllReceived(s) = g[List!TakenPerTick]
<1> DEFINE g == CHOOSE h : Run(h, s, List!TakenPerTick)
<1>1. Run(g, s, List!TakenPerTick)
  BY RunExists
<1>2. List!AllReceived(s) = g[List!TakenPerTick]
  BY Zenon DEF List!AllReceived, Run
<1> QED BY <1>1, <1>2

LEMMA AllReceivedKeeps ==
  ASSUME results \in Seq(ResultsOver(locale)), Once(results), List!TakenPerTick \in 0 .. Len(results),
         NEW O, KeysOf(results) \cap O = {}, NEW s, Good(locale, s, KeysOf(results) \cup O)
  PROVE  Good(locale, List!AllReceived(s), Rest(results, List!TakenPerTick) \cup O)
<1> DEFINE m == List!TakenPerTick
<1>1. Len(results) \in Nat /\ m \in Nat /\ m \in 0 .. Len(results)
  BY LenProperties
<1>2. PICK g : Run(g, s, m) /\ List!AllReceived(s) = g[m]
  BY <1>1, RunUnfolds
<1> HIDE DEF m
<1>3. g[0] = s /\ \A n \in 1 .. m : g[n] = List!Received(g[n - 1], results[n])
  <2>1. \A n \in 0 .. m : g[n] = IF n = 0 THEN s ELSE List!Received(g[n - 1], results[n])
    BY <1>2, Zenon DEF Run
  <2>2. 0 \in 0 .. m /\ \A n \in 1 .. m : n \in 0 .. m /\ n # 0
    BY <1>1
  <2> QED BY <2>1, <2>2, Zenon
<1> DEFINE bad == {n \in 0 .. m : ~ Good(locale, g[n], Rest(results, n) \cup O)}
<1>4. bad = {}
  <2> SUFFICES ASSUME bad # {} PROVE FALSE
    OBVIOUS
  <2>1. bad \in SUBSET Nat
    OBVIOUS
  <2>2. PICK n \in bad : \A k \in bad : n <= k
    <3> HIDE DEF bad
    <3> QED BY <2>1, NatMinimum
  <2>3. n # 0
    BY <1>3, RestOfNone
  <2>4. n \in 1 .. Len(results) /\ n \in 1 .. m /\ n - 1 \in 0 .. m /\ n - 1 \notin bad
    <3>1. n \in 0 .. m
      BY <2>2
    <3>2. n \in 1 .. Len(results) /\ n \in 1 .. m /\ n - 1 \in 0 .. m /\ ~(n <= n - 1)
      BY <1>1, <2>3, <3>1
    <3> HIDE DEF bad
    <3> QED BY <2>2, <3>2
  <2>5. /\ Rest(results, n - 1) = Rest(results, n) \cup {KeyOf(results[n])}
        /\ KeyOf(results[n]) \notin Rest(results, n)
    BY <2>4, RestSplits
  <2>6. results[n] \in ResultsOver(locale) /\ KeyOf(results[n]) \notin O
    BY <2>4, ElementOfSeq DEF KeysOf
  <2> DEFINE x == g[n - 1]
             r == results[n]
             P == Rest(results, n) \cup O
  <2>7. Good(locale, x, P \cup {KeyOf(r)})
    <3>1. Good(locale, g[n - 1], Rest(results, n - 1) \cup O)
      BY <2>4
    <3>2. Rest(results, n - 1) \cup O = P \cup {KeyOf(r)}
      BY <2>5
    <3> QED BY <3>1, <3>2
  <2>8. g[n] = List!Received(x, r) /\ r \in ResultsOver(locale) /\ KeyOf(r) \notin P
    BY <1>3, <2>4, <2>5, <2>6
  <2>9. ~ Good(locale, g[n], P)
    BY <2>2
  <2> HIDE DEF x, r, P
  <2> QED BY <2>7, <2>8, <2>9, ReceivedKeeps
<1>5. m \in 0 .. m
  BY <1>1
<1> QED BY <1>2, <1>4, <1>5 DEF m

-----------------------------------------------------------------------------
\* The steps.

Slate(ti, q, p) == [titles |-> ti, jobs |-> q, prefetch |-> p]

LEMMA SlateIs ==
  ASSUME NEW ti, NEW q, NEW p
  PROVE  /\ Slate(ti, q, p).titles = ti /\ Slate(ti, q, p).jobs = q /\ Slate(ti, q, p).prefetch = p
         /\ \A l : Slate(ti, q, p) \in SlateOver(l)
              <=> ti \in TitlesOver(l) /\ q \in Seq(JobsOver(l)) /\ p \in Seq(JobsOver(l))
BY DEF Slate, SlateOver

LEMMA CatUnfolds ==
  /\ CatInv <=> CatOK(locale, title, Slate(titles, queue, prefetch), results, working, panicked)
  /\ CatInv' <=> CatOK(locale', title', Slate(titles', queue', prefetch'), results', working', panicked')
BY DEF CatInv, List!Now, Slate

\* Nothing asked, and nothing pending.
LEMMA NothingAsked ==
  ASSUME NEW l \in Languages, NEW sel \in List!Titles, NEW ti \in TitlesOver(l),
         \A k \in List!Kinds : ti.pending[k] = {}
  PROVE  CatOK(l, sel, Slate(ti, <<>>, <<>>), <<>>, None, {})
<1>1. \A S : <<>> \in Seq(S) /\ Len(<<>>) = 0
  BY EmptySeq
<1>2. KeysOf(<<>>) = {} /\ Once(<<>>)
  BY <1>1 DEF KeysOf, Once
<1>3. PendingKeys(ti) = {}
  BY DEF PendingKeys
<1>4. WorkKeys(None) = {} /\ IsFiniteSet({})
  BY FS_EmptySet DEF WorkKeys
<1> DEFINE s == Slate(ti, <<>>, <<>>)
<1>5. s.titles = ti /\ s.jobs = <<>> /\ s.prefetch = <<>> /\ s \in SlateOver(l)
  <2>1. <<>> \in Seq(JobsOver(l))
    BY <1>1
  <2> QED BY <2>1 DEF Slate, SlateOver
<1> HIDE DEF s
<1>6. Carries(s, KeysOf(<<>>) \cup WorkKeys(None) \cup {})
  BY <1>2, <1>3, <1>4, <1>5 DEF Carries
<1>7. Apart(<<>>, None, {})
  BY <1>2, <1>4 DEF Apart
<1>8. CatOK(l, sel, s, <<>>, None, {})
  BY <1>1, <1>4, <1>5, <1>6, <1>7 DEF CatOK
<1> QED BY <1>8 DEF s

\* New texts and pictures for a list of the same locale.
LEMMA NewTexts ==
  ASSUME CatInv, title' \in List!Titles, titles' \in TitlesOver(locale), titles'.pending = titles.pending,
         UNCHANGED <<locale, queue, prefetch, results, working, panicked>>
  PROVE  CatInv'
<1> DEFINE s == Slate(titles, queue, prefetch)
           r == Slate(titles', queue, prefetch)
           O == KeysOf(results) \cup WorkKeys(working) \cup panicked
<1>1. CatOK(locale, title, s, results, working, panicked)
  BY CatUnfolds
<1>2. Good(locale, s, O)
  BY <1>1 DEF CatOK, Good
<1>3. r \in SlateOver(locale) /\ r.jobs = s.jobs /\ r.prefetch = s.prefetch
      /\ r.titles.pending = s.titles.pending
  BY <1>2, SlateIs DEF Good
<1>4. Good(locale, r, O)
  <2> HIDE DEF r, s, O
  <2> QED BY <1>2, <1>3, SamePending
<1>5. CatOK(locale, title', r, results, working, panicked)
  BY <1>1, <1>4 DEF CatOK, Good
<1> QED BY <1>5, CatUnfolds

LEMMA FreshTexts ==
  ASSUME NEW l, titles \in TitlesOver(l), NEW k \in Languages
  PROVE  /\ List!Fresh \in TitlesOver(l) /\ List!Fresh.pending = titles.pending
         /\ [List!Fresh EXCEPT !.pending = List!NoPending] \in TitlesOver(k)
         /\ \A m \in List!Kinds : [List!Fresh EXCEPT !.pending = List!NoPending].pending[m] = {}
BY DEF TitlesOver, PicturesOver, List!Fresh, List!Blank, List!NoPending

LEMMA InvTypes ==
  ASSUME CatInv
  PROVE  /\ locale \in Languages /\ title \in List!Titles /\ titles \in TitlesOver(locale)
         /\ queue \in Seq(JobsOver(locale)) /\ prefetch \in Seq(JobsOver(locale))
         /\ results \in Seq(ResultsOver(locale)) /\ working \in JobsOver(locale) \cup {None}
         /\ panicked \subseteq List!Kinds \X List!Titles /\ IsFiniteSet(panicked)
         /\ Apart(results, working, panicked)
         /\ Carries(Slate(titles, queue, prefetch), KeysOf(results) \cup WorkKeys(working) \cup panicked)
BY CatUnfolds, SlateIs DEF CatOK

\* A new worker has nothing of the old one's.
LEMMA Restarts ==
  ASSUME CatInv, locale' \in Languages, title' \in List!Titles, List!RestartWorker
  PROVE  CatInv'
<1>1. titles' \in TitlesOver(locale') /\ \A k \in List!Kinds : titles'.pending[k] = {}
  BY InvTypes, FreshTexts DEF List!RestartWorker
<1>2. CatOK(locale', title', Slate(titles', <<>>, <<>>), <<>>, None, {})
  BY <1>1, NothingAsked
<1> QED BY <1>2, CatUnfolds DEF List!RestartWorker, List!Spawn

LEMMA ZeroIsATitle == 0 \in List!Titles
BY CatalogAssumption DEF List!Titles

LEMMA TickKeeps == ASSUME CatInv, List!Tick PROVE CatInv'
<1> DEFINE E == WorkKeys(working) \cup panicked
           O == KeysOf(results) \cup E
           s == List!AllReceived(List!AskNearIcon(List!AskNearMetadata(List!AskSelected(List!Prune(List!Now)))))
           m == List!TakenPerTick
           res == Drop(results, m)
<1>0. /\ results \in Seq(ResultsOver(locale)) /\ Once(results) /\ title \in List!Titles
      /\ KeysOf(results) \cap E = {}
      /\ Apart(results, working, panicked)
  BY InvTypes DEF Apart
<1>1. /\ titles' = s.titles /\ queue' = s.jobs /\ prefetch' = s.prefetch
      /\ results' = res /\ UNCHANGED <<title, locale, working, panicked>>
  BY DEF List!Tick, Drop
<1>2. m \in 0 .. Len(results)
  <2>1. Len(results) \in Nat
    BY <1>0, LenProperties
  <2> QED BY <2>1, CatalogAssumption DEF List!TakenPerTick
<1>3. Good(locale, List!Now, O)
  BY DEF CatInv, CatOK, Good
<1> HIDE DEF O, E
<1>4. Good(locale, s, Rest(results, m) \cup E)
  <2> DEFINE a == List!Prune(List!Now)
             b == List!AskSelected(a)
             c == List!AskNearMetadata(b)
             d == List!AskNearIcon(c)
  <2>1. Good(locale, a, O)
    BY <1>3, PruneKeeps
  <2> HIDE DEF a
  <2>2. Good(locale, b, O)
    BY <1>0, <2>1, AskSelectedKeeps
  <2> HIDE DEF b
  <2>3. Good(locale, c, O)
    BY <1>0, <2>2, AskNearMetadataKeeps
  <2> HIDE DEF c
  <2>4. Good(locale, d, O)
    BY <1>0, <2>3, AskNearIconKeeps
  <2> HIDE DEF d
  <2>5. Good(locale, List!AllReceived(d), Rest(results, List!TakenPerTick) \cup E)
    BY <1>0, <1>2, <2>4, AllReceivedKeeps DEF O
  <2> QED BY <2>5 DEF a, b, c, d
<1>5. /\ res \in Seq(ResultsOver(locale)) /\ Once(res)
      /\ KeysOf(res) = Rest(results, m) /\ KeysOf(res) \subseteq KeysOf(results)
  <2>1. results \in Seq(ResultsOver(locale)) /\ Once(results) /\ m \in 0 .. Len(results)
    BY <1>0, <1>2
  <2> HIDE DEF m
  <2> QED BY <2>1, DropLeavesRest
<1> HIDE DEF s, res, m
<1>6. Apart(res, working, panicked)
  BY <1>0, <1>5 DEF Apart
<1>7. Carries(s, KeysOf(res) \cup WorkKeys(working) \cup panicked) /\ s \in SlateOver(locale)
  <2>1. Rest(results, m) \cup E = KeysOf(res) \cup WorkKeys(working) \cup panicked
    BY <1>5 DEF E
  <2> QED BY <1>4, <2>1 DEF Good
<1>8. s = Slate(titles', queue', prefetch')
  BY <1>1, <1>7 DEF SlateOver, Slate
<1>9. CatOK(locale, title, s, res, working, panicked)
  BY <1>5, <1>6, <1>7, InvTypes DEF CatOK
<1> QED BY <1>1, <1>8, <1>9, CatUnfolds

LEMMA TakeKeeps == ASSUME CatInv, List!TakeJob PROVE CatInv'
<1> DEFINE S == JobsOver(locale)
<1>0. UNCHANGED <<title, locale, titles, results, panicked>> /\ working = None
  BY DEF List!TakeJob
<1>1. /\ queue \in Seq(S) /\ prefetch \in Seq(S) /\ Once(queue) /\ Once(prefetch)
      /\ KeysOf(queue) \cap KeysOf(prefetch) = {} /\ Once(results)
      /\ KeysOf(queue) \cap (KeysOf(results) \cup panicked) = {}
      /\ KeysOf(prefetch) \cap (KeysOf(results) \cup panicked) = {}
      /\ PendingKeys(titles) = KeysOf(queue) \cup KeysOf(prefetch) \cup KeysOf(results) \cup panicked
      /\ KeysOf(results) \cap panicked = {}
  BY <1>0, InvTypes, SlateIs DEF Carries, Apart, WorkKeys
<1>2. None \notin S
  BY InvTypes, CatalogAssumption DEF JobsOver, List!Kinds, List!Titles
<1>3. ASSUME NEW q \in Seq(S), NEW p \in Seq(S), NEW w \in S, Once(q), Once(p),
             KeysOf(q) \cap KeysOf(p) = {}, KeyOf(w) \notin KeysOf(q) \cup KeysOf(p),
             KeysOf(q) \cup KeysOf(p) \cup {KeyOf(w)} = KeysOf(queue) \cup KeysOf(prefetch)
      PROVE  CatOK(locale, title, Slate(titles, q, p), results, w, panicked)
  <2> DEFINE s == Slate(titles, q, p)
  <2>1. s.titles = titles /\ s.jobs = q /\ s.prefetch = p /\ s \in SlateOver(locale)
    BY <1>3, InvTypes, SlateIs
  <2> HIDE DEF s
  <2>2. WorkKeys(w) = {KeyOf(w)}
    BY <1>2 DEF WorkKeys
  <2>3. Apart(results, w, panicked)
    BY <1>1, <1>3, <2>2 DEF Apart
  <2>4. Carries(s, KeysOf(results) \cup WorkKeys(w) \cup panicked)
    BY <1>1, <1>3, <2>1, <2>2 DEF Carries
  <2>5. CatOK(locale, title, s, results, w, panicked)
    BY <2>1, <2>3, <2>4, InvTypes DEF CatOK
  <2> QED BY <2>5 DEF s
<1>4. CASE queue # <<>> /\ working' = Head(queue) /\ queue' = Tail(queue) /\ prefetch' = prefetch
  <2>1. /\ Head(queue) \in S /\ Tail(queue) \in Seq(S) /\ Once(Tail(queue))
        /\ KeysOf(queue) = KeysOf(Tail(queue)) \cup {KeyOf(Head(queue))}
        /\ KeyOf(Head(queue)) \notin KeysOf(Tail(queue))
    BY <1>1, <1>4, TailKeys
  <2>2. CatOK(locale, title, Slate(titles, Tail(queue), prefetch), results, Head(queue), panicked)
    BY <1>1, <1>3, <2>1
  <2> QED BY <1>0, <1>4, <2>2, CatUnfolds
<1>5. CASE prefetch # <<>> /\ working' = Head(prefetch) /\ prefetch' = Tail(prefetch) /\ queue' = queue
  <2>1. /\ Head(prefetch) \in S /\ Tail(prefetch) \in Seq(S) /\ Once(Tail(prefetch))
        /\ KeysOf(prefetch) = KeysOf(Tail(prefetch)) \cup {KeyOf(Head(prefetch))}
        /\ KeyOf(Head(prefetch)) \notin KeysOf(Tail(prefetch))
    BY <1>1, <1>5, TailKeys
  <2>2. CatOK(locale, title, Slate(titles, queue, Tail(prefetch)), results, Head(prefetch), panicked)
    BY <1>1, <1>3, <2>1
  <2> QED BY <1>0, <1>5, <2>2, CatUnfolds
<1> QED BY <1>4, <1>5 DEF List!TakeJob

\* What was at work is in the results, or lost.
LEMMA WorkEnds ==
  ASSUME CatInv, working # None,
         NEW res \in Seq(ResultsOver(locale)), Once(res), NEW lost \in SUBSET (List!Kinds \X List!Titles),
         IsFiniteSet(lost), KeysOf(res) \cap lost = {},
         KeysOf(res) \cup lost = KeysOf(results) \cup {KeyOf(working)} \cup panicked,
         UNCHANGED <<title, locale, titles, queue, prefetch>>,
         working' = None, results' = res, panicked' = lost
  PROVE  CatInv'
<1> DEFINE s == Slate(titles, queue, prefetch)
<1>1. WorkKeys(working) = {KeyOf(working)} /\ WorkKeys(None) = {}
  BY DEF WorkKeys
<1>2. Apart(res, None, lost)
  BY <1>1 DEF Apart
<1>3. Carries(s, KeysOf(res) \cup WorkKeys(None) \cup lost)
  <2>1. KeysOf(res) \cup WorkKeys(None) \cup lost = KeysOf(results) \cup WorkKeys(working) \cup panicked
    BY <1>1
  <2> QED BY <2>1, InvTypes
<1>4. s \in SlateOver(locale)
  BY InvTypes, SlateIs
<1> HIDE DEF s
<1>5. CatOK(locale, title, s, res, None, lost)
  BY <1>2, <1>3, <1>4, InvTypes DEF CatOK
<1> QED BY <1>5, CatUnfolds DEF s

LEMMA EndKeeps == ASSUME CatInv, NEW ok \in BOOLEAN, List!EndJob(ok) PROVE CatInv'
<1> DEFINE r == List!Result(working, ok)
<1>1. working # None /\ working' = None /\ results' = Append(results, r)
      /\ UNCHANGED <<title, locale, titles, queue, prefetch, panicked>>
  BY DEF List!EndJob
<1>2. r \in ResultsOver(locale) /\ KeyOf(r) = KeyOf(working)
  BY <1>1, InvTypes DEF JobsOver, ResultsOver, List!Result, KeyOf
<1> HIDE DEF r
<1>3. /\ WorkKeys(working) = {KeyOf(working)} /\ KeyOf(working) \notin KeysOf(results)
      /\ KeysOf(results) \cap panicked = {} /\ KeyOf(working) \notin panicked /\ Once(results)
  BY <1>1, InvTypes DEF Apart, WorkKeys
<1>4. /\ Append(results, r) \in Seq(ResultsOver(locale)) /\ Once(Append(results, r))
      /\ KeysOf(Append(results, r)) = KeysOf(results) \cup {KeyOf(working)}
  BY <1>2, <1>3, InvTypes, AppendKeys
<1> DEFINE res == Append(results, r)
<1>5. res \in Seq(ResultsOver(locale)) /\ Once(res) /\ results' = res
      /\ KeysOf(res) = KeysOf(results) \cup {KeyOf(working)}
  BY <1>1, <1>4
<1> HIDE DEF res
<1>6. /\ KeysOf(res) \cap panicked = {}
      /\ KeysOf(res) \cup panicked = KeysOf(results) \cup {KeyOf(working)} \cup panicked
  BY <1>3, <1>5
<1>7. panicked \in SUBSET (List!Kinds \X List!Titles) /\ IsFiniteSet(panicked)
  BY InvTypes
<1> QED BY <1>1, <1>5, <1>6, <1>7, WorkEnds

LEMMA PanicKeeps == ASSUME CatInv, List!PanicJob PROVE CatInv'
<1> DEFINE lost == panicked \cup {KeyOf(working)}
<1>1. /\ working # None /\ working' = None /\ panicked' = lost
      /\ UNCHANGED <<title, locale, titles, queue, prefetch, results>>
  BY DEF List!PanicJob, KeyOf
<1>2. /\ WorkKeys(working) = {KeyOf(working)} /\ KeyOf(working) \notin KeysOf(results)
      /\ KeysOf(results) \cap panicked = {} /\ Once(results)
  BY <1>1, InvTypes DEF Apart, WorkKeys
<1>3. KeyOf(working) \in List!Kinds \X List!Titles
  BY <1>1, InvTypes DEF JobsOver, KeyOf
<1>4. lost \in SUBSET (List!Kinds \X List!Titles) /\ IsFiniteSet(lost)
  BY <1>3, InvTypes, FS_AddElement
<1>5. /\ KeysOf(results) \cap lost = {}
      /\ KeysOf(results) \cup lost = KeysOf(results) \cup {KeyOf(working)} \cup panicked
  BY <1>2
<1>6. results \in Seq(ResultsOver(locale)) /\ results' = results
  BY <1>1, InvTypes
<1> HIDE DEF lost
<1> QED BY <1>1, <1>2, <1>4, <1>5, <1>6, WorkEnds

LEMMA CatBegins == List!Init => CatInv
<1> SUFFICES ASSUME List!Init PROVE CatInv
  OBVIOUS
<1>1. titles \in TitlesOver(locale) /\ \A k \in List!Kinds : titles.pending[k] = {}
  BY DEF List!Init, List!NoPending, List!Blank, TitlesOver, PicturesOver
<1>2. locale \in Languages /\ title \in List!Titles
  BY ZeroIsATitle DEF List!Init
<1>3. CatOK(locale, title, Slate(titles, <<>>, <<>>), <<>>, None, {})
  BY <1>1, <1>2, NothingAsked
<1> QED BY <1>3, CatUnfolds DEF List!Init

LEMMA CatStep == CatInv /\ [List!Next]_List!vars => CatInv'
<1> SUFFICES ASSUME CatInv, [List!Next]_List!vars PROVE CatInv'
  OBVIOUS
<1>1. CASE List!Tick
  BY <1>1, TickKeeps
<1>2. CASE List!Select
  <2>1. title' \in List!Titles /\ titles' = titles
        /\ UNCHANGED <<locale, queue, prefetch, results, working, panicked>>
    BY <1>2 DEF List!Select
  <2> QED BY <2>1, InvTypes, NewTexts
<1>3. CASE List!Return
  <2>1. title' \in List!Titles /\ (titles' = titles \/ titles' = List!Fresh)
        /\ UNCHANGED <<locale, queue, prefetch, results, working, panicked>>
    BY <1>3, InvTypes, ZeroIsATitle DEF List!Return
  <2>2. titles' \in TitlesOver(locale) /\ titles'.pending = titles.pending
    BY <2>1, InvTypes, FreshTexts
  <2> QED BY <2>1, <2>2, NewTexts
<1>4. CASE List!SetLocale \/ List!SignIn
  <2>1. locale' \in Languages /\ title' \in List!Titles /\ List!RestartWorker
    BY <1>4, InvTypes, ZeroIsATitle DEF List!SetLocale, List!SignIn
  <2> QED BY <2>1, Restarts
<1>5. CASE List!TakeJob
  BY <1>5, TakeKeeps
<1>6. CASE \E ok \in BOOLEAN : List!EndJob(ok)
  BY <1>6, EndKeeps
<1>7. CASE List!PanicJob
  BY <1>7, PanicKeeps
<1>8. CASE List!Leave \/ UNCHANGED List!vars
  BY <1>8 DEF List!Leave, List!vars, CatInv, List!Now
<1> QED BY <1>1, <1>2, <1>3, <1>4, <1>5, <1>6, <1>7, <1>8 DEF List!Next, List!Worker

-----------------------------------------------------------------------------
\* What is on its way, and how many.

LEMMA KeysOfSet ==
  ASSUME NEW S, NEW q \in Seq(S), NEW k, NEW t
  PROVE  <<k, t>> \in KeysOf(q) <=> \E j \in List!ToSet(q) : j.kind = k /\ j.title = t
<1>1. List!ToSet(q) = {q[i] : i \in 1 .. Len(q)}
  BY LenProperties DEF List!ToSet
<1> QED BY <1>1 DEF KeysOf, KeyOf

LEMMA AskedAreKeys ==
  ASSUME CatInv, NEW k, NEW t
  PROVE  t \in List!Asked(k) <=> <<k, t>> \in KeysOf(queue) \cup KeysOf(prefetch) \cup KeysOf(results)
                                                  \cup WorkKeys(working)
<1>1. /\ <<k, t>> \in KeysOf(queue) <=> \E j \in List!ToSet(queue) : j.kind = k /\ j.title = t
      /\ <<k, t>> \in KeysOf(prefetch) <=> \E j \in List!ToSet(prefetch) : j.kind = k /\ j.title = t
      /\ <<k, t>> \in KeysOf(results) <=> \E j \in List!ToSet(results) : j.kind = k /\ j.title = t
  BY InvTypes, KeysOfSet
<1> DEFINE W == IF working = None THEN {} ELSE {working}
<1>2. <<k, t>> \in WorkKeys(working) <=> \E j \in W : j.kind = k /\ j.title = t
  BY DEF WorkKeys, KeyOf
<1>3. t \in List!Asked(k) <=> \E j \in List!InFlight : j.kind = k /\ j.title = t
  BY DEF List!Asked
<1>4. List!InFlight = List!ToSet(queue) \cup List!ToSet(prefetch) \cup List!ToSet(results) \cup W
  BY DEF List!InFlight
<1> HIDE DEF W
<1> QED BY <1>1, <1>2, <1>3, <1>4

LEMMA SizesAdd ==
  ASSUME NEW A, NEW B, IsFiniteSet(A), IsFiniteSet(B), A \cap B = {}
  PROVE  /\ IsFiniteSet(A \cup B) /\ Cardinality(A \cup B) = Cardinality(A) + Cardinality(B)
         /\ Cardinality(A) \in Nat /\ Cardinality(B) \in Nat
<1>1. IsFiniteSet(A \cup B) /\ Cardinality(A \cup B) = Cardinality(A) + Cardinality(B) - Cardinality(A \cap B)
  BY FS_Union
<1>2. Cardinality(A \cap B) = 0
  BY FS_EmptySet
<1>3. Cardinality(A) \in Nat /\ Cardinality(B) \in Nat
  BY FS_CardinalityType
<1> QED BY <1>1, <1>2, <1>3

LEMMA KeysOfKind ==
  ASSUME NEW k, NEW T, IsFiniteSet(T)
  PROVE  IsFiniteSet({k} \X T) /\ Cardinality({k} \X T) = Cardinality(T)
<1> DEFINE f == [t \in T |-> <<k, t>>]
<1>1. f \in Bijection(T, {k} \X T)
  <2>1. f \in [T -> {k} \X T]
    OBVIOUS
  <2>2. \A t, u \in T : f[t] = f[u] => t = u
    OBVIOUS
  <2>3. \A x \in {k} \X T : \E t \in T : f[t] = x
    <3> TAKE x \in {k} \X T
    <3>1. x[2] \in T /\ x = <<k, x[2]>>
      OBVIOUS
    <3>2. f[x[2]] = x
      BY <3>1
    <3> QED BY <3>1, <3>2
  <2> HIDE DEF f
  <2> QED BY <2>1, <2>2, <2>3 DEF Bijection, Injection, IsInjective, Surjection
<1>2. ExistsBijection(T, {k} \X T)
  BY <1>1 DEF ExistsBijection
<1> QED BY <1>2, FS_Bijection

LEMMA PendingCounts ==
  ASSUME NEW l, NEW ti \in TitlesOver(l)
  PROVE  Cardinality(PendingKeys(ti)) = Cardinality(ti.pending["metadata"])
           + Cardinality(ti.pending["cover"]) + Cardinality(ti.pending["icon"])
<1> DEFINE M == ti.pending["metadata"]
           C == ti.pending["cover"]
           I == ti.pending["icon"]
           mm == {"metadata"} \X M
           cc == {"cover"} \X C
           ii == {"icon"} \X I
<1>1. M \subseteq List!Titles /\ C \subseteq List!Titles /\ I \subseteq List!Titles
  BY DEF TitlesOver, List!Kinds
<1>2. IsFiniteSet(List!Titles)
  <2>1. 0 \in Int /\ Count - 1 \in Int
    BY CatalogAssumption
  <2> QED BY <2>1, FS_Interval DEF List!Titles
<1>3. IsFiniteSet(M) /\ IsFiniteSet(C) /\ IsFiniteSet(I)
  BY <1>1, <1>2, FS_Subset
<1>4. PendingKeys(ti) = (mm \cup cc) \cup ii
  <2>1. \A k \in List!Kinds : k = "metadata" \/ k = "cover" \/ k = "icon"
    BY DEF List!Kinds
  <2>2. "metadata" \in List!Kinds /\ "cover" \in List!Kinds /\ "icon" \in List!Kinds
    BY DEF List!Kinds
  <2>3. ASSUME NEW x \in PendingKeys(ti) PROVE x \in (mm \cup cc) \cup ii
    BY <2>1 DEF PendingKeys
  <2>4. ASSUME NEW x \in (mm \cup cc) \cup ii PROVE x \in PendingKeys(ti)
    BY <1>1, <2>2 DEF PendingKeys
  <2> QED BY <2>3, <2>4
<1>5. mm \cap cc = {} /\ (mm \cup cc) \cap ii = {}
  OBVIOUS
<1>6. /\ IsFiniteSet(mm) /\ Cardinality(mm) = Cardinality(M)
      /\ IsFiniteSet(cc) /\ Cardinality(cc) = Cardinality(C)
      /\ IsFiniteSet(ii) /\ Cardinality(ii) = Cardinality(I)
  BY <1>3, KeysOfKind
<1> HIDE DEF mm, cc, ii, M, C, I
<1>7. IsFiniteSet(mm \cup cc) /\ Cardinality(mm \cup cc) = Cardinality(mm) + Cardinality(cc)
  BY <1>5, <1>6, SizesAdd
<1>8. Cardinality((mm \cup cc) \cup ii) = Cardinality(mm \cup cc) + Cardinality(ii)
  BY <1>5, <1>6, <1>7, SizesAdd
<1> QED BY <1>4, <1>6, <1>7, <1>8 DEF M, C, I

LEMMA CarriedCounts ==
  ASSUME CatInv
  PROVE  Cardinality(PendingKeys(titles)) = Len(queue) + Len(prefetch) + Len(results)
           + (IF working = None THEN 0 ELSE 1) + Cardinality(panicked)
<1> DEFINE A == KeysOf(queue)
           B == KeysOf(prefetch)
           C == KeysOf(results)
           D == WorkKeys(working)
           w == IF working = None THEN 0 ELSE 1
<1>1. /\ A \cap B = {} /\ A \cap (C \cup D \cup panicked) = {} /\ B \cap (C \cup D \cup panicked) = {}
      /\ C \cap D = {} /\ C \cap panicked = {} /\ D \cap panicked = {}
      /\ PendingKeys(titles) = A \cup B \cup (C \cup D \cup panicked)
      /\ Once(queue) /\ Once(prefetch) /\ Once(results) /\ IsFiniteSet(panicked)
      /\ queue \in Seq(JobsOver(locale)) /\ prefetch \in Seq(JobsOver(locale))
      /\ results \in Seq(ResultsOver(locale))
  BY InvTypes, SlateIs DEF Carries, Apart
<1>2. /\ IsFiniteSet(A) /\ Cardinality(A) = Len(queue)
      /\ IsFiniteSet(B) /\ Cardinality(B) = Len(prefetch)
      /\ IsFiniteSet(C) /\ Cardinality(C) = Len(results)
  BY <1>1, CountOnce
<1>3. IsFiniteSet(D) /\ Cardinality(D) = w
  BY FS_EmptySet, FS_Singleton DEF WorkKeys
<1> HIDE DEF A, B, C, D, w
<1>4. IsFiniteSet(A \cup B) /\ Cardinality(A \cup B) = Len(queue) + Len(prefetch)
      /\ Len(queue) \in Nat /\ Len(prefetch) \in Nat
  <2>1. A \cap B = {} /\ IsFiniteSet(A) /\ IsFiniteSet(B)
    BY <1>1, <1>2
  <2>2. /\ IsFiniteSet(A \cup B) /\ Cardinality(A \cup B) = Cardinality(A) + Cardinality(B)
        /\ Cardinality(A) \in Nat /\ Cardinality(B) \in Nat
    BY <2>1, SizesAdd
  <2> QED BY <1>2, <2>2
<1>5. IsFiniteSet(C \cup D) /\ Cardinality(C \cup D) = Len(results) + w /\ Len(results) \in Nat /\ w \in Nat
  BY <1>1, <1>2, <1>3, SizesAdd
<1>6. (C \cup D) \cap panicked = {} /\ (A \cup B) \cap ((C \cup D) \cup panicked) = {}
  BY <1>1
<1>7. /\ IsFiniteSet((C \cup D) \cup panicked) /\ Cardinality(panicked) \in Nat
      /\ Cardinality((C \cup D) \cup panicked) = Cardinality(C \cup D) + Cardinality(panicked)
  BY <1>1, <1>5, <1>6, SizesAdd
<1>8. Cardinality((A \cup B) \cup ((C \cup D) \cup panicked))
        = Cardinality(A \cup B) + Cardinality((C \cup D) \cup panicked)
  BY <1>4, <1>6, <1>7, SizesAdd
<1>9. PendingKeys(titles) = (A \cup B) \cup ((C \cup D) \cup panicked)
  BY <1>1
<1> QED BY <1>4, <1>5, <1>7, <1>8, <1>9 DEF w

LEMMA SameSize == \A S : List!Cardinality(S) = Cardinality(S)
BY Zenon DEF List!Cardinality, Cardinality

LEMMA PendingOnItsWay == ASSUME CatInv PROVE PendingIsOnItsWay
<1>1. ASSUME NEW k \in List!Kinds
      PROVE  titles.pending[k] = List!Asked(k) \cup {t \in List!Titles : <<k, t>> \in panicked}
  <2> DEFINE others == {t \in List!Titles : <<k, t>> \in panicked}
             P == KeysOf(queue) \cup KeysOf(prefetch) \cup KeysOf(results) \cup WorkKeys(working)
  <2>1. PendingKeys(titles) = P \cup panicked
    BY InvTypes, SlateIs DEF Carries
  <2>2. titles.pending[k] \subseteq List!Titles
    BY InvTypes DEF TitlesOver
  <2>3. \A t : t \in titles.pending[k] <=> <<k, t>> \in PendingKeys(titles)
    BY <2>2, <1>1 DEF PendingKeys
  <2>4. \A t : <<k, t>> \in panicked <=> t \in others
    BY InvTypes
  <2>5. \A t : t \in List!Asked(k) <=> <<k, t>> \in P
    BY AskedAreKeys
  <2> HIDE DEF P, others
  <2>6. titles.pending[k] = List!Asked(k) \cup others
    BY <2>1, <2>3, <2>4, <2>5
  <2> QED BY <2>6 DEF others
<1>2. Cardinality(PendingKeys(titles)) = Cardinality(titles.pending["metadata"])
        + Cardinality(titles.pending["cover"]) + Cardinality(titles.pending["icon"])
  BY InvTypes, PendingCounts
<1>3. Len(queue) + Len(prefetch) + Len(results) + (IF working = None THEN 0 ELSE 1) + Cardinality(panicked)
        = Cardinality(titles.pending["metadata"]) + Cardinality(titles.pending["cover"])
            + Cardinality(titles.pending["icon"])
  BY <1>2, CarriedCounts
<1> QED BY <1>1, <1>3, SameSize, Zenon DEF PendingIsOnItsWay, List!PendingIsOnItsWay

\* What the list shows as loading is on its way exactly once, in a queue, at work
\* or in the results (titles.rs, worker.rs), however often the list is left, loaded
\* again or given a new worker; only a panic leaves it pending for ever.
THEOREM PendingHasAnAnswer == List!Spec => []PendingIsOnItsWay
<1>1. List!Spec => []CatInv
  BY CatBegins, CatStep, PTL DEF List!Spec
<1> QED BY <1>1, PendingOnItsWay, PTL

\* Every text, cover and icon on the list was asked for in the locale the list has
\* now, however late a worker answers: a new locale starts a worker with channels of
\* its own (service.rs) and empties the list.
THEOREM NoOtherLocale == List!Spec => []DetailsMatchLocale
<1>1. CatInv => DetailsMatchLocale
  BY InvTypes DEF TitlesOver, PicturesOver, DetailsMatchLocale, List!DetailsMatchLocale, List!NoDetails
<1>2. List!Spec => []CatInv
  BY CatBegins, CatStep, PTL DEF List!Spec
<1> QED BY <1>1, <1>2, PTL
=============================================================================
