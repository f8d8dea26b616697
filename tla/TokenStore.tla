----------------------------- MODULE TokenStore -----------------------------
(***************************************************************************)
(* The saved login (api_xbox/auth.rs): the refresh token, sealed in a file *)
(* under a key kept in Safe Memory, the copy in Service::auth, and the     *)
(* clones the jobs of the application take of it: the sign-in, the fetch   *)
(* of the credentials, and the poll of a connecting stream, which a user   *)
(* who goes back leaves running.  A token stands for its account.          *)
(*                                                                         *)
(* All jobs share one thread and give it up at requests only, so saving    *)
(* and clearing are single steps, unless the application dies inside.      *)
(***************************************************************************)
EXTENDS Naturals, FiniteSets

CONSTANTS Accounts, Keys, None

ASSUME NoneAssumption == None \notin Accounts \cup Keys
ASSUME KeysAssumption == \E k, l \in Keys : k # l

VARIABLES disk,    \* the token file and the key in Safe Memory
          auth,    \* Service::auth: the account of refresh_token
          screen,  \* where the application is, as far as the login matters
          signIn,  \* the device-code poll of WaitingForDeviceAuthorization
          loader,  \* the job of LoadingCredentials
          poll,    \* the poll of Connecting
          late,    \* a poll whose handle was dropped
          ghosts,  \* history: accounts a late poll held when the user logged out
          faults   \* history: what failed since the start, see Faults

jobs == <<signIn, loader, poll, late>>
vars == <<disk, auth, screen, jobs, ghosts, faults>>

\* A save or a read failed; the plaintext or an unreadable file could not be removed;
\* neither file nor key could be cleared; the service refused the login.
Faults == {"storage", "removal", "clearing", "refused"}

(***************************************************************************)
(* The file and the key.                                                   *)
(***************************************************************************)

NoFile == [form |-> "none", acct |-> None, key |-> None]
Torn == [form |-> "torn", acct |-> None, key |-> None]
Legacy(a) == [form |-> "legacy", acct |-> a, key |-> None]
Sealed(a, k) == [form |-> "sealed", acct |-> a, key |-> k]

\* decrypt_refresh_token: the key is there and it is the one the file was sealed with.
Opens(d) == d.file.form = "sealed" /\ d.key # None /\ d.file.key = d.key

\* load_or_create_token_key: a key that cannot be read is replaced.
KeyTried(d) == {[d EXCEPT !.key = k] : k \in IF d.key = None THEN Keys ELSE Keys \cup {d.key}}
KeyKept(d) == IF d.key = None THEN {} ELSE {d}

Written(d, a) == [d EXCEPT !.file = Sealed(a, d.key)]
FileRemoved(d) == [d EXCEPT !.file = NoFile]

\* persist_refresh_token in good order: a readable key is used, a missing one made.
Persisted(d, a) ==
    {Written(k, a) : k \in IF d.key = None THEN KeyTried(d) ELSE KeyKept(d)}

\* Safe Memory refuses and nothing is written, or it lost the key and a new one
\* is made, or the write fails: before the file is removed, after it (whether the
\* removal was refused or not, write_file_truncating ignores it), or half way.
PersistFails(d, a) ==
    {d} \cup UNION {{k, Written(k, a), FileRemoved(k), [k EXCEPT !.file = Torn]} : k \in KeyTried(d)}

\* What a death inside persist_refresh_token leaves: write_file_truncating
\* removes the file before it writes it.
PersistDies(d, a) ==
    UNION {{k, FileRemoved(k), [k EXCEPT !.file = Torn]} : k \in KeyTried(d)}

BothGone == [file |-> NoFile, key |-> None]

KeyGone(d) == [d EXCEPT !.key = None]

Answer(a, d, f) == [acct |-> a, disk |-> d, faults |-> f]

ClearedKeyFirst(d) == {Answer(None, e, {}) : e \in {BothGone, d}}

\* clear_saved_login: the file goes even when Safe Memory keeps the key, the key
\* even when the file system keeps the file.
Cleared(d) == {Answer(None, e, {}) : e \in {BothGone, FileRemoved(d), KeyGone(d)}}
         \cup {Answer(None, d, {"clearing"})}

\* save_refresh_token of a, f being what failed on the way there.
Save(d, a, f) == {Answer(a, e, f) : e \in Persisted(d, a)}
            \cup {Answer(a, e, f \cup {"storage"}) : e \in PersistFails(d, a)}

MigratePersistsFirst(d) == Save(d, d.file.acct, {})

\* The plaintext goes first, whatever becomes of the sealed file; when it cannot be
\* removed the sealed file is to replace it.
Migrate(d) == Save(FileRemoved(d), d.file.acct, {}) \cup Save(d, d.file.acct, {"removal"})

\* A file that opens no more, since the file system or Safe Memory fails.
Unreadable(d) ==
    {Answer(None, FileRemoved(d), {"storage"}), Answer(None, d, {"storage", "removal"})}

\* MsalAuth::new: a file that does not open is removed, if it can be.
Load(d) ==
    CASE d.file.form = "none" -> {Answer(None, d, {})}
      [] d.file.form = "legacy" -> Migrate(d) \cup Unreadable(d)
      [] Opens(d) -> {Answer(d.file.acct, d, {})} \cup Unreadable(d)
      [] OTHER -> {Answer(None, FileRemoved(d), {}), Answer(None, d, {"removal"})}

(***************************************************************************)
(* Jobs.                                                                   *)
(***************************************************************************)

NoJob == [pc |-> "none", acct |-> None]
Running(pc, a) == [pc |-> pc, acct |-> a]

\* The answer of refresh_user_token: saved and refreshed, or cleared when the
\* service no longer grants it.
Refreshed(a) == Save(disk, a, {})
Refused == {[r EXCEPT !.faults = @ \cup {"refused"}] : r \in Cleared(disk)}
Take(r) == disk' = r.disk /\ faults' = faults \cup r.faults

\* refresh_user_token of a clone with the login a, whether it is granted and the
\* login b it leaves.  Without a saved login it fails at once.
Refresh(a, granted, b) ==
    \/ a # None /\ granted /\ b = a /\ \E r \in Refreshed(a) : Take(r)
    \/ a # None /\ ~granted /\ b = None /\ \E r \in Refused : Take(r)
    \/ ~granted /\ b = a /\ UNCHANGED <<disk, faults>>

\* request_device_code.  When it fails the user is shown an error, and from
\* there goes to the lists without a login.
RequestDeviceCode ==
    /\ signIn.pc = "request"
    /\ \/ signIn' = Running("asking", signIn.acct) /\ UNCHANGED screen
       \/ signIn' = NoJob /\ screen' = "Lists"
    /\ UNCHANGED <<disk, auth, loader, poll, late, ghosts, faults>>

\* poll_device_code, until the user has approved the code.
SignInAuthorized ==
    /\ signIn.pc = "asking"
    /\ \E a \in Accounts :
        /\ \E r \in Refreshed(a) : Take(r)
        /\ signIn' = Running("ok", a)
    /\ UNCHANGED <<auth, screen, loader, poll, late, ghosts>>

\* The code expired, or the service asks for another.
SignInExpires ==
    /\ signIn.pc = "asking"
    /\ signIn' = Running("failed", signIn.acct)
    /\ UNCHANGED <<disk, auth, screen, loader, poll, late, ghosts, faults>>

\* fetch_streaming_credentials: refresh, then the exchanges; the tokens of the
\* offerings are optional, the user's own are not.
LoaderRefreshes ==
    /\ loader.pc = "refresh"
    /\ \E granted \in BOOLEAN, b \in {loader.acct, None} :
        /\ Refresh(loader.acct, granted, b)
        /\ loader' = Running(IF granted THEN "exchange" ELSE "failed", b)
    /\ UNCHANGED <<auth, screen, signIn, poll, late, ghosts>>

LoaderExchanges ==
    /\ loader.pc = "exchange"
    /\ \E pc \in {"profile", "failed"} : loader' = Running(pc, loader.acct)
    /\ UNCHANGED <<disk, auth, screen, signIn, poll, late, ghosts, faults>>

\* fetch_xbox_profile refreshes once more; its failure is not the sign-in's.
LoaderProfiles ==
    /\ loader.pc = "profile"
    /\ \E granted \in BOOLEAN, b \in {loader.acct, None} :
        /\ Refresh(loader.acct, granted, b)
        /\ loader' = Running("ok", b)
    /\ UNCHANGED <<auth, screen, signIn, poll, late, ghosts>>

\* poll_provisioning: the state of the session, in ReadyToConnect the passport
\* token for which the login is refreshed, then the connect request.
PollAsks ==
    /\ poll.pc = "asking"
    /\ \E pc \in {"refresh", "ok", "failed"} : poll' = Running(pc, poll.acct)
    /\ UNCHANGED <<disk, auth, screen, signIn, loader, late, ghosts, faults>>

PollRefreshes ==
    /\ poll.pc = "refresh"
    /\ \E granted \in BOOLEAN, b \in {poll.acct, None} :
        /\ Refresh(poll.acct, granted, b)
        /\ \E pc \in {"failed"} \cup (IF granted THEN {"ok"} ELSE {}) : poll' = Running(pc, b)
    /\ UNCHANGED <<auth, screen, signIn, loader, late, ghosts>>

\* The same without a handle: nobody takes its answer.
LateRefreshes ==
    /\ late.pc = "refresh"
    /\ \E granted \in BOOLEAN, b \in {late.acct, None} : Refresh(late.acct, granted, b)
    /\ late' = NoJob
    /\ UNCHANGED <<auth, screen, signIn, loader, poll, ghosts>>

LateEnds ==
    /\ late.pc = "asking"
    /\ \E pc \in {"refresh", "none"} : late' = IF pc = "none" THEN NoJob ELSE Running(pc, late.acct)
    /\ UNCHANGED <<disk, auth, screen, signIn, loader, poll, ghosts, faults>>

(***************************************************************************)
(* The application.                                                        *)
(***************************************************************************)

\* Service::new
Boot ==
    /\ screen = "off"
    /\ \E r \in Load(disk) : disk' = r.disk /\ auth' = r.acct /\ faults' = r.faults
    /\ screen' = "Init"
    /\ ghosts' = {}
    /\ UNCHANGED jobs

\* load_credentials with a saved login, else the way to a device code.
TickInit ==
    /\ screen = "Init"
    /\ IF auth # None
       THEN screen' = "Loading" /\ loader' = Running("refresh", auth) /\ UNCHANGED signIn
       ELSE screen' = "Waiting" /\ signIn' = Running("request", auth) /\ UNCHANGED loader
    /\ UNCHANGED <<disk, auth, poll, late, ghosts, faults>>

\* pump_device_authorization_check
TickSignIn ==
    /\ screen = "Waiting" /\ signIn.pc \in {"ok", "failed"}
    /\ IF signIn.pc = "ok"
       THEN /\ auth' = signIn.acct
            /\ screen' = "Loading"
            /\ loader' = Running("refresh", signIn.acct)
            /\ signIn' = NoJob
       ELSE signIn' = Running("request", auth) /\ UNCHANGED <<auth, screen, loader>>
    /\ UNCHANGED <<disk, poll, late, ghosts, faults>>

\* pump_credentials: the job's clone replaces the login, after an error too.
TickLoader ==
    /\ screen = "Loading" /\ loader.pc \in {"ok", "failed"}
    /\ auth' = loader.acct
    /\ screen' = IF loader.pc = "ok" THEN "Lists" ELSE "Error"
    /\ loader' = NoJob
    /\ UNCHANGED <<disk, signIn, poll, late, ghosts, faults>>

Retry ==
    /\ screen = "Error"
    /\ screen' = "Init"
    /\ UNCHANGED <<disk, auth, jobs, ghosts, faults>>

Connect ==
    /\ screen = "Lists"
    /\ screen' = "Connecting"
    /\ UNCHANGED <<disk, auth, jobs, ghosts, faults>>

TickAsks ==
    /\ screen = "Connecting" /\ poll = NoJob
    /\ poll' = Running("asking", auth)
    /\ UNCHANGED <<disk, auth, screen, signIn, loader, late, ghosts, faults>>

ReloadLogin == \E r \in Load(disk) : Take(r) /\ auth' = r.acct

\* handle_connecting_poll_result: what the poll saved is read back from the file.
TickPolled ==
    /\ screen = "Connecting" /\ poll.pc \in {"ok", "failed"}
    /\ IF poll.pc = "ok" THEN ReloadLogin ELSE UNCHANGED <<disk, auth, faults>>
    /\ poll' = NoJob
    /\ UNCHANGED <<screen, signIn, loader, late, ghosts>>

\* Back, or the stream is given up or played to its end; a poll still under way
\* is detached.
Leave ==
    /\ screen = "Connecting"
    /\ late = NoJob  \* bound: one detached poll at a time
    /\ screen' = "Lists"
    /\ late' = IF poll.pc \in {"asking", "refresh"} THEN poll ELSE NoJob
    /\ poll' = NoJob
    /\ UNCHANGED <<disk, auth, signIn, loader, ghosts, faults>>

Logout ==
    /\ screen = "Lists"
    /\ \E r \in Cleared(disk) : Take(r)
    /\ auth' = None
    /\ screen' = "Init"
    /\ ghosts' = ghosts \cup ({late.acct} \ {None})
    /\ UNCHANGED jobs

Saving == {j.acct : j \in {k \in {loader, poll, late} : k.pc \in {"refresh", "profile"}}} \ {None}

\* The application exits or dies, perhaps inside a save.
Die ==
    /\ screen # "off"
    /\ disk' \in {disk} \cup UNION {PersistDies(disk, a) : a \in Saving}
    /\ screen' = "off"
    /\ auth' = None
    /\ signIn' = NoJob /\ loader' = NoJob /\ poll' = NoJob /\ late' = NoJob
    /\ UNCHANGED <<ghosts, faults>>

Init ==
    /\ disk \in [file : {NoFile, Torn} \cup {Legacy(a) : a \in Accounts}
                        \cup {Sealed(a, k) : a \in Accounts, k \in Keys},
                 key : Keys \cup {None}]
    /\ auth = None /\ screen = "off"
    /\ signIn = NoJob /\ loader = NoJob /\ poll = NoJob /\ late = NoJob
    /\ ghosts = {} /\ faults = {}

Next == \/ RequestDeviceCode \/ SignInAuthorized \/ SignInExpires
        \/ LoaderRefreshes \/ LoaderExchanges \/ LoaderProfiles
        \/ PollAsks \/ PollRefreshes \/ LateRefreshes \/ LateEnds
        \/ Boot \/ TickInit \/ TickSignIn \/ TickLoader \/ Retry
        \/ Connect \/ TickAsks \/ TickPolled \/ Leave \/ Logout \/ Die

Spec == Init /\ [][Next]_vars

(***************************************************************************)
(* Properties.                                                             *)
(***************************************************************************)

Saved == IF Opens(disk) THEN disk.file.acct ELSE None

\* The login in memory and the one a restart would find are the same as long as
\* Safe Memory, the file and the service's grant held: whatever the jobs' clones
\* saved in between, and whichever of them outlived its screen.  A removal refused
\* at the start changes nothing of it, nor does a logout that clears only the file
\* or only the key.  The exception is an account logged out while a detached poll
\* still held it: that poll writes its token back, and the next answer of a poll
\* makes it the login in memory.
DiskFollowsMemory ==
    screen # "off" /\ signIn.pc # "ok" /\ faults \subseteq {"removal"} /\ ghosts = {} => Saved = auth

\* "Never leave the old plaintext token behind, even if Safe Memory is
\* unavailable" (auth.rs:193): under the running application a plaintext file is
\* on the disk only if two things failed since its start, the removal, of which the
\* result is ignored, and the reading of the file or the saving of the sealed one.
NoPlaintext ==
    screen # "off" /\ disk.file.form = "legacy" => {"removal", "storage"} \subseteq faults

=============================================================================
