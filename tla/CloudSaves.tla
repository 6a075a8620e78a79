----------------------------- MODULE CloudSaves -----------------------------
(***************************************************************************)
(* The saves of one game between this device and the server               *)
(* (cloud_service.rs, cloud/ops, cloud/state.rs, cloud/retention.rs): the  *)
(* restore before a launch, the restore a user asks for and the upload     *)
(* after a session.  They share the game's entry in the config, the lock   *)
(* of the caches and the key of the upload pool, and work on files the     *)
(* game may be writing.                                                    *)
(*                                                                         *)
(* Time is a clock of ticks.  It advances when a file is written, when the *)
(* server takes a record and when it just passes, so no two times agree,   *)
(* and they lie within the second of slack of the code's comparisons       *)
(* (Slack ticks) or further apart.  A content is named by the time the     *)
(* game wrote it, a record by the time the server took it.                 *)
(*                                                                         *)
(* This is an emulator's game whose saves are its own, with the settings   *)
(* as they are by default.  Left out: the library gate and the pool's      *)
(* permits (LibraryGate), save states, slots and shared saves, native      *)
(* games, session stamps, how a record finds its file, and the upload by   *)
(* hand: the same jobs, with nothing planned or recorded.                  *)
(***************************************************************************)
EXTENDS Naturals, FiniteSets

CONSTANTS
    File,        \* the game's save files, one record each
    Raw,         \* those read when they are sent; the others are folders, which
                 \*   are archived when the jobs are made, and sent first
    Launch,      \* launch_game commands
    Manual,      \* restores asked for by a user
    Tail,        \* tasks of the session-finished hook
    Keep,        \* cloud_save_retention_limit, 0 for no limit
    Slack,       \* the ticks of the second that two times may differ by and
                 \*   count as one
    MaxClock,    \* bound on the clock
    MaxOther     \* bound on the records of other devices that the server has

ASSUME CloudAssumption ==
    /\ Raw \subseteq File
    /\ Launch \cap Manual = {}
    /\ Keep \in Nat /\ Slack \in Nat /\ MaxOther \in Nat
    /\ MaxClock \in Nat /\ MaxClock > Slack

Command == Launch \cup Manual
Free == "free"       \* nobody holds the caches
Times == 0..MaxClock
Record == [file : File, made : Times, at : Times]

VARIABLES
    clock,
    local,       \* File -> when it was written, and its content; 0 if absent
    records,     \* what the server has
    entry,       \* the sync entry: last uploaded mtime, last downloaded record
    playing,     \* is a session of the game listed?
    command,     \* Command -> where a launch or a manual restore is
    caches,      \* the command that holds the lock of the caches
    tail,        \* Tail -> what follows the end of a session
    run,         \* the game's upload run in the pool
    fate         \* (history) File -> the best that was done about its content:
                 \*   nothing, passed over on purpose, reported to have failed, stored

vars == <<clock, local, records, entry, playing, command, caches, tail, run,
          fate>>

NoCommand == [at |-> "off", known |-> 0, pick |-> {}]
NoTail == [at |-> "none", since |-> 0]
NoRun == [at |-> "idle", since |-> 0, latest |-> 0, todo |-> {},
          got |-> [f \in File |-> 0], job |-> {}, some |-> FALSE, stale |-> {}]

\* The epoch, where the times of an entry begin, is longer ago than the slack.
Init ==
    /\ clock = Slack + 1
    /\ local = [f \in File |-> [time |-> 0, made |-> 0]]
    /\ records = {}
    /\ entry = [uploaded |-> 0, downloaded |-> 0]
    /\ playing = FALSE
    /\ command = [c \in Command |-> NoCommand]
    /\ caches = Free
    /\ tail = [t \in Tail |-> NoTail]
    /\ run = NoRun
    /\ fate = [f \in File |-> "stored"]

Tick == clock < MaxClock /\ clock' = clock + 1

\* latest_local_save_mtime: the newest of the files.
IsLatest(time) ==
    /\ \E f \in File : local[f].time = time
    /\ \A f \in File : local[f].time <= time

-----------------------------------------------------------------------------
(* Time, the game, and other devices of the user.                          *)

TimePasses ==
    /\ Tick
    /\ UNCHANGED <<local, records, entry, playing, command, caches, tail, run, fate>>

PlaySaves(f) ==
    /\ playing /\ Tick
    /\ local' = [local EXCEPT ![f] = [time |-> clock, made |-> clock]]
    /\ fate' = [fate EXCEPT ![f] = "nothing"]
    /\ UNCHANGED <<records, entry, playing, command, caches, tail, run>>

\* A record of another device is taken as it is made.
Foreign == {r \in records : r.made = r.at}

OtherDevice(f) ==
    /\ Tick /\ Cardinality(Foreign) < MaxOther
    /\ records' = records \cup {[file |-> f, made |-> clock, at |-> clock]}
    /\ UNCHANGED <<local, entry, playing, command, caches, tail, run, fate>>

-----------------------------------------------------------------------------
(* The restore before a launch, and the manual one.                        *)

At(c, where) == command[c].at = where
Go(c, where) == command' = [command EXCEPT ![c].at = where]
CommandOnly == UNCHANGED <<clock, local, records, entry, playing, tail, run, fate>>

\* A launch goes on to its game, a manual restore is over.
Leave(c) == command' = [command EXCEPT ![c] =
                           [NoCommand EXCEPT !.at = IF c \in Launch THEN "ready" ELSE "off"]]
Unlock == caches' = Free

\* The config is read before the lock is waited for.
LoadInputs(c) ==
    /\ c \in Launch /\ At(c, "off")
    /\ command' = [command EXCEPT ![c] = [at |-> "loaded", known |-> entry.downloaded,
                                          pick |-> {}]]
    /\ CommandOnly /\ UNCHANGED caches

\* No server, switched off, blocked or a closed gate: no restore.
SkipRestore(c) == c \in Launch /\ At(c, "off") /\ Leave(c) /\ CommandOnly /\ UNCHANGED caches

\* A manual restore needs nothing of the entry.
LockCaches(c) ==
    /\ At(c, IF c \in Launch THEN "loaded" ELSE "off")
    /\ caches = Free /\ caches' = c
    /\ Go(c, "locked") /\ CommandOnly

\* The newest record for a launch, any that was asked for else.
Choose(c, r) ==
    /\ At(c, "locked") /\ r \in records
    /\ c \in Launch => \A q \in records : q.at <= r.at
    /\ command' = [command EXCEPT ![c].at = "chosen", ![c].pick = {r}]
    /\ CommandOnly /\ UNCHANGED caches

\* The two short cuts of restore_save_inner: known already, or newer here by
\* more than the slack.
Skip(c, r, latest) ==
    /\ c \in Launch /\ latest > 0
    /\ command[c].known = r.at \/ latest > r.at + Slack

Check(c) ==
    /\ At(c, "chosen")
    /\ \E r \in command[c].pick, latest \in {local[f].time : f \in File} :
          /\ IsLatest(latest)
          /\ IF Skip(c, r, latest) THEN Leave(c) /\ Unlock
             ELSE /\ command' = [command EXCEPT ![c].at = "wanted", ![c].known = 0]
                  /\ UNCHANGED caches
    /\ CommandOnly

\* A request fails, there is no record, or nothing can be placed.
RestoreFails(c) ==
    /\ command[c].at \in {"locked", "wanted"}
    /\ Leave(c) /\ Unlock /\ CommandOnly

\* The record is fetched, if it is still there, and written over the file.
Place(c) ==
    /\ At(c, "wanted") /\ Tick
    /\ \E r \in command[c].pick \cap records :
          /\ local' = [local EXCEPT ![r.file] = [time |-> clock, made |-> r.made]]
          /\ fate' = [fate EXCEPT ![r.file] = "stored"]
    /\ Go(c, "placed")
    /\ UNCHANGED <<records, entry, playing, caches, tail, run>>

\* The entry is read, changed and saved under the config's lock, or the save
\* fails; either way the restore is over.
SaveDownloaded(c) ==
    /\ At(c, "placed")
    /\ \E r \in command[c].pick :
          entry' \in {[entry EXCEPT !.downloaded = r.at], entry}
    /\ Leave(c) /\ Unlock
    /\ UNCHANGED <<clock, local, records, playing, tail, run, fate>>

\* A game that runs already refuses the launch, which has restored by then.
StartGame(c) ==
    /\ At(c, "ready")
    /\ playing' = TRUE
    /\ command' = [command EXCEPT ![c] = NoCommand]
    /\ UNCHANGED <<clock, local, records, entry, caches, tail, run, fate>>

LaunchFails(c) == At(c, "ready") /\ Go(c, "off") /\ CommandOnly /\ UNCHANGED caches

CommandStep(c) ==
    \/ LoadInputs(c) \/ SkipRestore(c) \/ LockCaches(c) \/ Check(c)
    \/ RestoreFails(c) \/ Place(c) \/ SaveDownloaded(c) \/ StartGame(c) \/ LaunchFails(c)
    \/ \E r \in records : Choose(c, r)

-----------------------------------------------------------------------------
(* After a session.                                                        *)

TailAt(t, where) == tail[t].at = where
TailTo(t, where) == tail' = [tail EXCEPT ![t].at = where]
PassOver == fate' = [f \in File |-> IF fate[f] = "nothing" THEN "passed" ELSE fate[f]]

EndSession(t) ==
    /\ playing /\ playing' = FALSE
    /\ TailAt(t, "none") /\ TailTo(t, "ended")
    /\ UNCHANGED <<clock, local, records, entry, command, caches, run, fate>>

TailOnly == UNCHANGED <<clock, local, records, entry, playing, command, caches>>

\* The end is stamped, then the caches are cleared under their lock.
ClearCaches(t) ==
    /\ TailAt(t, "ended") /\ caches = Free /\ TailTo(t, "waiting")
    /\ TailOnly /\ UNCHANGED <<run, fate>>

\* The config cannot be saved, and the caches are left alone.
StampFails(t) ==
    /\ TailAt(t, "ended") /\ TailTo(t, "waiting")
    /\ TailOnly /\ UNCHANGED <<run, fate>>

\* No row, no server, switched off, or uninstalled meanwhile.
GiveUp(t) ==
    /\ tail[t].at \in {"ended", "waiting"}
    /\ tail' = [tail EXCEPT ![t] = NoTail] /\ PassOver
    /\ TailOnly /\ UNCHANGED run

\* After the delay: the entry the plan will be made from.
Reload(t) ==
    /\ TailAt(t, "waiting")
    /\ tail' = [tail EXCEPT ![t] = [at |-> "reloaded", since |-> entry.uploaded]]
    /\ TailOnly /\ UNCHANGED <<run, fate>>

\* The key is in flight already: the trigger is dropped.
Trigger(t) ==
    /\ TailAt(t, "reloaded")
    /\ tail' = [tail EXCEPT ![t] = NoTail]
    /\ IF run.at = "idle"
       THEN /\ run' = [run EXCEPT !.at = "queued", !.since = tail[t].since]
            /\ UNCHANGED fate
       ELSE PassOver /\ UNCHANGED run
    /\ TailOnly

TailStep(t) == ClearCaches(t) \/ StampFails(t) \/ GiveUp(t) \/ Reload(t) \/ Trigger(t)

-----------------------------------------------------------------------------
(* Upload runs.                                                            *)

RunAt(where) == run.at = where
RunOnly == UNCHANGED <<clock, local, entry, playing, command, tail>>
Nothing == UNCHANGED <<records, caches, fate>>
EndRun == run' = NoRun

FaultMoved(since, latest) == latest > since + 2 * Slack    \* the slack, twice

\* auto_cloud_upload_plan: has anything moved since the last upload?  Not what
\* lies within the slack.
Moved(since, latest) == latest > since + Slack

Present == {f \in File : local[f].time > 0}

\* One job per file there is; an archive takes what its file holds now.
WithJobs(latest) ==
    [run EXCEPT !.at = "posting", !.latest = latest, !.todo = Present,
                !.got = [f \in File |-> IF f \in Raw THEN 0 ELSE local[f].made]]

\* Times, plan and archives are taken in one go: what is written in between
\* is in the archive already, and newer than the plan.
Plan ==
    /\ RunAt("queued")
    /\ \E latest \in {local[f].time : f \in File} :
          /\ IsLatest(latest)
          /\ run' = IF Moved(run.since, latest) THEN WithJobs(latest) ELSE NoRun
    /\ RunOnly /\ Nothing

\* An archive that cannot be made ends the run, and the user is told.
PlanFails ==
    /\ RunAt("queued") /\ EndRun
    /\ fate' = [f \in File |-> IF fate[f] = "stored" THEN "stored" ELSE "failed"]
    /\ RunOnly /\ UNCHANGED <<records, caches>>

\* The request of one job begins with the bytes it takes; archives go first.
Send(f) ==
    /\ RunAt("posting") /\ f \in run.todo
    /\ f \in Raw => run.todo \subseteq Raw
    /\ run' = [run EXCEPT !.at = "sending", !.job = {f}, !.todo = @ \ {f},
                          !.got[f] = IF f \in Raw THEN local[f].made ELSE @]
    /\ RunOnly /\ Nothing

\* What became of the content that was sent, if the file still has it.
Known(f, made, what) ==
    fate' = IF local[f].made = made /\ fate[f] # "stored"
            THEN [fate EXCEPT ![f] = what] ELSE fate

\* The server takes it; the answer may be lost, and the job counts as failed.
Store(f) ==
    /\ RunAt("sending") /\ f \in run.job
    /\ Tick
    /\ records' = records \cup {[file |-> f, made |-> run.got[f], at |-> clock]}
    /\ run' \in {[run EXCEPT !.at = "posting", !.job = {}, !.got[f] = 0,
                              !.some = some] : some \in {TRUE, run.some}}
    /\ Known(f, run.got[f], "stored")
    /\ UNCHANGED <<local, entry, playing, command, caches, tail>>

\* The request fails: the next job goes on, the name is reported at the end.
PostFails(f) ==
    /\ RunAt("sending") /\ f \in run.job
    /\ run' = [run EXCEPT !.at = "posting", !.job = {}, !.got[f] = 0]
    /\ Known(f, run.got[f], "failed")
    /\ RunOnly /\ UNCHANGED <<records, caches>>

\* What a file's group holds beyond the newest Keep.
FaultStale(listed) ==              \* the group is sorted the other way round
    IF Keep = 0 THEN {}
    ELSE {r \in listed :
             Cardinality({q \in listed : q.file = r.file /\ q.at < r.at}) >= Keep}

Stale(listed) ==
    IF Keep = 0 THEN {}
    ELSE {r \in listed :
             Cardinality({q \in listed : q.file = r.file /\ q.at > r.at}) >= Keep}

\* Only a run that uploaded something prunes; the listing may fail.
ListRecords ==
    /\ RunAt("posting") /\ run.todo = {} /\ run.some
    /\ \E listed \in {records, {}} :
          run' = [run EXCEPT !.at = "pruning", !.stale = Stale(listed)]
    /\ RunOnly /\ Nothing

NothingUploaded ==
    /\ RunAt("posting") /\ run.todo = {} /\ ~run.some
    /\ EndRun
    /\ RunOnly /\ Nothing

\* One deletion; one that fails is reported, and the next goes on.
Prune(r) ==
    /\ RunAt("pruning") /\ r \in run.stale
    /\ run' = [run EXCEPT !.stale = @ \ {r}]
    /\ records' \in {records \ {r}, records}
    /\ RunOnly /\ UNCHANGED <<caches, fate>>

FaultSummarize ==               \* looks again at what is there now
    /\ RunAt("pruning") /\ run.stale = {}
    /\ \E latest \in {local[f].time : f \in File} :
          /\ IsLatest(latest)
          /\ entry' = [entry EXCEPT !.uploaded = latest]
    /\ EndRun
    /\ UNCHANGED <<clock, local, records, playing, command, caches, tail, fate>>

\* The entry takes the time the run was planned from, as soon as one job went
\* well, unless the config cannot be saved.
Summarize ==
    /\ RunAt("pruning") /\ run.stale = {}
    /\ entry' \in {entry, [entry EXCEPT !.uploaded = run.latest]}
    /\ EndRun
    /\ UNCHANGED <<clock, local, records, playing, command, caches, tail, fate>>

RunStep ==
    \/ Plan \/ PlanFails \/ ListRecords \/ NothingUploaded \/ Summarize
    \/ \E f \in File : Send(f) \/ Store(f) \/ PostFails(f)
    \/ \E r \in records : Prune(r)

-----------------------------------------------------------------------------
Next ==
    \/ TimePasses
    \/ \E f \in File : PlaySaves(f) \/ OtherDevice(f)
    \/ \E c \in Command : CommandStep(c)
    \/ \E t \in Tail : EndSession(t) \/ TailStep(t)
    \/ RunStep

Spec == Init /\ [][Next]_vars

-----------------------------------------------------------------------------
(* Properties.                                                             *)

\* The types, and the lock of the caches: every request to it names a command.
TypeOK ==
    /\ clock \in 1..MaxClock + 1
    /\ local \in [File -> [time : Times, made : Times]]
    /\ records \subseteq Record
    /\ entry \in [uploaded : Times, downloaded : Times]
    /\ playing \in BOOLEAN
    /\ command \in [Command -> [at : {"off", "loaded", "locked", "chosen", "wanted",
                                     "placed", "ready"},
                                known : Times, pick : SUBSET Record]]
    /\ caches \in Command \cup {Free}
    /\ tail \in [Tail -> [at : {"none", "ended", "waiting", "reloaded"}, since : Times]]
    /\ run \in [at : {"idle", "queued", "posting", "sending", "pruning"},
                since : Times, latest : Times, todo : SUBSET File,
                got : [File -> Times], job : SUBSET File, some : BOOLEAN,
                stale : SUBSET Record]
    /\ fate \in [File -> {"nothing", "passed", "failed", "stored"}]

\* What the entry counts as uploaded the server has taken, or its upload was
\* reported to have failed: also for a file the game wrote while the run was
\* under way, whose files are read long after their times were
\* (run_auto_upload, summarize_auto_cloud_upload_result).  The plan goes on to
\* take what lies within the slack of the entry for uploaded as well; that is
\* what SavedOrExcused excepts.
UploadedMeansStored ==
    \A f \in File :
        local[f].time \in 1..entry.uploaded => fate[f] \in {"stored", "failed"}

\* Once a game is over and the tasks after it are, its saves are with the
\* server, or somebody decided otherwise: the failure was reported, there was
\* nothing to upload with, or the trigger was dropped for a running upload
\* (cloud_service.rs:82-87).  The only save nobody took care of was written
\* within the slack after what the entry counts as uploaded, which the plan
\* takes for the same time, its boundary excluded (state.rs:286-298, 321): it
\* waits for the next save that is not.
SavedOrExcused ==
    (~playing /\ (\A t \in Tail : TailAt(t, "none")) /\ RunAt("idle")) =>
        \A f \in File : fate[f] = "nothing" =>
            local[f].time \in entry.uploaded + 1 .. entry.uploaded + Slack

\* Whatever is pruned while other devices upload, the newest record of a file
\* stays (saves_to_prune, which works on a list that is old by then).
NewestStays ==
    [][\A f \in File : \A r \in records :
          r.file = f => \E q \in records' : q.file = f /\ q.at >= r.at]_vars

\* Not true of the code, and checked by no run: a launch never restores over
\* progress that nobody has stored (see the README).
LaunchKeepsProgress ==
    [][\A c \in Launch, f \in File :
          (At(c, "wanted") /\ At(c, "placed")' /\ fate[f] \in {"nothing", "passed"}) =>
             local'[f] = local[f]]_vars
=============================================================================
