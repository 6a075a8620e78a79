--------------------------- MODULE InstallService ---------------------------
(***************************************************************************)
(* The install service of grid-core (library/mod.rs): the tasks and calls  *)
(* that drive the queue of InstallQueue.                                    *)
(*                                                                         *)
(* What runs at the same time:                                              *)
(*   - user calls: install, cancel, retry, dismiss, uninstall.  A call     *)
(*     that takes several locks in turn, or awaits the server between two  *)
(*     of them, is a record in `calls` that is carried on step by step;    *)
(*   - one download task per started row, `dl[id]` (spawn_download,        *)
(*     finish_download, fail_download and the pump it ends with);          *)
(*   - one finalize task per downloaded row, `fin[id]` (spawn_finalize,    *)
(*     finalize_* and the pump it ends with);                              *)
(*   - firmware transfers, which own a row but no slot;                    *)
(*   - the library move: it closes and opens the gate, and owns a row.     *)
(* One step is one critical section: code that holds the queue mutex, or   *)
(* one access to `pending_jobs`, `cancel_flags` or the registry.           *)
(*                                                                         *)
(* A job's plan is its row's `job`: the row exists for as long as a stash  *)
(* or a task carries the plan (PlansMatchWaiting, TasksOwnSlots).          *)
(***************************************************************************)
EXTENDS InstallQueue

CONSTANTS
    Follow,     \* Follow[job]: the Xbox 360 content its finalize queues
    Requests,   \* the jobs a user asks for; retries and Follow bring the rest
    Installed0, \* the games in the registry at start
    AnyCaller,  \* FALSE: dismiss is called only where the frontend offers it
    MaxCalls    \* bound: user calls in progress at once

Modes == {"Base", "Update", "Content", "NativeUpdate", "Emulator"}

\* The plan a retry makes for an ended row (retry, mod.rs:2019-2074): the
\* key decides the entry point, and JobKey::Rom leads to `install`.
Replan(job) == IF job.mode = "Update" THEN [job EXCEPT !.mode = "Base"] ELSE job

Roms == {job.rom : job \in Jobs} \ {"NoRom"}
NoJob == [key |-> "None", rom |-> "NoRom", mode |-> "none"]

ASSUME ServiceAssumption ==
    /\ \A job \in Jobs : /\ job.mode \in Modes /\ Replan(job) \in Jobs
                         /\ job.mode # "Emulator" => job.rom # "NoRom"
    /\ NoJob \notin Jobs
    /\ Follow \in [Jobs -> Seq(Jobs)]
    /\ Requests \subseteq Jobs
    /\ Installed0 \subseteq Roms
    /\ AnyCaller \in BOOLEAN
    /\ MaxCalls \in Nat

VARIABLES
    pending,    \* the ids `pending_jobs` holds a plan for
    flag,       \* cancel_flags: "none", or the flag is "clear" or "set"
    dl,         \* the download task of each id
    fin,        \* the finalize task of each id
    calls,      \* user calls in progress
    transfers,  \* firmware rows whose transfer still runs
    installed,  \* the games with a registry row
    gateOpen    \* LibraryGate

taskVars == <<pending, flag, dl, fin>>
vars == <<entry, nextId, download, finalize, waiting, pending, flag, dl, fin,
          calls, transfers, installed, gateOpen>>

DlTask  == [pc : {"idle", "register", "recheck", "download", "unregister",
                  "settle", "record", "pump"},
            outcome : {"none", "ok", "cancelled", "failed", "panic"},
            skip : BOOLEAN]
FinTask == [pc : {"idle", "apply", "merge", "content", "record", "pump"},
            outcome : {"none", "ok", "failed"},
            left : Seq(Jobs)]
Call    == [op : {"admit", "cancel", "flip", "drop", "dismiss", "unstash", "unflag"},
            id : Ids \cup {NoId},
            job : Jobs \cup {NoJob}]

IdleDl  == [pc |-> "idle", outcome |-> "none", skip |-> FALSE]
IdleFin == [pc |-> "idle", outcome |-> "none", left |-> << >>]

Init ==
    /\ QInit
    /\ pending = {}
    /\ flag = [id \in Ids |-> "none"]
    /\ dl = [id \in Ids |-> IdleDl]
    /\ fin = [id \in Ids |-> IdleFin]
    /\ calls = {}
    /\ transfers = {}
    /\ installed = Installed0
    /\ gateOpen = TRUE

NewCall(op, id, job) == [op |-> op, id |-> id, job |-> job]
Begin(c)      == Cardinality(calls) < MaxCalls /\ calls' = calls \cup {c}
Continue(c, d) == calls' = (calls \ {c}) \cup {d}
End(c)        == calls' = calls \ {c}

-----------------------------------------------------------------------------
(* Admission (admit, mod.rs:2372).  The gate is checked again and the plan *)
(* stashed inside the critical section that creates the row.               *)

Started(id) == dl' = [dl EXCEPT ![id] = [IdleDl EXCEPT !.pc = "register"]]

FaultAdmission(job) ==             \* leaves the plan unstashed
    \/ ~gateOpen /\ UNCHANGED <<queueVars, pending, dl>>
    \/ /\ gateOpen
       /\ \/ AdmitDuplicate(job) /\ UNCHANGED <<pending, dl>>
          \/ AdmitStart(job) /\ Started(nextId + 1) /\ UNCHANGED pending
          \/ AdmitQueued(job) /\ UNCHANGED <<pending, dl>>

\* admit (mod.rs:2372).  set_rom_id is part of it: a row has its `job' from the
\* start, and with it the rom of an emulator that a server's build names.
Admission(job) ==
    \/ /\ ~gateOpen                                \* LibraryBusy
       /\ UNCHANGED <<queueVars, pending, dl>>
    \/ /\ gateOpen
       /\ \/ AdmitDuplicate(job) /\ UNCHANGED <<pending, dl>>
          \/ AdmitStart(job) /\ Started(nextId + 1) /\ UNCHANGED pending
          \/ /\ AdmitQueued(job)
             /\ pending' = pending \cup {nextId + 1}
             /\ UNCHANGED dl

\* The checks before a job is planned: add-ons need an installed game.
Plannable(job) ==
    /\ gateOpen
    /\ job.mode \in {"Base", "Emulator"} \/ job.rom \in installed

\* install, install_content, install_native_update, install_update and the
\* emulator entry points, up to the await on the server.
RequestInstall(job) ==
    /\ Plannable(job)
    /\ Begin(NewCall("admit", NoId, job))
    /\ UNCHANGED <<queueVars, taskVars, transfers, installed, gateOpen>>

PlanFails(c) ==             \* the server cannot be reached, or no file fits
    /\ c.op = "admit"
    /\ End(c)
    /\ UNCHANGED <<queueVars, taskVars, transfers, installed, gateOpen>>

AdmitPlanned(c) ==
    /\ c.op = "admit"
    /\ Admission(c.job)
    /\ End(c)
    /\ UNCHANGED <<flag, fin, transfers, installed, gateOpen>>

-----------------------------------------------------------------------------
(* cancel (mod.rs:1880): the queue first, the flag or the stash second.    *)

RequestCancel(id, op) ==    \* op: what is left to do once the queue lock is gone
    \/ op = "flip" /\ CancelActive(id)
    \/ op = "drop" /\ CancelQueued(id)

Cancel(id) ==
    /\ \E op \in {"flip", "drop"} :
          RequestCancel(id, op) /\ Begin(NewCall(op, id, NoJob))
    /\ UNCHANGED <<taskVars, transfers, installed, gateOpen>>

\* cancel_for_rom: the row is looked up under one lock, cancelled under the
\* next.
CancelForRom(rom) ==
    /\ \E id \in Ids :
          FirstLiveForRom(rom, id) /\ Begin(NewCall("cancel", id, NoJob))
    /\ UNCHANGED <<queueVars, taskVars, transfers, installed, gateOpen>>

CancelFound(c) ==
    /\ c.op = "cancel"
    /\ \/ \E op \in {"flip", "drop"} :
             RequestCancel(c.id, op) /\ Continue(c, NewCall(op, c.id, NoJob))
       \/ CancelIgnored(c.id) /\ End(c) /\ UNCHANGED queueVars
    /\ UNCHANGED <<taskVars, transfers, installed, gateOpen>>

FlipFlag(c) ==
    /\ c.op = "flip"
    /\ flag' = [flag EXCEPT ![c.id] = IF @ = "none" THEN "none" ELSE "set"]
    /\ End(c)
    /\ UNCHANGED <<queueVars, pending, dl, fin, transfers, installed, gateOpen>>

DropPlan(c) ==
    /\ c.op = "drop"
    /\ pending' = pending \ {c.id}
    /\ End(c)
    /\ UNCHANGED <<queueVars, flag, dl, fin, transfers, installed, gateOpen>>

-----------------------------------------------------------------------------
(* dismiss (mod.rs:2081) and retry (mod.rs:2013).  A retry is a dismiss    *)
(* with a job to request afterwards.                                       *)

\* The frontend offers Dismiss on ended rows only (format.ts `actionFor`).
DismissRow(id) ==
    /\ Dismiss(id)
    /\ AnyCaller \/ IsTerminal(id)
    /\ Begin(NewCall("unstash", id, NoJob))
    /\ UNCHANGED <<taskVars, transfers, installed, gateOpen>>

Retry(id) ==
    /\ gateOpen
    /\ Retryable(id) /\ entry[id].job \in Jobs
    /\ Begin(NewCall("dismiss", id, Replan(entry[id].job)))
    /\ UNCHANGED <<queueVars, taskVars, transfers, installed, gateOpen>>

\* The end of a retry's dismiss: the entry point it leads to.
Reinstall(c) == IF c.job # NoJob /\ Plannable(c.job)
                THEN Continue(c, NewCall("admit", NoId, c.job))
                ELSE End(c)

RetryDismiss(c) ==
    /\ c.op = "dismiss"
    /\ \/ Dismiss(c.id) /\ Continue(c, NewCall("unstash", c.id, c.job))
       \/ ~Dismissable(c.id) /\ Reinstall(c) /\ UNCHANGED queueVars
    /\ UNCHANGED <<taskVars, transfers, installed, gateOpen>>

Unstash(c) ==
    /\ c.op = "unstash"
    /\ pending' = pending \ {c.id}
    /\ Continue(c, NewCall("unflag", c.id, c.job))
    /\ UNCHANGED <<queueVars, flag, dl, fin, transfers, installed, gateOpen>>

Unflag(c) ==
    /\ c.op = "unflag"
    /\ flag' = [flag EXCEPT ![c.id] = "none"]
    /\ Reinstall(c)
    /\ UNCHANGED <<queueVars, pending, dl, fin, transfers, installed, gateOpen>>

\* uninstall (mod.rs:2107) when every removal succeeds; a failed one keeps
\* the row.  It looks at the gate only, not at the queue.
Uninstall(rom) ==
    /\ gateOpen
    /\ rom \in installed
    /\ installed' = installed \ {rom}
    /\ UNCHANGED <<queueVars, taskVars, calls, transfers, gateOpen>>

-----------------------------------------------------------------------------
(* The download task (spawn_download, mod.rs:2419).                        *)

DlAt(id, pc) == dl[id].pc = pc
DlGoto(id, pc) == dl' = [dl EXCEPT ![id].pc = pc]

RegisterFlag(id) ==
    /\ DlAt(id, "register")
    /\ flag' = [flag EXCEPT ![id] = "clear"]
    /\ DlGoto(id, "recheck")
    /\ UNCHANGED <<queueVars, pending, fin, calls, transfers, installed, gateOpen>>

FaultRecheckCancel(id) ==          \* no second look at the status
    /\ DlAt(id, "recheck")
    /\ DlGoto(id, "download")
    /\ UNCHANGED <<queueVars, pending, flag, fin, calls, transfers, installed, gateOpen>>

\* A cancel that came before the flag existed left "Cancelling" behind.
RecheckCancel(id) ==
    /\ DlAt(id, "recheck")
    /\ flag' = IF id \in DOMAIN entry /\ entry[id].status = "Cancelling"
               THEN [flag EXCEPT ![id] = "set"] ELSE flag
    /\ DlGoto(id, "download")
    /\ UNCHANGED <<queueVars, pending, fin, calls, transfers, installed, gateOpen>>

\* The worker ends.  It reads the flag between chunks, so a flag set after
\* the last one is not seen; a panic comes back as a JoinError.
WorkerEnds(id, outcome) ==
    /\ DlAt(id, "download")
    /\ outcome = "cancelled" => flag[id] = "set"
    /\ dl' = [dl EXCEPT ![id].pc = "unregister", ![id].outcome = outcome]
    /\ UNCHANGED <<queueVars, pending, flag, fin, calls, transfers, installed, gateOpen>>

UnregisterFlag(id) ==
    /\ DlAt(id, "unregister")
    /\ flag' = [flag EXCEPT ![id] = "none"]
    /\ DlGoto(id, IF dl[id].outcome = "ok" /\ entry[id].job.mode = "Base"
                  THEN "settle" ELSE "record")
    /\ UNCHANGED <<queueVars, pending, fin, calls, transfers, installed, gateOpen>>

\* already_installed: a registry read with no lock held.  A failing lookup
\* counts as "not installed".
ReadInstalled(id) ==
    /\ DlAt(id, "settle")
    /\ \E answer \in BOOLEAN :
          /\ answer => entry[id].job.rom \in installed
          /\ dl' = [dl EXCEPT ![id].pc = "record", ![id].skip = answer]
    /\ UNCHANGED <<queueVars, pending, flag, fin, calls, transfers, installed, gateOpen>>

FaultRecordDownload(id) ==         \* finalizes what was downloaded, asking nobody
    /\ DlAt(id, "record")
    /\ DownloadFinished(id, dl[id].outcome, dl[id].skip)
    /\ fin' = IF dl[id].outcome = "ok"
              THEN [fin EXCEPT ![id] = [IdleFin EXCEPT !.pc = "apply"]] ELSE fin
    /\ dl' = [dl EXCEPT ![id] = [IdleDl EXCEPT !.pc = "pump"]]
    /\ UNCHANGED <<pending, flag, calls, transfers, installed, gateOpen>>

FaultFailedDownload(id) ==         \* a failed download does not pump
    /\ DlAt(id, "record")
    /\ DownloadFinished(id, dl[id].outcome, dl[id].skip)
    /\ fin' = IF id \in DOMAIN entry' /\ entry'[id].status = "Installing"
              THEN [fin EXCEPT ![id] = [IdleFin EXCEPT !.pc = "apply"]] ELSE fin
    /\ dl' = [dl EXCEPT ![id] = [IdleDl EXCEPT
                 !.pc = IF dl[id].outcome = "panic" THEN "idle" ELSE "pump"]]
    /\ UNCHANGED <<pending, flag, calls, transfers, installed, gateOpen>>

\* The critical section of finish_download and of fail_download, with
\* spawn_finalize when the row is now "Installing".
RecordDownload(id) ==
    /\ DlAt(id, "record")
    /\ DownloadFinished(id, dl[id].outcome, dl[id].skip)
    /\ fin' = IF id \in DOMAIN entry' /\ entry'[id].status = "Installing"
              THEN [fin EXCEPT ![id] = [IdleFin EXCEPT !.pc = "apply"]] ELSE fin
    /\ dl' = [dl EXCEPT ![id] = [IdleDl EXCEPT !.pc = "pump"]]
    /\ UNCHANGED <<pending, flag, calls, transfers, installed, gateOpen>>

-----------------------------------------------------------------------------
(* pump (mod.rs:2584): one pass of its loop, run by the task that freed a  *)
(* slot.  An empty FIFO or a taken slot ends it.                           *)

PumpStarts ==               \* a plan was stashed for the head: spawn_download
    /\ NextReady
    /\ Head(waiting) \in pending
    /\ pending' = pending \ {Head(waiting)}

PumpLoses ==                \* no plan: the row fails and the loop goes on
    /\ NextReadyLost
    /\ Head(waiting) \notin pending
    /\ UNCHANGED pending

PumpAfterDownload(id) ==
    /\ DlAt(id, "pump")
    /\ \/ PumpStarts /\ dl' = [dl EXCEPT ![id] = IdleDl,
                                 ![Head(waiting)] = [IdleDl EXCEPT !.pc = "register"]]
       \/ PumpLoses /\ UNCHANGED dl
       \/ ~Ready /\ dl' = [dl EXCEPT ![id] = IdleDl] /\ UNCHANGED <<queueVars, pending>>
    /\ UNCHANGED <<flag, fin, calls, transfers, installed, gateOpen>>

PumpAfterFinalize(id) ==
    /\ fin[id].pc = "pump"
    /\ \/ PumpStarts /\ Started(Head(waiting)) /\ fin' = [fin EXCEPT ![id] = IdleFin]
       \/ PumpLoses /\ UNCHANGED <<dl, fin>>
       \/ /\ ~Ready /\ fin' = [fin EXCEPT ![id] = IdleFin]
          /\ UNCHANGED <<queueVars, pending, dl>>
    /\ UNCHANGED <<flag, calls, transfers, installed, gateOpen>>

-----------------------------------------------------------------------------
(* The finalize task (spawn_finalize, finalize_inner and the routes below  *)
(* it).  Extraction, copying and the writes into the game's folder are one *)
(* step that succeeds or fails; what matters here is when the registry and *)
(* the queue are touched.                                                  *)

FinAt(id, pc) == fin[id].pc = pc
FinGoto(id, pc, outcome, left) ==
    fin' = [fin EXCEPT ![id] = [pc |-> pc, outcome |-> outcome, left |-> left]]

\* finalize_base, up to registry.upsert; queue_xbox360_content comes next.
FinalizeBase(id) ==
    /\ FinAt(id, "apply")
    /\ entry[id].job.mode \in {"Base", "Update"}
    /\ installed' = installed \cup {entry[id].job.rom}
    /\ FinGoto(id, "content", "none", Follow[entry[id].job])
    /\ UNCHANGED <<queueVars, pending, flag, dl, calls, transfers, gateOpen>>

\* queue_xbox360_content: one admission after the other, from the task that
\* still owns the finalize slot; a refused one is only logged.
QueueContent(id) ==
    /\ FinAt(id, "content")
    /\ fin[id].left # << >>
    /\ Admission(Head(fin[id].left))
    /\ FinGoto(id, "content", "none", Tail(fin[id].left))
    /\ UNCHANGED <<flag, calls, transfers, installed, gateOpen>>

ContentQueued(id) ==
    /\ FinAt(id, "content")
    /\ fin[id].left = << >>
    /\ FinGoto(id, "record", "ok", << >>)
    /\ UNCHANGED <<queueVars, pending, flag, dl, calls, transfers, installed, gateOpen>>

\* current_row: an add-on reads the row again before it touches the game.
ReadRow(id) ==
    /\ FinAt(id, "apply")
    /\ entry[id].job.mode \in {"Content", "NativeUpdate"}
    /\ IF entry[id].job.rom \in installed
       THEN FinGoto(id, "merge", "none", << >>)
       ELSE FinGoto(id, "record", "failed", << >>)
    /\ UNCHANGED <<queueVars, pending, flag, dl, calls, transfers, installed, gateOpen>>

\* The add-on is applied; a native update writes its row back.
Merge(id) ==
    /\ FinAt(id, "merge")
    /\ installed' = IF entry[id].job.mode = "NativeUpdate"
                    THEN installed \cup {entry[id].job.rom} ELSE installed
    /\ FinGoto(id, "record", "ok", << >>)
    /\ UNCHANGED <<queueVars, pending, flag, dl, calls, transfers, gateOpen>>

FinalizeEmulator(id) ==     \* the registry holds games only
    /\ FinAt(id, "apply")
    /\ entry[id].job.mode = "Emulator"
    /\ FinGoto(id, "record", "ok", << >>)
    /\ UNCHANGED <<queueVars, pending, flag, dl, calls, transfers, installed, gateOpen>>

\* An error, or a panic anywhere in the blocking half, hooks included.
FinalizeFails(id) ==
    /\ fin[id].pc \in {"apply", "merge", "content"}
    /\ FinGoto(id, "record", "failed", << >>)
    /\ UNCHANGED <<queueVars, pending, flag, dl, calls, transfers, installed, gateOpen>>

FaultRecordFinalize(id) ==         \* a finished install does not pump
    /\ FinAt(id, "record")
    /\ FinalizeFinished(id, fin[id].outcome)
    /\ FinGoto(id, "idle", "none", << >>)
    /\ UNCHANGED <<pending, flag, dl, calls, transfers, installed, gateOpen>>

RecordFinalize(id) ==
    /\ FinAt(id, "record")
    /\ FinalizeFinished(id, fin[id].outcome)
    /\ FinGoto(id, "pump", "none", << >>)
    /\ UNCHANGED <<pending, flag, dl, calls, transfers, installed, gateOpen>>

-----------------------------------------------------------------------------
(* Rows this service does not drive: transfers and the library move, and   *)
(* the library gate.                                                       *)

\* admit_external: the gate is checked under the queue lock.
BeginTransfer ==
    /\ gateOpen
    /\ AdmitExternal
    /\ transfers' = transfers \cup {nextId + 1}
    /\ UNCHANGED <<taskVars, calls, installed, gateOpen>>

\* complete_external: called once, by the transfer that owns the row.
EndTransfer(id, status) ==
    /\ id \in transfers
    /\ FinishExternal(id, status)
    /\ transfers' = transfers \ {id}
    /\ UNCHANGED <<taskVars, calls, installed, gateOpen>>

\* The row of a library move (begin_library_move, set_library_move_copying,
\* finish_library_move and cancel_library_move): the mover shows it once it
\* has closed the gate, and one run ends it once.
BeginLibraryMove ==
    /\ ~gateOpen
    /\ AdmitLibraryMove
    /\ UNCHANGED <<taskVars, calls, transfers, installed, gateOpen>>

ShowLibraryMove(id) ==
    /\ id \in DOMAIN entry /\ entry[id].job = MoveJob /\ IsLive(id)
    /\ \/ \E status \in {"Downloading", "Installing"} : SetLibraryMoveCopying(id, status)
       \/ \E status \in Terminal : EndLibraryMove(id, status)
    /\ UNCHANGED <<taskVars, calls, transfers, installed, gateOpen>>

CloseGate ==
    /\ gateOpen
    /\ gateOpen' = FALSE
    /\ UNCHANGED <<queueVars, taskVars, calls, transfers, installed>>

OpenGate ==
    /\ ~gateOpen
    /\ gateOpen' = TRUE
    /\ UNCHANGED <<queueVars, taskVars, calls, transfers, installed>>

-----------------------------------------------------------------------------
DownloadTask(id) ==
    \/ RegisterFlag(id) \/ RecheckCancel(id)
    \/ \E outcome \in {"ok", "cancelled", "failed", "panic"} : WorkerEnds(id, outcome)
    \/ UnregisterFlag(id) \/ ReadInstalled(id) \/ RecordDownload(id)
    \/ PumpAfterDownload(id)

FinalizeTask(id) ==
    \/ FinalizeBase(id) \/ QueueContent(id) \/ ContentQueued(id)
    \/ ReadRow(id) \/ Merge(id) \/ FinalizeEmulator(id)
    \/ FinalizeFails(id) \/ RecordFinalize(id) \/ PumpAfterFinalize(id)

CallStep(c) ==
    \/ PlanFails(c) \/ AdmitPlanned(c) \/ CancelFound(c) \/ FlipFlag(c)
    \/ DropPlan(c) \/ RetryDismiss(c) \/ Unstash(c) \/ Unflag(c)

UserCall ==
    \/ \E job \in Requests : RequestInstall(job)
    \/ \E id \in Ids : Cancel(id) \/ DismissRow(id) \/ Retry(id)
    \/ \E rom \in Roms : CancelForRom(rom) \/ Uninstall(rom)

Transfer ==
    \/ BeginTransfer
    \/ \E id \in Ids, status \in {"Completed", "Failed"} : EndTransfer(id, status)

ServiceNext ==
    \/ \E id \in Ids : DownloadTask(id) \/ FinalizeTask(id)
    \/ \E c \in calls : CallStep(c)
    \/ UserCall
    \/ Transfer

Mover ==
    \/ CloseGate \/ OpenGate \/ BeginLibraryMove
    \/ \E id \in Ids : ShowLibraryMove(id)

Next == ServiceNext \/ Mover

\* The runtime polls every spawned task: a download ends (the client's read
\* timeout bounds a stalled one), an extraction ends, and each goes on to its
\* pump.  Nothing is assumed of the user, the firmware transfers or the gate.
Fairness == \A id \in Ids : WF_vars(DownloadTask(id)) /\ WF_vars(FinalizeTask(id))

Spec == Init /\ [][Next]_vars
LiveSpec == Spec /\ Fairness

-----------------------------------------------------------------------------
(* Properties.                                                             *)

TypeOK ==
    /\ QTypeOK
    /\ pending \subseteq Ids
    /\ flag \in [Ids -> {"none", "clear", "set"}]
    /\ dl \in [Ids -> DlTask]
    /\ fin \in [Ids -> FinTask]
    /\ calls \subseteq Call
    /\ transfers \subseteq Ids
    /\ installed \subseteq Roms
    /\ gateOpen \in BOOLEAN

OwnsDownload(id) ==
    dl[id].pc \in {"register", "recheck", "download", "unregister", "settle", "record"}
OwnsFinalize(id) == fin[id].pc \in {"apply", "merge", "content", "record"}

\* A taken slot always has its one task on the way that will free it, and no
\* task works for a slot it does not own: no order of ends, pumps, admissions,
\* cancels, dismissals and panics wedges the queue (mod.rs:2438, 2475) or runs
\* two downloads.
TasksOwnSlots ==
    \A id \in Ids : /\ OwnsDownload(id) <=> download = id
                    /\ OwnsFinalize(id) <=> finalize = id

\* Every waiting id has its plan stashed, so the pump's "queued install was
\* lost" branch is unreachable (mod.rs:2579-2583), and a stashed plan that no
\* longer waits is about to be dropped by the call that took it out: none is
\* "stranded in pending_jobs" (mod.rs:2371).
PlansMatchWaiting ==
    /\ WaitingIds \subseteq pending
    /\ \A id \in pending \ WaitingIds :
          \E c \in calls : c.id = id /\ c.op \in {"drop", "unstash"}

\* A cancel of the running download is never lost, wherever it lands around
\* the registration of the flag: once the cancelling call is through and the
\* worker runs, a row that says "Cancelling" has its flag set (mod.rs:2418,
\* 2422-2425).
CancelReachesWorker ==
    \A id \in DOMAIN entry :
        /\ entry[id].status = "Cancelling"
        /\ DlAt(id, "download")
        /\ ~\E c \in calls : c.id = id /\ c.op = "flip"
        => flag[id] = "set"

\* An ended row keeps its outcome: no late cancel, task or transfer rewrites
\* it.  (retry makes a new row.)
OutcomeIsFinal ==
    [][\A id \in DOMAIN entry \cap DOMAIN entry' :
          IsTerminal(id) => entry'[id] = entry[id]]_vars

\* No wake-up is lost: whenever both slots are free and something waits, a
\* task is about to pump.  Only the end of a task pumps; cancel, dismiss and
\* admit never do.
PumpOnTheWay ==
    SlotsFree /\ waiting # << >> =>
        \E id \in Ids : DlAt(id, "pump") \/ FinAt(id, "pump")

\* A firmware transfer that still runs has a live row, so `has_live_entry`
\* counts it and a library path change waits for it (queue.rs:112-114).
TransferKeepsItsRow ==
    \A id \in transfers : id \in DOMAIN entry /\ IsLive(id)

\* A download short-circuits on an installed game only when a base install of
\* that key was asked for: an update never does, because its job "is marked
\* `Update` so `finish_download` never short-circuits on the existing row"
\* (mod.rs:1520-1521).
UpdateNeverSkips ==
    \A id \in Ids : dl[id].skip =>
        \E job \in Requests : job.mode = "Base" /\ job.key = entry[id].job.key

\* The row of an id, as InstallPipeline sees it.
Stage(id) ==
    IF id > nextId THEN "none"
    ELSE IF id \notin DOMAIN entry THEN "gone"
    ELSE IF IsTerminal(id) THEN "ended"
    ELSE IF entry[id].job \notin Jobs THEN "aside"
    ELSE IF entry[id].status = "Queued" THEN "waiting" ELSE "running"

Pipeline == INSTANCE InstallPipeline WITH Jobs <- Ids, row <- [id \in Ids |-> Stage(id)]

\* The tasks, flags and slots implement the pipeline: safety from Spec, and
\* from LiveSpec also that running jobs end and waiting ones start.
ImplementsPipeline == Pipeline!Spec
PipelineIsFair     == Pipeline!Fairness

\* Every install row ends, or is dismissed while it waits.
RowsEnd ==
    \A id \in Ids :
        (id \in DOMAIN entry /\ entry[id].job \in Jobs /\ IsLive(id))
            ~> (id \notin DOMAIN entry \/ IsTerminal(id))
=============================================================================
