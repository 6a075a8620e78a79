# Formal models of GRID Launcher

TLA+ specifications of the parts of GRID Launcher whose correctness depends on
the order of events: the install queue and the tasks around it, the config file
and its writers, the journaled library move and the gate that keeps others out
of the library meanwhile, the connection to a RomM server, the play-session
outbox, the check for updates, the transfer of saves around a game and the
migration of a library to the present layout. TLC checks them on small
instances; TLAPS proves the central invariants for every
value of the constants. Paths below are those
of the repository; `library/` is `crates/grid-core/src/library/`, `app/` is
`app/src-tauri/src/`.

## 1. The system

GRID Launcher is a desktop program: a Svelte frontend, a Tauri shell (`app/`)
and a core crate (`crates/grid-core`). The frontend only calls commands and
listens to events, so all shared state is in the two Rust crates. Tasks run on
tokio's threads; registry and file work runs on its blocking pool; state is
shared through mutexes, atomics, one SQLite file, one TOML file and one journal.

### Inventory

| Component | State | Operations | Hard behaviour | What makes it correct |
|---|---|---|---|---|
| install queue, `library/queue.rs` | rows with a status, the download and finalize slots, the FIFO | admit, cancel, dismiss, retryable, end of download and of finalize, next_ready, external and move rows, prune | slots, FIFO and rows are three records of one fact | they always agree; one install at a time; FIFO in order of admission; no duplicate work; bounded history |
| install service, `library/mod.rs` | stashed plans, cancel flags, tasks, installed games | install, update, content, retry, cancel, dismiss, uninstall, download and finalize tasks, pump, firmware rows | calls that take several locks in turn or await the server; panics in workers; late cancels | every slot has its task; no lost wake-up; no lost cancel; every row ends, with one outcome |
| config, `config.rs`, `app/config_write.rs` | config.toml and its temporary file | load, save, modify_config | several writers, some of them past the lock; a stop between write, fsync and rename, a rename the directory forgets | a whole file and no lost update, as far as the writers lock |
| library move, `library/relocate.rs`, `app/library_move_service.rs` | the folders at both roots and in staging, the journal, config root, registry paths, the gate, the Downloads row | start, copy, verify, commit, cleanup, cancel, rollback, recover, resume, retry | a crash between any two steps; files written meanwhile; cancel races the end of the copy | nothing lost; the root in use is whole; the gate follows the journal; a move ends |
| library gate, `library/relocate.rs` | closed with a reason, tickets | check, enter, close, open, wait | check and use are apart; mover and users each look at the other | no install, transfer or game works in the library while it moves |
| server connection, `session.rs` | stored account, live client and generation | connect, restore, retry, disconnect, 401 hook | late answers to old clients; calls overlapping over the network | told once; a session ends by its own hand only |
| play activity, `play_activity.rs`, `app/play_session_service.rs` | outbox rows, flush gate | hook, enqueue, flush, settle | lost answers, partial answers, restart, trigger while a flush runs | kept until settled; no row forgotten; passes end |
| launch, `launch/mod.rs`, `launch/sessions.rs` | running processes, early-exit watch | launch, stop, reap, early-exit check | a process ends before its watch is armed | each end reported once, warnings only for real early exits |
| cloud saves, `app/cloud_service.rs`, `cloud/` | in-flight keys, transfer count, the sync entry of each game, the lock of the caches, session stamps | auto upload, upload, restore, restore before launch, prune | files change under a run; triggers for a game that is uploading; uploads against moves and restores; lists that are old when used | what counts as uploaded is stored; nothing is left without somebody having decided so; no transfer during a move; the newest record survives |
| update check, `app/update_service.rs` | two atomics, generation, the published set | spawn_refresh, refresh, clear | trigger while a pass ends; overtaken passes | no trigger lost, one pass at a time, nothing published for an old server |
| firmware passes, `app/firmware_service.rs` | in-flight and completed sets | spawn for platform, game, directory | whole-directory and per-platform passes | mutual exclusion both ways |
| layout migration, `library/layout_migration.rs`, `library/user_data_links.rs` | the library's directories, the links into `saves/`, every file that names a path of the library, the layout version | preflight, moves, renames, links, rewrites, stamp | a run may stop anywhere; the app works on between runs; two installs of one profile | no save lost, nothing dangles once stamped, every profile linked, it ends |
| reconcile, relink, path change, emulator removal | registry rows | one pass each | compare-and-set against concurrent installs; restarts | a row is never re-pointed over a newer one |

Interactions: the service drives the queue under the queue's mutex; the mover
closes the gate, reads the queue, the sessions and the transfer count, and owns
a row in the queue; installs, firmware passes, launches and transfers look at
the gate; emulator finalizers, settings, the session and the mover all write
config.toml; the end of a game fires hooks into the cloud service and the
outbox; a new connection starts the outbox flush, the relink pass, the image
pass and the update check.

Not modelled, because it is format or path work without interleavings: the
frontend, launch profiles and templates, archive extraction, emulator
configuration readers and writers, special install routes, images, the media
server, FATX images, achievements and PCGamingWiki lookups, the import of the
previous launcher, logging, the keyring wrapper. `PROJECT.json` lists every
component with its status and every hazard found while reading, the uncovered
ones included.

## 2. The modules

| Module | Models | Role |
|---|---|---|
| `InstallQueue` | `QueueState` in `library/queue.rs` | one operator per method; `QSpec` calls them in any order with any ids |
| `InstallService` | `library/mod.rs` | extends `InstallQueue`; the tasks and calls that drive it |
| `InstallPipeline` | (abstract) | what the queue promises: jobs in order, one at a time, ended ones stay ended |
| `InstallServiceProofs` | | theorems about the queue and the service |
| `ConfigFile`, `ConfigFileProofs` | `config.rs`, `app/config_write.rs` | writers under the lock and past it, inodes, fsync, the end of the process and of the machine; theorems |
| `LibraryMove` | `library/relocate.rs`, `app/library_move_service.rs` | engine, service, disk and journal |
| `LibraryMoveProofs` | | theorems, the refinement included |
| `AtomicConfig` | (abstract), `app/config_write.rs:45-46` | what a save is worth: one atomic change of the file, which a power failure may take back |
| `SafeMove` | (abstract) | what a move promises: content never lost, one change of place, a cancelled move changes nothing |
| `SessionManager` | `session.rs` | the live client and the calls that change it |
| `PlayOutbox` | `play_activity.rs`, `app/play_session_service.rs`, outbox of `library/registry.rs` | extends `SessionManager`; triggers and flushes |
| `PlayOutboxProofs` | | theorems about both |
| `LibraryGate`, `LibraryGateProofs` | the gate in `library/relocate.rs`, `app/library_move_service.rs`, and who goes past it: `launch/`, `app/cloud_service.rs`, `app/firmware_service.rs`, `library/mod.rs` | the mover composed with launches, transfers, installs and firmware passes; theorems |
| `UpdateRefresh`, `UpdateRefreshProofs` | `app/update_service.rs`, the disconnect in `app/commands.rs` | triggers, passes, generation; theorems |
| `CloudSaves`, `CloudSavesProofs` | `app/cloud_service.rs`, `cloud/ops`, `cloud/state.rs`, `cloud/retention.rs` | one game's saves, this device and the server; theorems |
| `LayoutMigration` | `library/layout_migration.rs`, `library/user_data_links.rs`, `rewrite_paths` in `library/registry.rs`, its call in `app/lib.rs` | the runs of the migration, and what happens between them |
| `LayoutMigrationProofs` | | theorems |
| `MC*` | | constants for TLC, nothing else but `MCInstallService`'s reduced next-state relation (below) |

A definition whose name starts with `Fault` is not part of the model. It is a
wrong variant of the definition after it, the kind of slip a change could bring
in (a forgotten guard, a missing reset); each property is checked to fail when
its variant replaces the original.

### Correspondence with the code

`InstallQueue`: `entry`, `download`, `finalize`, `waiting`, `nextId` are the
fields of `QueueState`; ids grow, so the function `entry` keeps the order of
the `Vec`. Pruning after an operation is part of that operation.

`InstallService`: one step is one critical section. A user call that locks the
queue and then `pending_jobs` or `cancel_flags`, or that awaits the server, is
a record in `calls` (a set: two identical calls at the same point are one). The
download task runs `register` (its flag), `recheck` (a cancel that came
before), `download`, `unregister`, `settle` (`already_installed`, no lock),
`record` (the queue's lock) and `pump`; the finalize task `apply`, `merge`,
`content`, `record` and `pump`. A worker's result is any of ok, cancelled,
failed and panic.

`ConfigFile`: files are inodes, names point to them; every writer has one field.
`Begin` takes `CONFIG_WRITE_LOCK` for the writers in `Locked` and for nobody
else: the finalizer of an emulator install (`library/mod.rs:3612-3650`), the
session (`session.rs:199-202`), autoconfig, setup and the layout migration load
and save by themselves. The end of the process (`Crash`) leaves the files as they
are. That of the machine (`PowerFails`) tears whatever was not fsynced and may
bring back an earlier file, since `Config::save` renames without syncing the
directory (`config.rs:488`; `Journal::save` does sync it); until `Flush`, `past`
holds what may come back. `rivals` is a history variable: the writers whose save
overlaps that of one past the lock.

`LibraryMove`: a folder is the set of what was written into it. The program
counter names the engine's step; no step has two effects on the disk, so a crash
fits everywhere. `Write` is anybody: a game, an emulator, the user. A journal
save is one step because it is (temporary file, fsync, rename, sync of the
directory).

`SessionManager`: a client is named by the generation `install` gave it, since
its 401 hook acts by that number. `PlayOutbox`: tasks are named after what
spawned them, the game or the calling command; `tried` is a history variable:
of which queued sessions the present connection had its try.

`LibraryGate`: what `LibraryMove` takes as given, that nobody works in the
library while a move does, is the subject here. The mover closes the gate,
waits for the tickets and reads what is busy one source at a time: rows,
sessions, the upload pool, the transfer count. The others go past the gate in
four ways, named in the module's head (ticket, count, row, wait), and each way
is as many steps as it has places where the mover may read in between. The
queue's lock is the states `checked`, during which the rows cannot be read.
Firmware passes carry the key `try_begin` claims.

`UpdateRefresh`: `PassGate` has two atomics and no lock, so each access is a
step. A generation is only ever compared for equality with the latest, so it is
the set of callers that hold the latest; counting it up empties the set. `owed`
is a history variable.

`CloudSaves`: one game of an emulator with saves of its own and default
settings. Two comparisons of times have a second of slack, its boundary excluded
(`auto_cloud_upload_plan` in `cloud/state.rs:321`, the short cut of a restore in
`cloud/transfer.rs:852-854`). A second is `Slack` ticks; events may follow each
other tick by tick, within the second, and `TimePasses` lets more time go by. So a
save that was written within the second after the time a run had planned with is
not planned by the next run, as in the code. A launch reads the config before it
waits for the caches; a run plans, archives and sends file by file, and writes
the entry at its end, with whatever the game did meanwhile. Making the plan and
the archives is one step: the archives are made at once, before anything is
sent. `fate` is a history variable: the best that was done about each content.

`LayoutMigration`: a step has one effect on the disk, so a run may stop before
any of them, with an error (the app comes up at the old layout) or with the
process. `pc` is the step of `migrate`, `todo` the entries its loop still has to
do, `sub` the place inside `ensure_user_data_links` or `remove_stale_links`. The
plan is derived at the start of each run from what the rows, the config and the
probe for `.vfs` find then; the pairs of renamed directories (`Kept`) are looked
up again after step 2, as in the code. What an emulator's own config file names
(`text`) is reached as the code reaches it, by the new path and through the
link. `wrote`, `lost` and `cut` are history variables; `lost` holds at most the
directory the `.vfs` probe looks for. Between two runs of a
migration that failed, games are installed (into `games/`), emulators save, and
the user clears a collision.

## 3. The runs

All instances are chosen so that the rare cases happen: more jobs than slots, a
history shorter than the rows, more crashes than phases need, batches smaller
than the queue.

| Run | Checks | Bounds |
|---|---|---|
| `install_xbox` | `TasksOwnSlots`, `PlansMatchWaiting`, `PumpOnTheWay`, `SlotsMatchRows`, `NoDuplicateWork`, `ImplementsPipeline`, `RowsEnd`, `PipelineIsFair` | a base install that queues its update and DLC from its own finalize task, 3 rows, history 1, one user call at a time with any id, fairness of the tasks |
| `install_races` | `CancelReachesWorker`, `TransferKeepsItsRow`, `OutcomeIsFinal`, `PruneDropsOldest` | 4 jobs of different kinds, 2 rows, history 1, two user calls at once, firmware transfers, the move's row, the gate |
| `install_retry_update` | expected violation, section 5 | |
| `config_writers` | `OnlyRivalsTear`, `SavesAreAtomic` | 2 writers under the lock, 1 past it, a change each, any number of failures, crashes and power failures |
| `library_move` | `NothingLost`, `LibraryIsWhole`, `GateHeld`, `ImplementsSafeMove`, `MoveEnds` | one copied and one renamed folder, 3 pieces each, 2 crashes, 2 cancels, folders created again at the old root |
| `move_rollback` | expected violation, section 5 | two copied folders, one crash, one cancel |
| `library_gate` | `MoveAlone`, `PassesApart`, `GateReopens`, `UploadGoesOn` | a game, an install, a manual transfer, three firmware passes of one emulator (for a launch, after an install, PS3's own firmware, which claims the whole directory), any number of moves, fairness |
| `gate_handover` | expected violation, section 5 | the same |
| `play_outbox` | `ToldOnce`, `KeptUntilSettled`, `NoForgottenRow`, `EndsByItsOwnHand`, `GoesByItsVerdict`, `PassesEnd` | 2 games, 2 accounts, 2 changes of the live client per start, 1 restart, batches of 1 |
| `update_refresh` | `OnePass`, `DisconnectEmpties`, `FlagFreed` | 3 callers that come again and again, 2 accounts, fairness |
| `cloud_saves` | `UploadedMeansStored`, `SavedOrExcused`, `NewestStays` | 2 files (one read when sent, one archived before), 1 launch, 1 manual restore, 1 task after a session, a clock of 6 ticks with a slack of 1, 1 record of another device at a time, 1 record kept |
| `layout_migration` | `SavesSurvive`, `ReferencesResolve`, `OwnersLinked`, `MigrationEnds` | 2 platform directories, one of them the probed one, 4 emulator entries (one whose executable is gone, two installs of its profile, an AppImage), 2 names of user data, a stale link, an install by a newer version, 1 run that stops early, an emulator in use between runs, a flat library or one of layout 1 |

Deadlock is checked where the system should never stop; the runs that switch it
off have bounded counters and really end (no writes, saves, games or crashes
left), or a system that may rest with nothing to do.

`install_xbox` uses `PipelineLive`, the service without firmware transfers and
with the gate open, because these two add states and have no part in what the
run asks, and with the fairness below. `install_races` has both.

The `TypeOK` of a module with proofs is in no run, the theorem says more. Nor
are `OneAtATime`, `WaitingInOrder` and `HistoryBounded` of the queue and `CInv`
and `LockedQueue` of the config: they are theorems, the first two follow from
`ImplementsPipeline`, and `CInv` is there for the proof.

Why the bounds are enough. A slot, a FIFO and a hand-over need three rows, and
with a history of one the second end prunes. Ids are handed
out once, so more rows repeat the same relations (and the invariants are proved
for every bound). Two calls at once are the most that can meet in one row's
window; a third meets one of them first. In a move, each item is handled alone
between two journal saves, and items only interact through the phase, so two
items with different strategies cover the pairs; two crashes reach the recovery
of a recovery. In the outbox a pass over two rows with batches of one shows the
paging; two accounts and two generations are a change of account.
The gate sees each actor alone: the mover's readings relate it to one launch, one
transfer, one row; the passes need three, since a claim on a whole directory
meets one of a platform and one of a game. Three callers of the update check
are a pass, the one it hands over to and a third that meets both. Two config
writers that queue and one that does not are the ways two saves can meet, and
the second locked one shows who waits. The clock of
`cloud_saves` leaves five ticks for writes, uploads and time that passes, enough
for a save before, during and after a run and one from elsewhere, some of them
within the slack of the one before, and the history of records stays longer than
what is kept.
In `layout_migration` one run that stops has every place to stop at, and what
it leaves is where the next one starts; a second stop meets the same kinds of
half-done steps. Two installs of one profile are what can be mixed up; two
names make a list that is half done.

### Fairness

- `InstallService!Fairness`: weak fairness of each download and finalize task.
  tokio polls every spawned task; the HTTP client's read timeout ends a stalled
  download; extraction ends. Nothing is assumed of the user, the gate or
  firmware transfers. `RowsEnd` is about finitely many admissions (`MaxId`): with
  endless admissions, a row admitted while both slots are free may start
  before one that waits (`admit` does not look at the FIFO), which
  `InstallPipeline` allows.
- `LibraryGate!Fairness`: weak for the mover, for an admission that holds the
  queue's lock and for what follows the end of a game; strong for the
  upload's wait, `wait_library_open`, which is woken by a notification when the
  gate opens, looks again at least every 5 s and so meets an open gate when the
  gate opens again and again; that it gives up after its limit is allowed and
  never assumed. Nobody is assumed to resume a stopped move, so
  both liveness properties allow one that waits for the user.
- `UpdateRefresh!LiveSpec`: weak for each caller's steps: spawned tasks are
  polled, requests have timeouts, and a panic runs the guard.
- `LibraryMove!Fairness`: the engine goes on (the blocking pool runs a job to
  its end) and `setup()` resumes what startup left pending (`app/lib.rs:594-615`).
  Nobody is assumed to press Retry or Cancel, so `MoveEnds` allows a failed row.
- `LayoutMigration!Fairness`: weak for a run, which is sequential. Nobody is
  assumed to start the app again or to clear a collision; `MigrationEnds` says
  that those who do start it again do not meet a migration for ever.
- `PlayOutbox!Fairness`: each flush task goes on: polled tasks, the 30 s read
  timeout, the fair `tokio::sync::Mutex`. Nothing is assumed of the server, the
  registry, the user or the queueing task.

## 4. What is proved

`tlapm` checks the proof modules completely; each theorem holds for every value
of the constants that satisfies the named `ASSUME`s of its module (TLC evaluates
them in the runs).

- `InstallServiceProofs`, the queue. `QInv` = `QTypeOK`, `OneAtATime`, `SlotsMatchRows`, the
  FIFO increasing. Each method is shown to preserve it in a lemma of its own,
  because the service uses the same operators. `SlotsMatchRows` needs the other
  parts: a row leaves the FIFO only by the value of its id, so the FIFO must
  not repeat ids, which follows from its order and from `nextId` bounding them.
  Pruning keeps it because only ended rows go and no slot names one.
  `NoDuplicates` adds that a fresh row's key is compared with the keys of
  everything live, which `SlotsMatchRows` says are exactly the slots and the FIFO.
  For the history, `Rank` counts the ended rows older than a row. Ranks differ
  and lie below the number of ended rows, so at most n rows have a rank in a
  range of n (`RankCounts`): a prune leaves `TerminalHistory` rows, the
  youngest (`PruneCounts`). `HistoryBounded` and `PruneDropsOldest` follow, since
  an operation that ends a row prunes in the same step.
- `InstallServiceProofs`, the service. `SInv` = `TypeOK`, `QInv`, `TasksOwnSlots` and
  `CallsMakeSense` (a call's id was handed out). `ServiceImplementsQueue`: each
  step is one queue operation or leaves the queue alone, so everything proved of
  `QSpec` holds of the service. `NoLostWakeup` follows from `TasksOwnSlots` and
  the step-wise fact that a slot becomes free only in a step that puts its task
  at `pump`. `PlansAreKept` needs `TakenOut` (a plan being dropped belongs to a
  row that waits no more), `NoCancelIsLost` needs `FlagsKnown` and `RowsGone`.
  `OneRow` says what a step does to the rows: it adds one, moves or ends one
  that is live, or dismisses one. `OutcomesAreFinal` needs with it that a
  running transfer whose row is there finds it live (`TInv`), else a late
  progress event would revive it; it holds whoever dismisses what.
  `TransfersKeepRows` assumes `~AnyCaller`: rows are dismissed by the frontend.
  `ServiceImplementsPipeline` maps each kind of `OneRow` step to a pipeline
  step or a stutter. A start is the oldest waiting job's or finds a free slot
  (`HeadWaits`). A change of status that ends nothing prunes too; it drops
  nothing because the history was within its bound before.
- `ConfigFileProofs`, whichever writers lock: nothing is assumed of `Locked`.
  `CInv` says that of the writers that lock the holder alone is at work
  (`LockedQueue`), that two saves overlap only as rivals (`RivalsOverlap`), and
  that a writer at work that is no rival has the temporary file to itself: from
  the write on it holds the writer's config, is fsynced before the rename
  (`TmpIsItsOwn`), and what is about to be saved is the file plus one change
  (`SavesOntoTheFile`). While nobody is a rival a rename is then the one atomic
  change of `AtomicConfig`, with the old file as the one that may come back
  (`RenameAlone`), and any other step leaves a whole file as it is or is a power
  failure; `OnlyRivalsTear` and `SavesAreAtomic` follow. What happens once there
  are rivals is section 5.
- `LibraryGateProofs`. `MoveAlone` only speaks of a move that has begun; the
  invariant behind it says what the mover knows earlier. Once the tickets are
  gone none appears, because the gate is shut (`TicketsGone`); a source that was
  read and found idle stays idle, because what could fill it needs a ticket, an
  open gate, or a source that was read before it (`RowsRead`, `SessionsRead`).
  This is where the order of the readings matters. `PassesApart` follows from
  `PassInv`: whoever works has its claim in `inFlight`, and `try_begin` refuses
  what a claim overlaps.
- `UpdateRefreshProofs`. One caller holds the flag from winning it to giving it
  up, hence `OnePass`. `DisconnectEmpties` holds because after a disconnect has
  counted the generation up, no pass that had asked the server holds the
  current one.
- `CloudSavesProofs`. `IInv` says that every time lies in the past (`Past`), an
  upload run only passes over what was settled (`Settled`), the parts of a run
  fit together (`Shape`), what the entry counts as uploaded is answered for
  (`Answered`), what the game wrote since is newer than what the run saw
  (`Fresh`), and, for `SavedOrExcused`, that a content nobody decided about
  has someone on the way who will, or lies within the slack after what counts
  as uploaded (`Excused`); the slack is any natural number. The parts compare
  times tick by tick (`Ordered`, `Reached`, `Within`). `NewestStays` rests on
  `Outlived`: every record a prune is about to delete has a newer record of its
  file on the server. The newest of a file exists because the library's
  well-founded order of the naturals gives a greatest number to every bounded
  set of them, and it is outlived by nobody.
- `PlayOutboxProofs`. `SInv` is about the session alone: every command at work
  finds a generation that is free (`Room`), nothing is known of a generation to
  come (`Ahead`), and the live client is the one its generation was made with
  (`Mine`); `ToldOnce` is not inductive without them. `OInv` adds who is at
  work: the task in the registry is the holder of the gate (`Holder`), a task
  belongs to a command or game that has ended (`Apart`), row ids were handed out
  (`Known`). `Settled` says that what a pass is about to delete its server has,
  from which `RowsGoByVerdict` and `NothingQueuedIsLost` follow. For
  `EverySessionHasItsTry`, `Carried` names for every row that this connection
  has not tried the task that will: one that has not taken its client yet, one
  at the gate with the live client, or the holder, if the row lies ahead of its
  page or in its hands. A page skips nothing (`NoGap`) because it takes the
  rows with fewer than `BatchSize` smaller ones before them.

- `LibraryMoveProofs`, for at least one folder (`MOVED_DIRS` is a fixed list).
  `TypeCorrect` and `GateFollowsJournal` hold whatever fails or crashes. The
  others assume `~RollbackBreaks`, that a rollback runs to its end: without it
  they are false, and `move_rollback` below shows how. The invariant `MInv`
  follows a digest on its way: it was taken from the old root, `VerifyTree` finds
  it in the staged copy, and once it is in the journal it is in the copy wherever
  that is (`Recorded`); so what Cleanup finds equal to it and deletes is at the
  new root (`Removing`). `Placed` says how far Commit has come, which is why the
  root that `SwitchRoot` puts in use has every folder (`Complete`). For
  `MoveIsSafe`, the content of a folder is what both roots have of it: no step of
  the engine changes it (`ContentRests`, where `FromOld`, that a copy has nothing
  of its own, is needed for placing it), a write adds one piece (`WriteAdds`),
  and `PlaceMoves` lists the steps in which the place or the journal changes.

- `LayoutMigrationProofs`, for any list of entries, any platform directories and
  any number of runs that stop. Of the installs of a profile one is `Chosen`,
  the first in config order that can be linked; everything turns on that nobody
  else gets a link or makes `saves/<profile>` in the pass of layout 2.
  `AtHandSound` says so of the entry at work. When its turn comes nothing of its
  profile was left behind that could be linked (`DoneSound`), hence it is the
  first; if there was no `saves/<profile>` it is alone with it (`Sole`), else it
  has a link of its own and so was `Chosen` in an earlier run (`LinksSound`).
  `SavesSurvive` follows, since only `Shift` can drop a file: what it finds
  under `saves/` is the install's own. The data-root pass may link another
  install of the profile, an AppImage, where the code prefers what `saves/` has; by then its
  config file has been rewritten.
  For `ReferencesResolve`, `Stage` says that from the moves on the plan covers
  what the registry and the config still name in the old form, and that it has
  been moved: each rewrite only shrinks what a later run would derive.
  `NewPathIsHome`: once the tagged names are done the path that the rewrite
  computes is where the install is, whichever runs renamed what (`Homes`,
  `Paths`). `Texts` follows the config file of an emulator: it names nothing that
  a plan may hold, or it can be reached when its turn comes, although its
  directory is moved, renamed and replaced by a link on the way (`Reachable`).
  And whatever it names in the old form the rows or the config name as well,
  except the directory of the probe: they are rewritten after it. So `lost` can
  hold no other directory, and what the theorem excepts is that one alone, once
  it has left its old place while only the probe knew it.
  For `OwnersLinked`, `Ties`: `saves/<profile>` exists only if the profile is
  linked, was cut, or is being linked. The inductive invariant (`IInv`) was
  checked by TLC on small instances before it was proved; without `Texts`,
  `LinksSound` is not inductive, and the other way round.
  Of the constants it is assumed that no tagged directory has the name of a
  profile, and that entries of one profile have the same user data: the names
  are the profile's.

Every safety property of the passing runs is thus also a theorem, the two
refinements included. What is left to TLC is liveness (`RowsEnd`,
`PipelineIsFair`, `MoveEnds`, `GateReopens`, `UploadGoesOn`, `PassesEnd`,
`FlagFreed`, `MigrationEnds`): it rests on ENABLED, which the prover does not
reason about.

## 5. Where the code and its documentation part

Three runs are expected to end in a counterexample. Each checks one sentence of
the repository.

- `install_retry_update`: `library/mod.rs:1518-1523` says an update job never
  short-circuits on the existing row. Retrying a failed update goes through
  `JobKey::Rom` to `install`, whose job is a base install: it finds the game
  installed and completes without fetching the update.
- `move_rollback`: `relocate.rs:26-28` says Cleanup compares the source with
  the copy. It compares the source with its own digest from before the copy.
  A rollback that stops halfway, followed by a resume, shows the difference.
- `gate_handover`: `cloud_service.rs:1022-1025` says `transfers_active` stays
  true between a session's end and its upload. It reads the pool and then the
  count, and the upload goes from the count into the pool: a reader in between
  sees neither, and a move starts under the upload.

Met while modelling, stated in a module, and given no run because what is lost
is small, nothing promises it or a proof already says on what it rests:

- `ConfigFile!NoLostUpdate`: `app/config_write.rs:15-18` calls `modify_config` the
  only sanctioned way to change the config, under which "concurrent callers queue
  instead of racing, and each one reads what the previous one wrote". Emulator
  finalizers (`library/mod.rs:3612-3650`), the session (`session.rs:199-202`),
  autoconfig, setup and the layout migration save without it. `NoLostUpdate` added
  as an INVARIANT to `MCConfigWriters.cfg` is refuted: the install loads, a change
  of the settings is saved and answered, the install saves its older copy over it.
  The two also share `config.toml.tmp`, and one may truncate it between the
  other's fsync and rename: `OnlyRivalsTear` names that case. A shorter
  counterexample needs one writer: `config.rs:473` calls a save durable, but the
  directory is not synced after the rename, and a power failure may bring the old
  file back. `OnlyRivalsTear` and `SavesAreAtomic` are what the code does keep.
- `LayoutMigration!RunsResume`: `layout_migration.rs:19-20` and `816-818` say that
  an interrupted run resumes and finishes a list of links that is part way
  through. `ensure_user_data_links` makes `saves/<Profile>/<name>` (89) and fills
  it before the link into it. A run that stops in between at the first name
  leaves a `saves/<Profile>` that `has_entries` and nothing links into: each later
  run takes it for another install's, links nothing, and the library is stamped.
  What had been moved is kept, but no emulator reads it. A profile with one name
  has no other case. The counterexample is MCLayoutMigration's with `RunsResume` as
  an INVARIANT.
- What `lost` excepts in `ReferencesResolve`: the comment at
  `layout_migration.rs:961-974` says the plan's sources describe the legacy layout
  until the text files are rewritten and the whole run resumes. `PlayStation 3` may
  be known to the probe for `.vfs` alone (191-194), which step 1 moves: a run that
  stops between that and the text files is followed by one whose plan leaves it
  out, and `vfs.yml` keeps the old path for good. With `{}` for `lost` TLC shows it.
  The second way into `lost` needs no run that moved anything: after one that was
  refused or stopped at once, a game is installed into `games/PlayStation 3` while
  the old directory stands, the next preflight refuses,
  the message (557) asks the user to move or remove one of the two, and the old one
  goes; then nothing names it but `vfs.yml`, which is not rewritten.
- What `SavedOrExcused` excepts: a run plans with the newest time it finds and
  writes that time into the entry at its end. A save made within a second after
  that time, while the run is under way, is not planned by the run after it, since
  `state.rs:321` asks for more than a second (on purpose, 296-298), although
  `cloud_service.rs:82-87` expects the next trigger to pick up what a dropped one
  left. It goes along with the next save that is newer. `UploadedMeansStored`
  covers what the entry counts as uploaded; that the plan takes the second after it
  for uploaded too is this exception.
- `UpdateRefresh!RequestPickedUp`: `update_service.rs:78-79` promises that a
  trigger refused by a running pass is picked up. A pass that has freed the flag
  takes the request in a second access (96-100). If another trigger has started
  the next pass in between, the request it takes may be a third one's, which came
  after that next pass began and was refused by it; the claim then fails, and
  nobody knows of the request any more. The counterexample has about twenty
  steps; the cost is one missed check.
- `CloudSaves!LaunchKeepsProgress`: the launch of a game that is already running
  is refused only after the restore before it (`commands.rs:968` comes before
  the check at `launch/mod.rs:285`), so a newer record is written over progress
  of the running game. The same loss needs no second launch when a trigger is
  dropped because the game is uploading (`cloud_service.rs:82-87`): the next
  launch compares a local file time with the server's time of upload.

Accepted by the models because the code does it and nothing says otherwise:

- a native update that ends after an uninstall writes the row back; the answer
  of `already_installed` (`mod.rs:2538`) is used after the lock is gone;
- an ended row can be pruned by the very operation that ended it;
- `dismiss` refuses only rows that own a slot, so the row of a running firmware
  transfer could be dismissed (`queue.rs:241`), though `queue.rs:112-114` counts
  every live row; the frontend offers Dismiss on ended rows only, and with that
  `TransferKeepsItsRow` holds;
- `disconnect` during a restore is undone by it; `connect` saves the config and
  then the credential, and fails in between with the new server stored
  (`session.rs:203`); a disconnect that cannot delete the credential clears no
  updates (`commands.rs:178-185`);
- a flush that waits for the gate sends on the client it took before; an exit
  between the end of a game and the spawned task of its hook queues no session
  (`play_session_service.rs:81`);
- what is written into a source between Cleanup's comparison and the deletion
  goes with it (`late` in `LibraryMove`);
- `launch` enters the gate a second time (`launch/mod.rs:276`) while its command
  holds a ticket (`commands.rs:960-964`): a move that closes in between waits for
  that launch, as the comment says, but the launch is then refused and the move
  goes on;
- the completed set of launch passes is looked at before the pass is claimed, so
  "at most once per process" (`firmware_service.rs`) is not exact;
- the early-exit watch is armed after the session is registered
  (`launch/mod.rs:388`), and a session's start stamp may land after its end
  stamp (`cloud_service.rs:918`);
- `LibraryMoveService` has a guard for a panic in a run
  (`library_move_service.rs:674-682`), and a library on a drive that is away keeps
  a stopped move waiting: neither is in `LibraryMove`, whose `MoveEnds` speaks of
  runs that return;
- `set_rom_id` (`library/mod.rs:2391-2395`) is no step of its own in
  `InstallService`: a row has its job, and with it the rom of an emulator that a
  server's build names, from the admission on, under the same lock;
- when one file of an upload fails, the entry moves on all the same: the failure
  was reported and a new save is needed before it is tried again;
- after a migration that failed past step 2 the app comes up with emulator
  entries that name `Emulators/` (the rewrite of the config is the last step),
  although `layout_migration.rs:391-392` says the library stays readable; the
  next run mends it;
- the emulators' config files are written in place (`layout_migration.rs:1096`), so
  a crash may tear one, and what it named is gone with it;
- games go to `games/` at any layout, so an install after a failed run can make
  the collision the next preflight refuses until the user resolves it;
- an entry that the user points at `emulators/<tagged name>` between two runs
  is left behind when step 2 renames that directory: `rewrite_path` leaves paths
  below `emulators/` alone;
- the data-root step of layout 2 prefers what `saves/` has, by ruling (851-853);
- the restore of a native game takes neither of the two short cuts
  (`cloud/ops/native.rs:202`).

## 6. Bounds and simplifications that matter

- `MaxStops` counts the runs of the layout migration that end early. `Stale`,
  `Fresh`, `Players` and `Hollow` say which entries may have an old link, come
  from a newer version, are in use between runs or have lost their executable;
  an install has one file in a user-data directory, of the same name as any
  other's, so that two always collide.
- `Locked` and the other writers of `ConfigFile`: who takes the lock is a constant;
  in the run the settings and the cloud sync do and the finalizer does not.
- `Slack` is the second of the comparisons of times, in ticks; 0 would be a clock
  on which no two events share a second.
- `RollbackBreaks = FALSE` in `library_move` keeps crashes and errors out of a
  rollback; `move_rollback` is the run with them.
- `MaxGen` counts changes of the live client per start, `MaxCalls` user calls
  in progress, `MaxPieces`, `MaxCancels`, `MaxCrashes`, `MaxRestarts`,
  `MaxSaves`, `MaxId`, `MaxClock` what their names say, `MaxOther` the records of
  other devices the server has at a time. None is in the code, except
  `TerminalHistory` (50), `BatchSize` (50) and `Keep` (the retention limit of the
  settings), which are parameters there too.
- A caller whose last outbox flush still runs starts no new command.
- In `cloud_saves` one task follows the sessions; it cannot be in two sessions at
  once, but the upload run it starts may outlast it into the next session.
- `server[a]` in `PlayOutbox` is what an account's server has or has refused
  for good: the client treats the two alike, and a 4xx for a whole batch as the
  refusal of each entry.
- Accounts are on servers of their own, so a probe with one's URL and another's
  credential fails.

## 7. Not modelled

- Registry reconciliation and relink re-point rows one at a time under the
  registry's mutex, and what they race with is in `InstallService`; how a folder
  is matched with a game is path work.
  Read, not checked: `Registry::set_rom_id_by_key` refuses an id another row
  holds but not a row that got an id of its own since the pass began, which
  `relink.rs` says it leaves alone; and the re-point of `reconcile_library`
  compares the old path only, so a row reinstalled to that same path between the
  check and the write is taken for the row that was checked.
- Of the layout migration: spellings of a path, names that differ by case alone,
  files where directories should be. A change of the library path is a library
  move.
- Launch profiles, templates, Wine and Proton selection, process creation:
  sequential, or the operating system's.
- Readers and writers of the emulators' configuration, archive extraction, the
  special install routes, FATX images, the image cache, the media server,
  achievements, external catalogues, the import of the previous launcher: text,
  bytes and paths in sequence, with tests of their own. They make up most of the
  lines of the repository.
- Native games' saves, save states, slots, shared saves, session stamps and the
  upload by hand: the code paths of `CloudSaves` with other file lists.
- The keyring, logging and the updater plugin are wrappers of libraries; the
  keyring's content is a variable of `SessionManager`.
