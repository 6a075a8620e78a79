----------------------------- MODULE ConfigFile -----------------------------
(***************************************************************************)
(* config.toml and its writers (Config::load and Config::save in config.rs,*)
(* modify_config in the app's config_write.rs).                             *)
(*                                                                         *)
(* Every change is a load-modify-save of the whole file.  A writer in      *)
(* `Locked` makes it under the process-wide lock of modify_config; the     *)
(* others call load and save themselves, as the session, the finalizers of *)
(* emulator installs, autoconfig and the setup commands do.  What the lock  *)
(* is worth beside them is the question: `rivals` remembers which saves a   *)
(* writer past the lock overlaps.                                           *)
(*                                                                         *)
(* A writer changes one field of its own, so a version of the config is    *)
(* the number of changes of each writer it holds.  Files are inodes: the   *)
(* name config.toml points at one, and so may the one temporary name all   *)
(* writers share.  External, from how the code uses it: File::create       *)
(* truncates the file a name points at; a rename moves a name in one step; *)
(* of what a power failure finds only what was fsynced surely survives,    *)
(* and nobody fsyncs the directory: the old file may be back.              *)
(***************************************************************************)
EXTENDS Integers, FiniteSets

CONSTANTS
    Writers,     \* the threads that change the config
    Locked,      \* those that go through modify_config
    MaxSaves,    \* bound: changes a writer makes
    NoWriter

ASSUME WritersAssumption ==
    /\ Writers # {}
    /\ Locked \subseteq Writers
    /\ NoWriter \notin Writers
    /\ "none" \notin Writers
    /\ MaxSaves \in Nat

Version == [Writers -> 0 .. MaxSaves]
Torn    == [w \in Writers |-> -1]       \* anything that is no whole config
Inode   == Writers \cup {"first"}       \* enough: each writer holds one
None    == "none"

VARIABLES
    disk,      \* what each inode holds: a Version, or Torn
    synced,    \* inodes whose contents were fsynced
    config,    \* the inode config.toml names
    tmp,       \* the inode config.toml.tmp names, or None
    lock,      \* CONFIG_WRITE_LOCK: its holder, or NoWriter
    pc,        \* where each writer is
    mem,       \* the config each writer holds in memory
    handle,    \* the file each writer has open
    past,      \* what config.toml may hold again after a power failure
    saved,     \* how many changes of each writer were answered Ok
    rivals     \* (history) the writers at work whose save runs, or ran for a
               \*   while, beside the save of a writer past the lock; such a
               \*   writer itself if any save runs, or ran, beside its own

vars == <<disk, synced, config, tmp, lock, pc, mem, handle, past, saved, rivals>>

Empty == [w \in Writers |-> 0]

Init ==
    /\ disk = [i \in Inode |-> IF i = "first" THEN Empty ELSE Torn]
    /\ synced = {"first"}
    /\ config = "first"
    /\ tmp = None
    /\ lock = NoWriter
    /\ pc = [w \in Writers |-> "idle"]
    /\ mem = [w \in Writers |-> Empty]
    /\ handle = [w \in Writers |-> None]
    /\ past = {}
    /\ saved = Empty
    /\ rivals = {}

At(w, where) == pc[w] = where
Goto(w, where) == pc' = [pc EXCEPT ![w] = where]

-----------------------------------------------------------------------------
(* One load-modify-save.                                                   *)

Busy == {w \in Writers : ~At(w, "idle")}

\* Who loses the protection of the lock when w begins.
Meets(w) ==
    IF Busy # {} /\ ~(Busy \cup {w} \subseteq Locked) THEN Busy \cup {w} ELSE {}

\* A writer in Locked waits for the lock; the others go without.
FaultBegin(w) ==                   \* a locked writer does not wait
    /\ At(w, "idle")
    /\ lock' = IF w \in Locked THEN w ELSE lock
    /\ Goto(w, "load")
    /\ rivals' = rivals \cup Meets(w)
    /\ UNCHANGED <<disk, synced, config, tmp, mem, handle, past, saved>>

Begin(w) ==
    /\ At(w, "idle")
    /\ w \in Locked => lock = NoWriter
    /\ lock' = IF w \in Locked THEN w ELSE lock
    /\ Goto(w, "load")
    /\ rivals' = rivals \cup Meets(w)
    /\ UNCHANGED <<disk, synced, config, tmp, mem, handle, past, saved>>

\* Config::load, and the change to the writer's own field.
LoadAndChange(w) ==
    /\ At(w, "load")
    /\ disk[config] # Torn
    /\ disk[config][w] < MaxSaves
    /\ mem' = [mem EXCEPT ![w] = [disk[config] EXCEPT ![w] = @ + 1]]
    /\ Goto(w, "create")
    /\ UNCHANGED <<disk, synced, config, tmp, lock, handle, past, saved, rivals>>

\* Inodes are all alike; a writer takes its own if it can.
Unused == {i \in Inode : i # config /\ \A o \in Writers : handle[o] # i}

\* File::create: the temporary name is the same for every writer.
CreateTmp(w) ==
    /\ At(w, "create")
    /\ \E i \in IF tmp # None THEN {tmp} ELSE IF w \in Unused THEN {w} ELSE Unused :
          /\ tmp' = i
          /\ handle' = [handle EXCEPT ![w] = i]
          /\ disk' = [disk EXCEPT ![i] = Torn]
          /\ synced' = synced \ {i}
    /\ Goto(w, "write")
    /\ UNCHANGED <<config, lock, mem, past, saved, rivals>>

\* write_all from the start of the file; what another writer put there
\* meanwhile may stick out behind a shorter text.
WriteTmp(w) ==
    /\ At(w, "write")
    /\ \E text \in {mem[w]} \cup (IF disk[handle[w]] = Torn THEN {} ELSE {Torn}) :
          disk' = [disk EXCEPT ![handle[w]] = text]
    /\ synced' = synced \ {handle[w]}
    /\ Goto(w, "sync")
    /\ UNCHANGED <<config, tmp, lock, mem, handle, past, saved, rivals>>

FaultSyncTmp(w) ==                 \* no fsync before the rename
    /\ At(w, "sync")
    /\ handle' = [handle EXCEPT ![w] = None]
    /\ Goto(w, "rename")
    /\ UNCHANGED <<disk, synced, config, tmp, lock, mem, past, saved, rivals>>

SyncTmp(w) ==
    /\ At(w, "sync")
    /\ synced' = synced \cup {handle[w]}
    /\ handle' = [handle EXCEPT ![w] = None]
    /\ Goto(w, "rename")
    /\ UNCHANGED <<disk, config, tmp, lock, mem, past, saved, rivals>>

\* The end of a save: the guard of the lock and the config are dropped.
Finish(w) ==
    /\ lock' = IF lock = w THEN NoWriter ELSE lock
    /\ mem' = [mem EXCEPT ![w] = Empty]
    /\ rivals' = rivals \ {w}
    /\ Goto(w, "idle")

\* What the old file may hold if it ever comes back: somebody may have it open.
OldTexts ==
    LET open == {o \in Writers : handle[o] = config}
    IN  {disk[config]} \cup {mem[o] : o \in open}
           \cup (IF open # {} \/ config \notin synced THEN {Torn} ELSE {})

\* The rename moves whatever the temporary name points at by now; no name
\* is left for the old file, except on the disk.
Rename(w) ==
    /\ At(w, "rename")
    /\ tmp # None
    /\ config' = tmp
    /\ tmp' = None
    /\ disk' = [disk EXCEPT ![config] = Torn]
    /\ synced' = synced \ {config}
    /\ past' = past \cup OldTexts
    /\ saved' = [saved EXCEPT ![w] = mem[w][w]]
    /\ Finish(w)
    /\ UNCHANGED handle

\* The change refuses, the config does not parse, a file operation fails or
\* the closure panics (the lock recovers from poison): nothing more is
\* written, and the temporary file stays.
Fail(w) ==
    /\ ~At(w, "idle")
    /\ handle' = [handle EXCEPT ![w] = None]
    /\ Finish(w)
    /\ UNCHANGED <<disk, synced, config, tmp, past, saved>>

\* The directory reaches the disk in its own time.
Flush ==
    /\ past' = {}
    /\ UNCHANGED <<disk, synced, config, tmp, lock, pc, mem, handle, saved, rivals>>

NobodyWorks ==
    /\ lock' = NoWriter
    /\ pc' = [w \in Writers |-> "idle"]
    /\ mem' = [w \in Writers |-> Empty]
    /\ handle' = [w \in Writers |-> None]
    /\ rivals' = {}

\* The process dies, and what it has written stays.
Crash ==
    /\ NobodyWorks
    /\ UNCHANGED <<disk, synced, config, tmp, past, saved>>

\* The machine loses its power: config.toml may be torn if it was not fsynced,
\* or be the file it was before the latest renames.  What else there is does
\* not matter, as the next save truncates a temporary file.
PowerFails ==
    /\ NobodyWorks
    /\ \E text \in past \cup {disk[config]}
                         \cup (IF config \in synced THEN {} ELSE {Torn}) :
          disk' = [i \in Inode |-> IF i = config THEN text ELSE Torn]
    /\ synced' = {config}
    /\ tmp' = None
    /\ past' = {}
    /\ UNCHANGED <<config, saved>>

Step(w) ==
    \/ Begin(w) \/ LoadAndChange(w) \/ CreateTmp(w)
    \/ WriteTmp(w) \/ SyncTmp(w) \/ Rename(w) \/ Fail(w)

Next == (\E w \in Writers : Step(w)) \/ Flush \/ Crash \/ PowerFails

Spec == Init /\ [][Next]_vars

-----------------------------------------------------------------------------
(* Properties.                                                             *)

TypeOK ==
    /\ disk \in [Inode -> Version \cup {Torn}]
    /\ synced \subseteq Inode
    /\ config \in Inode
    /\ tmp \in Inode \cup {None}
    /\ lock \in Locked \cup {NoWriter}
    /\ pc \in [Writers -> {"idle", "load", "create", "write", "sync", "rename"}]
    /\ mem \in [Writers -> Version]
    /\ handle \in [Writers -> Inode \cup {None}]
    /\ past \subseteq Version \cup {Torn}
    /\ saved \in Version
    /\ rivals \subseteq Busy

\* config.toml is a whole config that was fsynced, and so is whatever a power
\* failure may put in its place.
FileIsWhole == disk[config] # Torn /\ config \in synced /\ Torn \notin past

\* "Atomic + durable" (config.rs:473) as far as it goes: whatever fails or
\* crashes, and also with two writers behind one temporary name, a whole file
\* is damaged only while a writer that went past the lock overlaps somebody's
\* save (the lock of modify_config, the fsync before the rename).
OnlyRivalsTear == [][FileIsWhole /\ ~FileIsWhole' => rivals # {}]_vars

Atomic == INSTANCE AtomicConfig
             WITH value <- disk[config], answered <- saved, recent <- past

\* "One atomic step with respect to every other modify_config caller"
\* (config_write.rs:45-49), and with respect to the writers past the lock that
\* overlap nobody: unless somebody does, whatever happens to a whole file is
\* one change of one writer on top of all the others, or a power failure that
\* takes back the latest ones.
SavesAreAtomic ==
    [][rivals = {} /\ FileIsWhole => [Atomic!Next]_<<disk[config], saved, past>>]_vars

\* Not true of the code, and checked by no run (see the README): a change that
\* was answered Ok stays in the file, "concurrent callers queue instead of
\* racing, and each one reads what the previous one wrote"
\* (config_write.rs:15-18).
NoLostUpdate ==
    disk[config] # Torn => \A w \in Writers : saved[w] <= disk[config][w]

\* The lock alone, whoever goes past it: of the writers that take it one is
\* at work, and holds it.
LockedQueue == \A w \in Locked : ~At(w, "idle") <=> lock = w

\* Two saves overlap only if one goes past the lock, and then both are rivals.
RivalsOverlap ==
    \A w, o \in Writers :
        w # o /\ ~At(w, "idle") /\ ~At(o, "idle") => w \in rivals /\ o \in rivals

\* Who has a file open, whatever the others do.
HandlesMatch ==
    /\ tmp # config
    /\ \A w \in Writers : pc[w] \in {"write", "sync"} <=> handle[w] # None

\* The temporary file of a writer that is alone: nobody else has it open, it
\* is not the file in use, and from the write on it holds the writer's config.
TmpIsItsOwn(w) ==
    /\ pc[w] \in {"write", "sync"} => handle[w] = tmp
    /\ pc[w] \in {"write", "sync", "rename"} => tmp # None
    /\ At(w, "write") => disk[tmp] = Torn
    /\ pc[w] \in {"sync", "rename"} => disk[tmp] = mem[w]
    /\ At(w, "rename") => tmp \in synced

\* What such a writer is about to save is the file plus its own change.
SavesOntoTheFile(w) ==
    pc[w] \in {"create", "write", "sync", "rename"} =>
        /\ disk[config] # Torn
        /\ mem[w] = [disk[config] EXCEPT ![w] = @ + 1]

SavesAlone == \A w \in Busy \ rivals : TmpIsItsOwn(w) /\ SavesOntoTheFile(w)

\* The inductive invariant, whoever goes past the lock.
CInv ==
    /\ TypeOK
    /\ LockedQueue
    /\ RivalsOverlap
    /\ HandlesMatch
    /\ SavesAlone
=============================================================================
