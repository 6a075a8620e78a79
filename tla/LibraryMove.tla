---------------------------- MODULE LibraryMove -----------------------------
(***************************************************************************)
(* Moving the library to another folder: the journaled engine of           *)
(* library/relocate.rs (run, recover, cancel) and the service that starts, *)
(* resumes, cancels and recovers it (library_move_service.rs in the app).  *)
(*                                                                         *)
(* A moved folder is a set: 0 while the folder exists, and 1, 2, ... for   *)
(* what users put in it, in the order it was written; {} is no folder.  A  *)
(* crash may come between any two steps, so a step has at most one effect  *)
(* on the disk.  The journal is saved in one durable step (tmp, fsync,     *)
(* rename, directory fsync), which is why it is one variable here.         *)
(*                                                                         *)
(* Left out: links, emulator files and the resync inside Commit (each      *)
(* re-done by a resume), free space, progress, the old root's own removal, *)
(* and the dialog for a library that cannot be reached (its cleanup rule   *)
(* is here).  The gate's own users are not modelled: whoever writes into   *)
(* the library while a move runs is somebody outside GRID.                 *)
(***************************************************************************)
EXTENDS Integers, FiniteSets, FiniteSetsExt

CONSTANTS
    N,              \* the moved folders are 1 .. N, at least one (MOVED_DIRS)
    Strategy,       \* Strategy[i]: "rename" or "copy" (probe_strategy)
    MaxPieces,      \* bound: what users write into one folder
    MaxCancels,     \* bound: cancels of a user
    MaxCrashes,     \* bound: crashes of the app
    Recreates,      \* TRUE: somebody may create a folder again at the old root
    RollbackBreaks  \* TRUE: a crash or an error may stop a rollback halfway

Items == 1 .. N

ASSUME MoveAssumption ==
    /\ N \in Nat \ {0}
    /\ Strategy \in [Items -> {"rename", "copy"}]
    /\ MaxPieces \in Nat \ {0} /\ MaxCancels \in Nat /\ MaxCrashes \in Nat
    /\ Recreates \in BOOLEAN /\ RollbackBreaks \in BOOLEAN

Pieces == 1 .. MaxPieces
Folder == SUBSET (0 .. MaxPieces)
Gone   == {}
Exists(folder) == folder # Gone

VARIABLES
    \* on disk
    old, staging, new,   \* each folder at <old>, <new>/.grid-library-move, <new>
    newRoot,             \* the new root exists
    root,                \* config.library_path: "old" or "new"
    refs,                \* where the registry's paths point
    journal,             \* library-move.json
    \* in memory
    pc, cur,             \* the engine's step, and the item it is at
    actor,               \* who runs it: "none", "run", "startup" or "cancel"
    digest,              \* source_digest of the item being copied
    stop,                \* the cancel flag
    gateOpen,            \* LibraryGate
    row,                 \* the Downloads row: "none", "live" or "failed"
    pending,             \* pending_resume
    \* bookkeeping
    written,             \* written[i]: how much was written into folder i
    late,                \* written into a source that Cleanup was deleting
    cancels, crashes

disk   == <<old, staging, new, newRoot, root, refs, journal>>
memory == <<pc, cur, actor, digest, stop, gateOpen, row, pending>>
vars   == <<old, staging, new, newRoot, root, refs, journal, pc, cur, actor,
            digest, stop, gateOpen, row, pending, written, late, cancels, crashes>>

NoJournal == [phase |-> "none", state |-> [i \in Items |-> "pending"],
              digest |-> [i \in Items |-> Gone], keep |-> {}, created |-> FALSE]

Journal == [phase : {"none", "copy", "commit", "cleanup"},
            state : [Items -> {"pending", "copied", "placed", "cleaned", "kept"}],
            digest : [Items -> Folder],
            keep : SUBSET Items,
            created : BOOLEAN]

Nowhere == [i \in Items |-> Gone]

Init ==
    /\ old = [i \in Items |-> {0, 1}]
    /\ staging = Nowhere /\ new = Nowhere
    /\ newRoot \in BOOLEAN
    /\ root = "old" /\ refs = "old"
    /\ journal = NoJournal
    /\ pc = "off" /\ cur = 1 /\ actor = "none" /\ digest = Gone
    /\ stop = FALSE /\ gateOpen = TRUE /\ row = "none" /\ pending = FALSE
    /\ written = [i \in Items |-> 1] /\ late = Nowhere
    /\ cancels = 0 /\ crashes = 0

At(step)   == pc = step
Goto(step) == pc' = step

\* What a step of the engine leaves alone besides what it says.
Calm == UNCHANGED <<actor, stop, gateOpen, row, pending, written, late, cancels, crashes>>

-----------------------------------------------------------------------------
(* Copy (copy_phase).                                                      *)

\* run's loop, by the phase in the journal.  A phase whose root is missing
\* does not start (GiveUp).
EnterPhase ==
    /\ At("start")
    /\ \/ journal.phase = "copy" /\ newRoot /\ Goto("next")
       \/ journal.phase = "commit" /\ newRoot /\ Goto("place")
       \/ journal.phase = "cleanup" /\ Goto("clean")
    /\ cur' = 1
    /\ UNCHANGED <<disk, digest>> /\ Calm

ToCopy == {i \in Items : Strategy[i] = "copy" /\ journal.state[i] = "pending"}

NextItem ==
    /\ At("next")
    /\ IF ToCopy # {}
       THEN cur' = Min(ToCopy) /\ Goto("digest") /\ UNCHANGED journal
       ELSE journal' = [journal EXCEPT !.phase = "commit"] /\ Goto("start") /\ UNCHANGED cur
    /\ UNCHANGED <<old, staging, new, newRoot, root, refs, digest>> /\ Calm

\* Before the copy, so that a change made while it runs shows in Cleanup.
TakeDigest ==
    /\ At("digest")
    /\ Exists(old[cur])
    /\ digest' = old[cur]
    /\ Goto("copy")
    /\ UNCHANGED <<disk, cur>> /\ Calm

\* copy_entry, as far as a crash, an error or a cancel lets it: each file is
\* new, replaced, or skipped because an earlier run left it complete.
CopySome ==
    /\ At("copy")
    /\ IF stop THEN Goto("rollback") /\ UNCHANGED staging
       ELSE \E some \in SUBSET old[cur] :
               /\ staging' = [staging EXCEPT ![cur] = @ \cup {0} \cup some]
               /\ Goto("copying")
    /\ UNCHANGED <<old, new, newRoot, root, refs, journal, cur, digest>> /\ Calm

\* The rest.  A cancel that comes after the last check is not seen.
CopyRest ==
    /\ At("copying")
    /\ \/ stop /\ Goto("rollback") /\ UNCHANGED staging
       \/ staging' = [staging EXCEPT ![cur] = @ \cup old[cur]] /\ Goto("verify")
    /\ UNCHANGED <<old, new, newRoot, root, refs, journal, cur, digest>> /\ Calm

VerifyTree ==
    /\ At("verify")
    /\ old[cur] \subseteq staging[cur]
    /\ Goto("copied")
    /\ UNCHANGED <<disk, cur, digest>> /\ Calm

FaultRecordCopied ==               \* takes the digest after the copy
    /\ At("copied")
    /\ journal' = [journal EXCEPT !.state[cur] = "copied", !.digest[cur] = old[cur]]
    /\ Goto("next")
    /\ UNCHANGED <<old, staging, new, newRoot, root, refs, cur, digest>> /\ Calm

RecordCopied ==
    /\ At("copied")
    /\ journal' = [journal EXCEPT !.state[cur] = "copied", !.digest[cur] = digest]
    /\ Goto("next")
    /\ UNCHANGED <<old, staging, new, newRoot, root, refs, cur, digest>> /\ Calm

-----------------------------------------------------------------------------
(* Commit (commit_phase, place_item): every item, whatever its state says, *)
(* so that a resume can run all of it again.                               *)

Source(i) == IF Strategy[i] = "copy" THEN staging[i] ELSE old[i]

PlaceItem ==
    /\ At("place")
    /\ Exists(Source(cur)) # Exists(new[cur])
    /\ IF Exists(new[cur]) THEN UNCHANGED <<old, staging, new>>
       ELSE /\ new' = [new EXCEPT ![cur] = Source(cur)]
            /\ IF Strategy[cur] = "copy"
               THEN staging' = [staging EXCEPT ![cur] = Gone] /\ UNCHANGED old
               ELSE old' = [old EXCEPT ![cur] = Gone] /\ UNCHANGED staging
    /\ Goto("placed")
    /\ UNCHANGED <<newRoot, root, refs, journal, cur, digest>> /\ Calm

FaultRecordPlaced ==               \* a startup recovery skips the registry
    /\ At("placed")
    /\ journal' = [journal EXCEPT !.state[cur] =
                      IF @ \in {"pending", "copied"} THEN "placed" ELSE @]
    /\ IF cur < N THEN cur' = cur + 1 /\ Goto("place")
       ELSE Goto(IF actor = "startup" THEN "switch" ELSE "registry") /\ UNCHANGED cur
    /\ UNCHANGED <<old, staging, new, newRoot, root, refs, digest>> /\ Calm

RecordPlaced ==
    /\ At("placed")
    /\ journal' = [journal EXCEPT !.state[cur] =
                      IF @ \in {"pending", "copied"} THEN "placed" ELSE @]
    /\ IF cur < N THEN cur' = cur + 1 /\ Goto("place")
       ELSE Goto("registry") /\ UNCHANGED cur
    /\ UNCHANGED <<old, staging, new, newRoot, root, refs, digest>> /\ Calm

\* rewrite_registry, one transaction.
RewriteRegistry ==
    /\ At("registry")
    /\ refs' = "new"
    /\ Goto("switch")
    /\ UNCHANGED <<old, staging, new, newRoot, root, journal, cur, digest>> /\ Calm

\* rewrite_config: the one edit that switches the root.
SwitchRoot ==
    /\ At("switch")
    /\ root' = "new"
    /\ Goto("scan")
    /\ UNCHANGED <<old, staging, new, newRoot, refs, journal, cur, digest>> /\ Calm

\* stale_values: a copied item that some value still points into keeps its
\* source.  recover stops here and leaves Cleanup to a resume.
ScanStale ==
    /\ At("scan")
    /\ \E keep \in SUBSET {i \in Items : Strategy[i] = "copy"} :
          journal' = [journal EXCEPT !.phase = "cleanup", !.keep = @ \cup keep]
    /\ IF actor = "startup" THEN Goto("off") /\ actor' = "none" /\ pending' = TRUE
       ELSE Goto("start") /\ UNCHANGED <<actor, pending>>
    /\ UNCHANGED <<old, staging, new, newRoot, root, refs, cur, digest, stop,
                   gateOpen, row, written, late, cancels, crashes>>

-----------------------------------------------------------------------------
(* Cleanup (cleanup_phase).  `reachable` is the old root's is_dir.         *)

Settled(i) == journal.state[i] \in {"cleaned", "kept"}

Advance(verdict) ==
    /\ journal' = [journal EXCEPT !.state[cur] = verdict]
    /\ cur' = cur + 1

FaultCleanItem ==                  \* deletes without comparing
    /\ At("clean") /\ cur <= N
    /\ IF Settled(cur) THEN cur' = cur + 1 /\ UNCHANGED <<journal, pc>>
       ELSE IF Strategy[cur] = "copy" THEN Goto("remove") /\ UNCHANGED <<journal, cur>>
       ELSE Advance("cleaned") /\ UNCHANGED pc
    /\ UNCHANGED <<old, staging, new, newRoot, root, refs, digest>> /\ Calm

CleanItem ==
    /\ At("clean") /\ cur <= N
    /\ IF Settled(cur) THEN cur' = cur + 1 /\ UNCHANGED <<journal, pc>>
       ELSE \E reachable \in BOOLEAN :
          IF Strategy[cur] = "rename" \/ (reachable /\ ~Exists(old[cur]))
          THEN Advance("cleaned") /\ UNCHANGED pc
          ELSE IF reachable /\ cur \notin journal.keep
                  /\ Exists(journal.digest[cur]) /\ journal.digest[cur] = old[cur]
          THEN Goto("remove") /\ UNCHANGED <<journal, cur>>
          ELSE Advance("kept") /\ UNCHANGED pc
    /\ UNCHANGED <<old, staging, new, newRoot, root, refs, digest>> /\ Calm

\* remove_tree: the folder itself goes last.
LeftOf(folder) == {part \in SUBSET folder : part # folder /\ (part = Gone \/ 0 \in part)}

RemoveSource ==
    /\ At("remove")
    /\ \E left \in LeftOf(old[cur]) :
          /\ old' = [old EXCEPT ![cur] = left]
          /\ Goto(IF Exists(left) THEN "remove" ELSE "removed")
    /\ UNCHANGED <<staging, new, newRoot, root, refs, journal, cur, digest>> /\ Calm

RecordCleaned ==
    /\ At("removed")
    /\ Advance("cleaned")
    /\ Goto("clean")
    /\ UNCHANGED <<old, staging, new, newRoot, root, refs, digest>> /\ Calm

-----------------------------------------------------------------------------
(* The ends of a run (rollback, finish_run, cancel).                       *)

\* The journal goes; the gate opens, since no journal waits any more.
Forget ==
    /\ journal' = NoJournal
    /\ Goto("off") /\ actor' = "none" /\ cur' = 1 /\ digest' = Gone
    /\ row' = IF actor = "run" THEN "none" ELSE row
    /\ gateOpen' = TRUE /\ pending' = FALSE
    /\ UNCHANGED <<old, staging, new, newRoot, root, refs, stop, written, late,
                   cancels, crashes>>

Finish == At("clean") /\ cur > N /\ Forget

RemoveStaging ==
    /\ At("rollback")
    /\ staging' \in {left \in [Items -> Folder] :
          \A i \in Items : left[i] = staging[i] \/ left[i] \in LeftOf(staging[i])}
    /\ staging' = Nowhere \/ staging' # staging
    /\ Goto(IF staging' = Nowhere THEN "forget" ELSE "rollback")
    /\ UNCHANGED <<old, new, newRoot, root, refs, journal, cur, digest>> /\ Calm

\* A new root GRID made goes with the staging folder, when nothing is in it.
RemoveNewRoot ==
    /\ At("forget") /\ newRoot /\ journal.created
    /\ newRoot' = FALSE
    /\ UNCHANGED <<old, staging, new, root, refs, journal, memory, written, late,
                   cancels, crashes>>

Cancelled == At("forget") /\ Forget

\* An error ends the run and leaves the journal: the row fails, the gate
\* stays closed.  At startup the run is tried again in the background.
Stopped ==
    /\ Goto("off") /\ actor' = "none" /\ cur' = 1 /\ digest' = Gone
    /\ row' = IF actor = "run" THEN "failed" ELSE row
    /\ pending' = (pending \/ actor = "startup")
    /\ UNCHANGED <<disk, stop, gateOpen, written, late, cancels, crashes>>

InRollback == pc \in {"rollback", "forget"}

Fail ==
    /\ ~At("off")
    /\ InRollback => RollbackBreaks
    /\ Stopped

\* What the engine itself refuses: a root or a source that is missing, a copy
\* that does not match, an item that is at both places or at none.
GiveUp ==
    /\ \/ At("start") /\ journal.phase \in {"copy", "commit"} /\ ~newRoot
       \/ At("digest") /\ ~Exists(old[cur])
       \/ At("verify") /\ ~(old[cur] \subseteq staging[cur])
       \/ At("place") /\ Exists(Source(cur)) = Exists(new[cur])
    /\ Stopped

-----------------------------------------------------------------------------
(* The service.  Start, resume and cancel hold its control lock.           *)

Run ==
    /\ Goto("start") /\ actor' = "run" /\ stop' = FALSE /\ row' = "live"
    /\ gateOpen' = FALSE /\ pending' = FALSE

\* start, with the refusals of plan_move: no journal, nothing of a library
\* at the target.  The new root is made before the journal is written.
Start ==
    /\ At("off") /\ gateOpen /\ root = "old"
    /\ journal.phase = "none" /\ staging = Nowhere /\ new = Nowhere
    /\ newRoot' = TRUE
    /\ \/ /\ journal' = [NoJournal EXCEPT !.phase = "copy", !.created = ~newRoot]
          /\ Run
       \/ UNCHANGED <<journal, pc, actor, stop, row, gateOpen, pending>>
    /\ UNCHANGED <<old, staging, new, root, refs, cur, digest, written, late,
                   cancels, crashes>>

FaultResume ==                     \* never retries what startup left behind
    /\ At("off") /\ journal.phase # "none" /\ ~pending
    /\ Run
    /\ UNCHANGED <<disk, cur, digest, written, late, cancels, crashes>>

\* Retry on a failed row, or what startup left to the background.
Resume ==
    /\ At("off") /\ journal.phase # "none"
    /\ Run
    /\ UNCHANGED <<disk, cur, digest, written, late, cancels, crashes>>

\* cancel: a running copy is told to stop; a stopped one rolls back now.
Cancel ==
    /\ cancels < MaxCancels
    /\ journal.phase = "copy"
    /\ \/ actor = "run" /\ stop' = TRUE /\ UNCHANGED <<pc, actor>>
       \/ At("off") /\ Goto("rollback") /\ actor' = "cancel" /\ UNCHANGED stop
    /\ cancels' = cancels + 1
    /\ UNCHANGED <<disk, cur, digest, gateOpen, row, pending, written, late, crashes>>

FaultCrash ==                      \* the gate starts open
    /\ crashes < MaxCrashes
    /\ InRollback => RollbackBreaks
    /\ crashes' = crashes + 1
    /\ cur' = 1 /\ digest' = Gone /\ stop' = FALSE /\ row' = "none"
    /\ gateOpen' = TRUE
    /\ pending' = (journal.phase \in {"copy", "cleanup"})
    /\ IF journal.phase = "commit" THEN Goto("start") /\ actor' = "startup"
       ELSE Goto("off") /\ actor' = "none"
    /\ UNCHANGED <<disk, written, late, cancels>>

\* The app dies and starts again: the gate is closed while a journal exists,
\* Commit is finished before anything else, the rest is left to a resume.
Crash ==
    /\ crashes < MaxCrashes
    /\ InRollback => RollbackBreaks
    /\ crashes' = crashes + 1
    /\ cur' = 1 /\ digest' = Gone /\ stop' = FALSE /\ row' = "none"
    /\ gateOpen' = (journal.phase = "none")
    /\ pending' = (journal.phase \in {"copy", "cleanup"})
    /\ IF journal.phase = "commit" THEN Goto("start") /\ actor' = "startup"
       ELSE Goto("off") /\ actor' = "none"
    /\ UNCHANGED <<disk, written, late, cancels>>

\* A game, an emulator or the user writes into the library.
Write(i) ==
    /\ written[i] < MaxPieces
    /\ written' = [written EXCEPT ![i] = @ + 1]
    /\ \/ /\ Exists(old[i]) \/ Recreates
          /\ old' = [old EXCEPT ![i] = @ \cup {0, written[i] + 1}]
          /\ late' = IF At("remove") /\ cur = i
                     THEN [late EXCEPT ![i] = @ \cup {written[i] + 1}] ELSE late
          /\ UNCHANGED new
       \/ /\ root = "new" /\ Exists(new[i])
          /\ new' = [new EXCEPT ![i] = @ \cup {written[i] + 1}]
          /\ UNCHANGED <<old, late>>
    /\ UNCHANGED <<staging, newRoot, root, refs, journal, memory, cancels, crashes>>

Engine ==
    \/ EnterPhase \/ NextItem \/ TakeDigest \/ CopySome \/ CopyRest \/ VerifyTree
    \/ RecordCopied \/ PlaceItem \/ RecordPlaced \/ RewriteRegistry \/ SwitchRoot
    \/ ScanStale \/ CleanItem \/ RemoveSource \/ RecordCleaned \/ Finish
    \/ RemoveStaging \/ RemoveNewRoot \/ Cancelled \/ GiveUp

Next ==
    \/ Engine \/ Fail
    \/ Start \/ Resume \/ Cancel \/ Crash
    \/ \E i \in Items : Write(i)

\* The blocking pool runs a started job to its end, and setup() resumes what
\* startup left pending; nobody is assumed to press Retry or Cancel.
Fairness == WF_vars(Engine) /\ WF_vars(pending /\ Resume)

Spec     == Init /\ [][Next]_vars
LiveSpec == Spec /\ Fairness

-----------------------------------------------------------------------------
(* Properties.                                                             *)

TypeOK ==
    /\ old \in [Items -> Folder] /\ staging \in [Items -> Folder] /\ new \in [Items -> Folder]
    /\ newRoot \in BOOLEAN
    /\ root \in {"old", "new"} /\ refs \in {"old", "new"}
    /\ journal \in Journal
    /\ pc \in {"off", "start", "next", "digest", "copy", "copying", "verify", "copied",
               "place", "placed", "registry", "switch", "scan", "clean", "remove",
               "removed", "rollback", "forget"}
    /\ cur \in 1 .. N + 1
    /\ actor \in {"none", "run", "startup", "cancel"} /\ (actor = "none" <=> At("off"))
    /\ digest \in Folder
    /\ stop \in BOOLEAN /\ gateOpen \in BOOLEAN /\ pending \in BOOLEAN
    /\ row \in {"none", "live", "failed"}
    /\ written \in [Items -> Pieces]
    /\ late \in [Items -> SUBSET Pieces]
    /\ cancels \in 0 .. MaxCancels /\ crashes \in 0 .. MaxCrashes

Kept(i) == (1 .. written[i]) \ late[i]

\* Nothing users wrote is ever lost, whatever is written while the move runs
\* and wherever it crashes, fails, is cancelled and resumed: it is at the old
\* root or at the new one, and not only in a half-made copy.  (Of what is
\* written into a source while Cleanup deletes it, after the comparison,
\* nothing is promised.)
NothingLost == \A i \in Items : Kept(i) \subseteq old[i] \cup new[i]

\* The root the app runs on holds the library and the registry agrees: the
\* old one complete until Commit ("the old library stays complete until
\* then", relocate.rs:15), the new one from the switch on; and what Cleanup
\* compares a source with before it deletes it is at the new root.
LibraryIsWhole ==
    /\ root = "old" /\ journal.phase \in {"none", "copy"} =>
          refs = "old" /\ \A i \in Items : 1 .. written[i] \subseteq old[i]
    /\ root = "new" => refs = "new" /\ \A i \in Items : Exists(new[i])
    /\ journal.phase = "cleanup" =>
          root = "new" /\ \A i \in Items : journal.digest[i] \subseteq new[i]

\* The gate is closed exactly while a move runs, waits or stands failed
\* ("The gate stays closed while a journal exists", library_move_service.rs:22),
\* across every crash and every error.
GateHeld ==
    /\ gateOpen <=> journal.phase = "none"
    /\ ~At("off") => ~gateOpen

\* The move implements SafeMove: the library changes place once, after which
\* there is no way back, and a cancelled move changes nothing.
Safe == INSTANCE SafeMove WITH
    content <- [i \in Items |-> ((old[i] \cup new[i]) \ {0}) \cup late[i]],
    moving  <- journal.phase # "none"

ImplementsSafeMove == Safe!Spec

\* A move in progress ends, or stands as a failed row the user can retry:
\* none stays "live" or waits for ever, whatever crashes and fails.
MoveEnds == journal.phase # "none" ~> (journal.phase = "none" \/ row = "failed")
=============================================================================
