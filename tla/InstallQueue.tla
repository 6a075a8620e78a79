---------------------------- MODULE InstallQueue ----------------------------
(***************************************************************************)
(* The install queue of grid-core: `QueueState` in library/queue.rs.       *)
(*                                                                         *)
(* QueueState is pure data behind one mutex, so every method is one atomic *)
(* step.  This module has one operator per method and a specification,     *)
(* QSpec, in which callers invoke the methods in any order with any        *)
(* arguments: the file calls itself "the trust boundary" (queue.rs:545),   *)
(* so what it promises may not rest on its callers.  InstallService drives *)
(* the same operators from the tasks of mod.rs.                            *)
(*                                                                         *)
(* Abstracted: titles, platforms, byte counters, speeds, error and detail  *)
(* texts.  `entries` is a Vec in order of insertion; ids are handed out in *)
(* that order, so a function on ids keeps the same information.            *)
(*                                                                         *)
(* A definition whose name starts with `Fault` is not part of the model:   *)
(* it is a deliberately wrong variant of the definition after it, kept to  *)
(* show which property would notice that mistake (see the README).         *)
(***************************************************************************)
EXTENDS Integers, FiniteSets, SequencesExt

CONSTANTS
    Jobs,            \* what may be admitted: records [key, rom, mode]
    MaxId,           \* bound: ids handed out (u64 in the code)
    TerminalHistory  \* how many ended rows the list keeps (50 in the code)

ASSUME JobsAssumption ==
    \A j \in Jobs : j = [key |-> j.key, rom |-> j.rom, mode |-> j.mode]
ASSUME BoundsAssumption ==
    MaxId \in Nat /\ TerminalHistory \in Nat

\* Rows the queue shows but does not drive.
ExternalJob == [key |-> "External", rom |-> "NoRom", mode |-> "firmware"]
MoveJob     == [key |-> "LibraryMove", rom |-> "NoRom", mode |-> "library_move"]

\* The keys of those rows are variants of JobKey of their own.
ASSUME KeysAssumption ==
    \A j \in Jobs : j.key # ExternalJob.key /\ j.key # MoveJob.key

Ids    == 1 .. MaxId
NoId   == 0                            \* Option<u64>::None; ids start at 1
Live     == {"Queued", "Downloading", "Installing", "Cancelling"}
Terminal == {"Completed", "Failed", "Cancelled"}
Entry  == [job : Jobs \cup {ExternalJob, MoveJob}, status : Live \cup Terminal]

VARIABLES
    entry,     \* entries: the rows by id
    nextId,    \* next_id: the last id handed out
    download,  \* download_active
    finalize,  \* finalize_active
    waiting    \* waiting: the FIFO of queued ids

queueVars == <<entry, nextId, download, finalize, waiting>>

QInit ==
    /\ entry = << >>
    /\ nextId = 0
    /\ download = NoId
    /\ finalize = NoId
    /\ waiting = << >>

-----------------------------------------------------------------------------
(* Helpers of the file.                                                    *)

IsTerminal(id) == entry[id].status \in Terminal
IsLive(id)     == entry[id].status \in Live
WaitingIds     == Range(waiting)

FaultHasPending(key) ==            \* looks at the FIFO only
    \E id \in WaitingIds \cap DOMAIN entry : entry[id].job.key = key

\* An equal key in either slot or in `waiting`.
HasPending(key) ==
    \E id \in ({download, finalize} \cup WaitingIds) \cap DOMAIN entry :
        entry[id].job.key = key

FaultPruneYoungest(rows) ==        \* evicts from the wrong end
    LET ended  == {id \in DOMAIN rows : rows[id].status \in Terminal}
        excess == Cardinality(ended) - TerminalHistory
        gone   == {id \in ended : Cardinality({o \in ended : o > id}) < excess}
    IN  Restrict(rows, DOMAIN rows \ gone)

FaultPruneLive(rows) ==            \* counts and evicts live rows too
    LET excess == Cardinality(DOMAIN rows) - TerminalHistory
        gone   == {id \in DOMAIN rows :
                      Cardinality({o \in DOMAIN rows : o < id}) < excess}
    IN  Restrict(rows, DOMAIN rows \ gone)

\* Drops the oldest ended rows past TerminalHistory.
Prune(rows) ==
    LET ended  == {id \in DOMAIN rows : rows[id].status \in Terminal}
        excess == Cardinality(ended) - TerminalHistory
        gone   == {id \in ended : Cardinality({o \in ended : o < id}) < excess}
    IN  Restrict(rows, DOMAIN rows \ gone)

\* entry_mut(id) and an assignment to its status; nothing when there is no
\* such row.
SetStatus(id, status) ==
    IF id \in DOMAIN entry THEN [entry EXCEPT ![id].status = status] ELSE entry

\* A row pushed under a fresh id.
Push(job, status) ==
    /\ nextId < MaxId
    /\ nextId' = nextId + 1
    /\ entry' = [id \in DOMAIN entry \cup {nextId + 1} |->
                    IF id = nextId + 1 THEN [job |-> job, status |-> status]
                                       ELSE entry[id]]

SlotsFree == download = NoId /\ finalize = NoId

-----------------------------------------------------------------------------
(* Admission.  `admit` answers Duplicate, Start or Queued.                  *)

AdmitDuplicate(job) ==
    /\ HasPending(job.key)
    /\ UNCHANGED queueVars

AdmitStart(job) ==
    /\ ~HasPending(job.key)
    /\ SlotsFree
    /\ Push(job, "Downloading")
    /\ download' = nextId + 1
    /\ UNCHANGED <<finalize, waiting>>

FaultAdmitQueued(job) ==           \* push_front
    /\ ~HasPending(job.key)
    /\ ~SlotsFree
    /\ Push(job, "Queued")
    /\ waiting' = <<nextId + 1>> \o waiting
    /\ UNCHANGED <<download, finalize>>

AdmitQueued(job) ==
    /\ ~HasPending(job.key)
    /\ ~SlotsFree
    /\ Push(job, "Queued")
    /\ waiting' = Append(waiting, nextId + 1)
    /\ UNCHANGED <<download, finalize>>

AdmitExternal ==
    /\ Push(ExternalJob, "Downloading")
    /\ UNCHANGED <<download, finalize, waiting>>

HasLiveMove == \E id \in DOMAIN entry : entry[id].job = MoveJob /\ IsLive(id)

\* DownloadsSnapshot::has_live_entry: anything live but the move's own row.
HasLiveEntry == \E id \in DOMAIN entry : entry[id].job # MoveJob /\ IsLive(id)

AdmitLibraryMove ==
    /\ ~HasLiveMove
    /\ Push(MoveJob, "Installing")
    /\ UNCHANGED <<download, finalize, waiting>>

-----------------------------------------------------------------------------
(* The two slots.                                                          *)

\* result: "ok", "cancelled" or "failed".
DownloadFinished(id, result, skipFinalize) ==
    IF download # id
    THEN UNCHANGED queueVars
    ELSE LET status == CASE result = "ok" /\ skipFinalize -> "Completed"
                         [] result = "ok"                 -> "Installing"
                         [] result = "cancelled"          -> "Cancelled"
                         [] OTHER                         -> "Failed"
         IN  /\ download' = NoId
             /\ entry' = Prune(SetStatus(id, status))
             /\ finalize' = IF status = "Installing" /\ id \in DOMAIN entry
                            THEN id ELSE finalize
             /\ UNCHANGED <<nextId, waiting>>

FinalizeFinished(id, result) ==
    IF finalize # id
    THEN UNCHANGED queueVars
    ELSE /\ finalize' = NoId
         /\ entry' = Prune(SetStatus(id, IF result = "ok" THEN "Completed"
                                                         ELSE "Failed"))
         /\ UNCHANGED <<nextId, download, waiting>>

\* next_ready is Some(Head(waiting)).
Ready == SlotsFree /\ waiting # << >>

NextReady ==
    /\ Ready
    /\ waiting' = Tail(waiting)
    /\ entry' = SetStatus(Head(waiting), "Downloading")
    /\ download' = Head(waiting)
    /\ UNCHANGED <<nextId, finalize>>

\* The pump's "queued install was lost" branch: next_ready and a failing
\* download_finished inside one critical section (mod.rs:2595-2606).
NextReadyLost ==
    /\ Ready
    /\ waiting' = Tail(waiting)
    /\ entry' = Prune(SetStatus(Head(waiting), "Failed"))
    /\ UNCHANGED <<nextId, download, finalize>>

-----------------------------------------------------------------------------
(* Cancel, dismiss, retry.                                                 *)

FaultCancelActive(id) ==           \* does not check who owns the slot
    /\ id \in DOMAIN entry
    /\ entry' = SetStatus(id, "Cancelling")
    /\ UNCHANGED <<nextId, download, finalize, waiting>>

CancelActive(id) ==                     \* CancelAction::ActiveDownload
    /\ download = id
    /\ entry' = SetStatus(id, "Cancelling")
    /\ UNCHANGED <<nextId, download, finalize, waiting>>

CancelQueued(id) ==                     \* CancelAction::RemovedFromQueue
    /\ download # id
    /\ id \in WaitingIds
    /\ waiting' = RemoveFirst(waiting, id)
    /\ entry' = Prune(SetStatus(id, "Cancelled"))
    /\ UNCHANGED <<nextId, download, finalize>>

CancelIgnored(id) == download # id /\ id \notin WaitingIds

FaultDismissable(id) == id \in DOMAIN entry   \* trusts its callers

Dismissable(id) == id \in DOMAIN entry /\ id # download /\ id # finalize

Dismiss(id) ==
    /\ Dismissable(id)
    /\ waiting' = RemoveFirst(waiting, id)
    /\ entry' = Restrict(entry, DOMAIN entry \ {id})
    /\ UNCHANGED <<nextId, download, finalize>>

Retryable(id) == id \in DOMAIN entry /\ entry[id].status \in {"Failed", "Cancelled"}

\* The oldest row of `rom` that is queued, downloading or finalizing.
FirstLiveForRom(rom, id) ==
    LET live == {o \in DOMAIN entry :
                    /\ entry[o].job.rom = rom
                    /\ entry[o].status \in {"Queued", "Downloading", "Installing"}}
    IN  id \in live /\ \A o \in live : id <= o

-----------------------------------------------------------------------------
(* Rows that own no slot.                                                  *)

FinishExternal(id, status) ==
    /\ entry' = IF id \in DOMAIN entry /\ entry[id].job = ExternalJob
                THEN Prune(SetStatus(id, status)) ELSE entry
    /\ UNCHANGED <<nextId, download, finalize, waiting>>

\* finish_library_move ("Completed", "Failed") and cancel_library_move
\* ("Cancelled").
EndLibraryMove(id, status) ==
    /\ entry' = IF id \in DOMAIN entry /\ entry[id].job = MoveJob
                THEN Prune(SetStatus(id, status)) ELSE entry
    /\ UNCHANGED <<nextId, download, finalize, waiting>>

SetLibraryMoveCopying(id, status) ==    \* "Downloading" or "Installing"
    /\ entry' = IF /\ id \in DOMAIN entry
                   /\ entry[id].job = MoveJob
                   /\ IsLive(id)
                THEN SetStatus(id, status) ELSE entry
    /\ UNCHANGED <<nextId, download, finalize, waiting>>

-----------------------------------------------------------------------------
(* Any caller, any arguments.                                              *)

QAdmit == \E job \in Jobs :
    AdmitDuplicate(job) \/ AdmitStart(job) \/ AdmitQueued(job)

QRow ==
    \/ AdmitExternal
    \/ AdmitLibraryMove
    \/ \E id \in Ids, status \in Terminal : EndLibraryMove(id, status)
    \/ \E id \in Ids, status \in {"Completed", "Failed"} : FinishExternal(id, status)
    \/ \E id \in Ids, status \in {"Downloading", "Installing"} :
           SetLibraryMoveCopying(id, status)

QSlot ==
    \/ \E id \in Ids, result \in {"ok", "cancelled", "failed"}, skip \in BOOLEAN :
           DownloadFinished(id, result, skip)
    \/ \E id \in Ids, result \in {"ok", "failed"} : FinalizeFinished(id, result)
    \/ NextReady
    \/ NextReadyLost

QUser == \E id \in Ids : CancelActive(id) \/ CancelQueued(id) \/ Dismiss(id)

QNext == QAdmit \/ QRow \/ QSlot \/ QUser

QSpec == QInit /\ [][QNext]_queueVars

-----------------------------------------------------------------------------
(* Properties of the queue under any caller.                               *)

\* Every field holds a value of its type.
QTypeOK ==
    /\ nextId \in 0 .. MaxId
    /\ DOMAIN entry \subseteq 1 .. nextId
    /\ \A id \in DOMAIN entry : entry[id] \in Entry
    /\ download \in Ids \cup {NoId}
    /\ finalize \in Ids \cup {NoId}
    /\ waiting \in Seq(Ids)

\* The pipeline runs one install at a time: download and finalize are never
\* both taken, although admission, the pump and the end of a download each
\* decide about the slots on their own (queue.rs:157, download_finished hands
\* one slot over to the other).
OneAtATime == download = NoId \/ finalize = NoId

Downloading(id) == entry[id].status \in {"Downloading", "Cancelling"}

\* What the rows say and what the slots and the FIFO hold is the same fact:
\* an install row is downloading or cancelling exactly when it owns the
\* download slot, installing exactly when it owns the finalize slot, queued
\* exactly when it waits.  A slot that outlived its row would wedge the queue
\* (the comment on `dismiss`), a row that outlived its slot would never end.
SlotsMatchRows ==
    /\ ({download, finalize} \cup WaitingIds) \ {NoId} \subseteq DOMAIN entry
    /\ \A id \in DOMAIN entry :
          IF entry[id].job \in Jobs
          THEN /\ Downloading(id) <=> download = id
               /\ entry[id].status = "Installing" <=> finalize = id
               /\ entry[id].status = "Queued" <=> id \in WaitingIds
          ELSE id \notin {download, finalize} \cup WaitingIds

\* Ids wait in the order they were admitted, each once: what makes the FIFO
\* give "base -> update -> DLC" (mod.rs:2772) whatever is cancelled,
\* dismissed or admitted in between.
WaitingInOrder ==
    \A i, j \in DOMAIN waiting : i < j => waiting[i] < waiting[j]

\* Two install rows that are not over never share a key: the dedupe of
\* `admit` covers the slots and the FIFO, and nothing moves a row around it.
NoDuplicateWork ==
    \A a, b \in DOMAIN entry :
        /\ a # b
        /\ entry[a].job \in Jobs /\ entry[b].job \in Jobs
        /\ IsLive(a) /\ IsLive(b)
        => entry[a].job.key # entry[b].job.key

\* The list keeps at most TerminalHistory ended rows, whichever operation
\* ended the last one (queue.rs:87-92).
HistoryBounded ==
    Cardinality({id \in DOMAIN entry : IsTerminal(id)}) <= TerminalHistory

\* A row leaves the list only when it is dismissed, or when the ended rows
\* exceed TerminalHistory: then only the oldest go, a full history of younger
\* ones stays, and of the rows that were live at most the one this step ended
\* is among them.
PruneDropsOldest ==
    [][LET gone == DOMAIN entry \ DOMAIN entry'
           kept == {id \in DOMAIN entry' : entry'[id].status \in Terminal}
       IN  \/ gone = {}
           \/ \E id \in Ids : Dismiss(id)
           \/ /\ Cardinality(kept) = TerminalHistory
              /\ \A id \in gone, k \in kept : id < k
              /\ Cardinality({id \in gone : IsLive(id)}) <= 1]_queueVars
=============================================================================
