---------------------------- MODULE LibraryGate ----------------------------
(***************************************************************************)
(* Who may use the library folder when: the gate of a library move         *)
(* (LibraryGate in relocate.rs) with everything that enters, checks or     *)
(* waits for it.  The mover closes the gate, waits for the tickets, then   *)
(* reads what is running, one source after the other; launches, transfers  *)
(* of saves, installs and firmware passes go past the gate in their own    *)
(* ways:                                                                   *)
(*    ticket  - held while it works: a launch until its session is listed, *)
(*              a firmware pass to its end;                                *)
(*    count   - count yourself, then look at the gate: a manual upload or  *)
(*              restore, the restore before a launch;                      *)
(*    row     - look at the gate and add a row of the queue in one section *)
(*              under the queue's lock: an install, PS3 firmware;          *)
(*    wait    - count yourself, wait for the gate to open: the upload      *)
(*              after a session, which is then handed to the upload pool.  *)
(*                                                                         *)
(* Left out: what a move does (LibraryMove), the rows' life (InstallQueue),*)
(* an unreachable library, and the commands that check the gate and hold   *)
(* nothing.                                                                *)
(***************************************************************************)

CONSTANTS
    Game, Install, Manual,   \* games, installs, manual transfers
    Pass,                    \* firmware passes
    Kind,                    \* Pass -> what asks for it
    Key                      \* Pass -> the claim of try_begin: [dir, platform]

AllPlatforms == "all"        \* the key of a pass over a whole directory

ASSUME GateAssumption ==
    /\ Kind \in [Pass -> {"launch", "install", "emulator", "ps3"}]
    /\ \A p \in Pass :
          Kind[p] \in {"emulator", "ps3"} <=> Key[p].platform = AllPlatforms

VARIABLES
    closed,      \* the gate
    mover,       \* the library move: where it is, what it reads next
    launch,      \* Game -> the launch_game command of the game
    session,     \* Game -> is a session of the game listed?
    tail,        \* Game -> what follows the end of its session
    pool,        \* the games whose key is in flight in the upload pool
    install,     \* Install -> where an admission is
    manual,      \* Manual -> where a transfer is
    pass,        \* Pass -> where a firmware pass is
    inFlight,    \* the keys claimed by firmware passes
    completed    \* the keys of the per-game passes that ran to their end

vars == <<closed, mover, launch, session, tail, pool, install, manual, pass,
          inFlight, completed>>
gameVars == <<launch, session, tail, pool>>
passVars == <<pass, inFlight, completed>>

\* With a journal left by the last run the gate is closed from the start.
Init ==
    /\ closed \in BOOLEAN
    /\ mover = [at |-> IF closed THEN "stopped" ELSE "idle", read |-> "rows"]
    /\ launch = [g \in Game |-> "off"]
    /\ session = [g \in Game |-> FALSE]
    /\ tail = [g \in Game |-> "none"]
    /\ pool = {}
    /\ install = [i \in Install |-> "off"]
    /\ manual = [m \in Manual |-> "off"]
    /\ pass = [p \in Pass |-> "off"]
    /\ inFlight = {}
    /\ completed = {}

-----------------------------------------------------------------------------
(* What the mover can see.                                                 *)

Counting == {"counted", "restoring"}             \* of launch
Pending == {"waiting", "reloading", "triggered"} \* of tail

TicketOfPass(p) == Kind[p] # "ps3" /\ pass[p] \in {"ticket", "running", "marked"}
NoTickets == launch = [g \in Game |-> "off"] /\ \A p \in Pass : ~TicketOfPass(p)

\* The queue's lock is held between the look at the gate and the new row.
QueueLocked ==
    \/ \E i \in Install : install[i] = "checked"
    \/ \E p \in Pass : pass[p] = "checked"

RowLive ==
    \/ \E i \in Install : install[i] = "live"
    \/ \E p \in Pass : Kind[p] = "ps3" /\ pass[p] = "running"

\* The count is not zero.
TransfersCounted ==
    \/ \E m \in Manual : manual[m] # "off"
    \/ \E g \in Game : launch[g] \in Counting \/ tail[g] \in Pending

\* What one source of activity_of says.
Busy(source) ==
    \/ source = "rows" /\ RowLive
    \/ source = "sessions" /\ \E g \in Game : session[g]
    \/ source = "pool" /\ pool # {}
    \/ source = "count" /\ TransfersCounted

\* In the order it asks them; transfers_active reads the pool before the count.
NextSource == [rows |-> "sessions", sessions |-> "pool", pool |-> "count"]

-----------------------------------------------------------------------------
(* The mover.                                                              *)

MoverAt(at) == mover.at = at
MoverTo(at) == mover' = [at |-> at, read |-> "rows"]
OthersStay == UNCHANGED <<gameVars, install, manual, passVars>>

FaultRefuse == MoverTo("idle") /\ UNCHANGED closed

\* The row goes and the gate, which this move closed, opens.
Refuse == MoverTo("idle") /\ closed' = FALSE

\* The plan reads what is running as well, but with the gate still open: its
\* refusal changes nothing and its consent holds for nothing, so all that is
\* left of it is that a move may be asked for.
Start ==
    /\ MoverAt("idle") /\ ~closed
    /\ closed' = TRUE /\ MoverTo("tickets")
    /\ OthersStay

FaultWaitNoTickets ==              \* the timeout counts as success
    /\ MoverAt("tickets")
    /\ MoverTo("reading") /\ UNCHANGED closed
    /\ OthersStay

\* The wait ends with the last ticket, or by its timeout.
WaitNoTickets ==
    /\ MoverAt("tickets")
    /\ IF NoTickets THEN MoverTo("reading") /\ UNCHANGED closed ELSE Refuse
    /\ OthersStay

FaultReadActivity ==               \* waits for what is busy to end
    /\ MoverAt("reading") /\ ~Busy(mover.read)
    /\ mover.read = "rows" => ~QueueLocked
    /\ IF mover.read # "count"
       THEN mover' = [mover EXCEPT !.read = NextSource[mover.read]]
       ELSE MoverTo("starting")
    /\ UNCHANGED closed /\ OthersStay

\* Reads one source; busy refuses the move, after the last it starts.
ReadActivity ==
    /\ MoverAt("reading")
    /\ mover.read = "rows" => ~QueueLocked
    /\ IF Busy(mover.read) THEN Refuse
       ELSE /\ IF mover.read # "count"
               THEN mover' = [mover EXCEPT !.read = NextSource[mover.read]]
               ELSE MoverTo("starting")
            /\ UNCHANGED closed
    /\ OthersStay

\* start_move writes the journal, or refuses, or fails before or after it.
StartMove ==
    /\ MoverAt("starting")
    /\ \/ MoverTo("moving") /\ UNCHANGED closed
       \/ Refuse
       \/ MoverTo("stopped") /\ UNCHANGED closed
    /\ OthersStay

\* Finished or cancelled without a journal left, or stopped with one.
EndMove ==
    /\ MoverAt("moving")
    /\ Refuse \/ (MoverTo("stopped") /\ UNCHANGED closed)
    /\ OthersStay

Resume ==
    /\ MoverAt("stopped") /\ MoverTo("moving")
    /\ closed' = TRUE
    /\ OthersStay

CancelStopped == MoverAt("stopped") /\ Refuse /\ OthersStay

MoverStep == WaitNoTickets \/ ReadActivity \/ StartMove \/ EndMove

-----------------------------------------------------------------------------
(* launch_game, and the end of a session.                                  *)

LaunchAt(g, at) == launch[g] = at
LaunchTo(g, at) == launch' = [launch EXCEPT ![g] = at]
TailTo(g, at) == tail' = [tail EXCEPT ![g] = at]
GateStays == UNCHANGED <<closed, mover, install, manual, passVars>>
LaunchOnly == GateStays /\ UNCHANGED <<session, tail, pool>>

EnterLaunch(g) ==
    /\ LaunchAt(g, "off") /\ ~closed
    /\ LaunchTo(g, "entered") /\ LaunchOnly

\* The restore before the launch, when one is set up and a server is there.
BeginRestore(g) == LaunchAt(g, "entered") /\ LaunchTo(g, "counted") /\ LaunchOnly
NoRestore(g) == LaunchAt(g, "entered") /\ LaunchTo(g, "ready") /\ LaunchOnly
CheckRestore(g) ==
    /\ LaunchAt(g, "counted")
    /\ LaunchTo(g, IF closed THEN "ready" ELSE "restoring")
    /\ LaunchOnly
EndRestore(g) == LaunchAt(g, "restoring") /\ LaunchTo(g, "ready") /\ LaunchOnly

\* LaunchService::launch asks for a second ticket; a closed gate or a session
\* of the game refuses the launch, and the command gives its ticket back.
BeginLaunch(g) ==
    /\ LaunchAt(g, "ready")
    /\ LaunchTo(g, IF closed \/ session[g] THEN "off" ELSE "spawning")
    /\ LaunchOnly

LaunchFails(g) == LaunchAt(g, "spawning") /\ LaunchTo(g, "off") /\ LaunchOnly

Register(g) ==
    /\ LaunchAt(g, "spawning")
    /\ LaunchTo(g, "registered")
    /\ session' = [session EXCEPT ![g] = TRUE]
    /\ GateStays /\ UNCHANGED <<tail, pool>>

\* The start is stamped and the command returns.
StampStarted(g) == LaunchAt(g, "registered") /\ LaunchTo(g, "off") /\ LaunchOnly

\* Bound: one upload of a game on its way to the pool at a time.
Reap(g) ==
    /\ session[g] /\ tail[g] = "none"
    /\ session' = [session EXCEPT ![g] = FALSE]
    /\ TailTo(g, "ended")
    /\ GateStays /\ UNCHANGED <<launch, pool>>

TailOnly == GateStays /\ UNCHANGED <<launch, session, pool>>

\* The task of the session-finished hook begins, stamps the end and waits.
TrackTransfer(g) == tail[g] = "ended" /\ TailTo(g, "waiting") /\ TailOnly

\* No row, no server, no wish to upload, or the game is gone after the wait.
GiveUp(g) == tail[g] \in {"waiting", "reloading"} /\ TailTo(g, "none") /\ TailOnly

WaitLibraryOpen(g) ==
    tail[g] = "waiting" /\ ~closed /\ TailTo(g, "reloading") /\ TailOnly

\* A key that is in flight already stays the only one.
Trigger(g) ==
    /\ tail[g] = "reloading"
    /\ TailTo(g, "triggered")
    /\ pool' = pool \cup {g}
    /\ GateStays /\ UNCHANGED <<launch, session>>

DropTransfer(g) == tail[g] = "triggered" /\ TailTo(g, "none") /\ TailOnly

UploadEnds(g) ==
    /\ g \in pool /\ pool' = pool \ {g}
    /\ GateStays /\ UNCHANGED <<launch, session, tail>>

LaunchStep(g) ==
    \/ BeginRestore(g) \/ NoRestore(g) \/ CheckRestore(g) \/ EndRestore(g)
    \/ BeginLaunch(g) \/ LaunchFails(g) \/ Register(g) \/ StampStarted(g)
TailStep(g) == TrackTransfer(g) \/ GiveUp(g) \/ Trigger(g) \/ DropTransfer(g)

-----------------------------------------------------------------------------
(* Installs and manual transfers.                                          *)

InstallTo(i, at) ==
    /\ install' = [install EXCEPT ![i] = at]
    /\ UNCHANGED <<closed, mover, gameVars, manual, passVars>>

AdmitCheck(i) ==
    install[i] = "off" /\ ~QueueLocked /\ ~closed /\ InstallTo(i, "checked")
AdmitRow(i) == install[i] = "checked" /\ InstallTo(i, "live")
RowEnds(i) == install[i] = "live" /\ InstallTo(i, "off")

ManualTo(m, at) ==
    /\ manual' = [manual EXCEPT ![m] = at]
    /\ UNCHANGED <<closed, mover, gameVars, install, passVars>>

CountManual(m) == manual[m] = "off" /\ ManualTo(m, "counted")

CheckManual(m) ==
    manual[m] = "counted" /\ ManualTo(m, IF closed THEN "off" ELSE "copying")
ManualEnds(m) == manual[m] = "copying" /\ ManualTo(m, "off")

-----------------------------------------------------------------------------
(* Firmware passes.  (reconcile_library holds a ticket for its run as one  *)
(* does, and claims nothing.)                                              *)

PassTo(p, at) ==
    /\ pass' = [pass EXCEPT ![p] = at]
    /\ UNCHANGED <<closed, mover, gameVars, install, manual>>
NoClaim == UNCHANGED <<inFlight, completed>>

\* Only a launch asks should_run.
AskPass(p) ==
    /\ pass[p] = "off"
    /\ Kind[p] = "launch" => Key[p] \notin completed
    /\ PassTo(p, "wanted") /\ NoClaim

EnterLibrary(p) ==
    /\ pass[p] = "wanted" /\ Kind[p] # "ps3"
    /\ PassTo(p, IF closed THEN "off" ELSE "ticket") /\ NoClaim

FaultMayBegin(key) ==              \* a whole directory only excludes another
    key \notin inFlight

\* A whole directory excludes, and is excluded by, every pass over it.
MayBegin(key) ==
    /\ key \notin inFlight
    /\ \A k \in inFlight :
          k.dir = key.dir => AllPlatforms \notin {k.platform, key.platform}

\* try_begin: PS3 firmware claims without a ticket.
TryBegin(p) ==
    /\ \/ pass[p] = "ticket"
       \/ pass[p] = "wanted" /\ Kind[p] = "ps3"
    /\ IF MayBegin(Key[p])
       THEN /\ PassTo(p, IF Kind[p] = "ps3" THEN "claimed" ELSE "running")
            /\ inFlight' = inFlight \cup {Key[p]}
       ELSE PassTo(p, "off") /\ UNCHANGED inFlight
    /\ UNCHANGED completed

\* Both under the queue's lock (admit_external).
CheckExternal(p) ==
    /\ pass[p] = "claimed" /\ ~QueueLocked
    /\ PassTo(p, IF closed THEN "leaving" ELSE "checked") /\ NoClaim
AdmitExternal(p) == pass[p] = "checked" /\ PassTo(p, "running") /\ NoClaim

\* The work is done: a per-game pass is marked before it gives up anything,
\* the row of PS3 firmware is completed.
MarkCompleted(p) ==
    /\ pass[p] = "running" /\ Kind[p] \in {"launch", "install"}
    /\ PassTo(p, "marked")
    /\ completed' = completed \cup {Key[p]} /\ UNCHANGED inFlight

\* The ticket is dropped before the claim.
DropTicket(p) ==
    /\ \/ pass[p] = "marked"
       \/ pass[p] = "running" /\ Kind[p] \in {"emulator", "ps3"}
    /\ PassTo(p, "leaving") /\ NoClaim

DropGuard(p) ==
    /\ pass[p] = "leaving" /\ PassTo(p, "off")
    /\ inFlight' = inFlight \ {Key[p]} /\ UNCHANGED completed

PassStep(p) ==
    \/ EnterLibrary(p) \/ TryBegin(p) \/ CheckExternal(p) \/ AdmitExternal(p)
    \/ MarkCompleted(p) \/ DropTicket(p) \/ DropGuard(p)

-----------------------------------------------------------------------------
Next ==
    \/ Start \/ MoverStep \/ Resume \/ CancelStopped
    \/ \E g \in Game : EnterLaunch(g) \/ LaunchStep(g) \/ Reap(g)
    \/ \E g \in Game : TailStep(g) \/ WaitLibraryOpen(g) \/ UploadEnds(g)
    \/ \E i \in Install : AdmitCheck(i) \/ AdmitRow(i) \/ RowEnds(i)
    \/ \E m \in Manual : CountManual(m) \/ CheckManual(m) \/ ManualEnds(m)
    \/ \E p \in Pass : AskPass(p) \/ PassStep(p)

Spec == Init /\ [][Next]_vars

\* Threads and tasks that are under way go on: the mover, the sections under
\* the queue's lock, the upload after a session.  Nothing else needs to end:
\* the mover gives up by itself.  The gate wakes its waiters when it opens,
\* and between two moves of a user a woken waiter runs: strong fairness.
Fairness ==
    /\ WF_vars(MoverStep)
    /\ WF_vars(\E i \in Install : AdmitRow(i))
    /\ WF_vars(\E p \in Pass : AdmitExternal(p))
    /\ \A g \in Game :
          /\ WF_vars(TrackTransfer(g) \/ Trigger(g) \/ DropTransfer(g))
          /\ SF_vars(WaitLibraryOpen(g))
LiveSpec == Spec /\ Fairness

-----------------------------------------------------------------------------
(* Properties.                                                             *)

TypeOK ==
    /\ closed \in BOOLEAN
    /\ mover \in [at : {"idle", "tickets", "reading", "starting", "moving", "stopped"},
                  read : {"rows", "sessions", "pool", "count"}]
    /\ launch \in [Game -> {"off", "entered", "ready", "spawning", "registered"}
                           \cup Counting]
    /\ session \in [Game -> BOOLEAN]
    /\ tail \in [Game -> {"none", "ended"} \cup Pending]
    /\ pool \subseteq Game
    /\ install \in [Install -> {"off", "checked", "live"}]
    /\ manual \in [Manual -> {"off", "counted", "copying"}]
    /\ pass \in [Pass -> {"off", "wanted", "ticket", "claimed", "checked",
                          "running", "marked", "leaving"}]
    /\ inFlight \subseteq {Key[p] : p \in Pass}
    /\ completed \subseteq {Key[p] : p \in Pass}

\* Nothing that touches the library runs while a move owns it, from the
\* journal on and also while it is stopped: no launch on its way, no listed
\* session, no transfer past its look at the gate, no row of an install, no
\* firmware pass (module doc of library_move_service.rs, lines 6-19).  The
\* one exception is an upload handed to the pool: see NoUploadUnderMove.
MoveAlone ==
    mover.at \in {"moving", "stopped"} =>
        /\ closed
        /\ \A g \in Game :
              launch[g] = "off" /\ ~session[g] /\ tail[g] # "reloading"
        /\ \A i \in Install : install[i] = "off"
        /\ \A m \in Manual : manual[m] # "copying"
        /\ \A p \in Pass : pass[p] \notin {"ticket", "checked", "running", "marked"}

\* Two firmware passes never write into one place: a pass over a whole
\* directory runs alone there, and a platform has one pass (try_begin).
PassesApart ==
    \A p, q \in Pass :
        /\ p # q /\ {pass[p], pass[q]} \subseteq {"running", "marked"}
        /\ Key[p].dir = Key[q].dir
        => /\ Key[p] # Key[q]
           /\ AllPlatforms \notin {Key[p].platform, Key[q].platform}

\* "transfers_active must stay true across it, or a library move could start
\* between this session's end and its upload" (cloud_service.rs:1022-1025):
\* no upload is in flight while a move runs.
NoUploadUnderMove == mover.at = "moving" => pool = {}

\* Every refusal, end and cancel gives the library back: a closed gate opens
\* again, or a journal on disk waits for the user.
GateReopens == closed ~> (~closed \/ mover.at = "stopped")

\* The upload after a session is handed over or given up, however many moves
\* come in between, unless one stays stopped: the mover and the waiting
\* upload never wait for each other.
UploadGoesOn ==
    \A g \in Game : tail[g] # "none" ~> (tail[g] = "none" \/ mover.at = "stopped")
=============================================================================
