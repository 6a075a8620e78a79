----------------------------- MODULE PlayOutbox -----------------------------
(***************************************************************************)
(* Play activity: the sessions that ended wait in the registry's table     *)
(* pending_play_sessions until the server has them (flush, settle_batch in *)
(* play_activity.rs; PlaySessionService in play_session_service.rs;        *)
(* enqueue, pending and delete in registry.rs), over the connection of     *)
(* SessionManager.                                                         *)
(*                                                                         *)
(* A task is spawned when a game ends (it queues the session and flushes)  *)
(* and when a connection comes up (it flushes); tasks and games share      *)
(* names.  Bound: a caller whose last flush still runs starts no command.  *)
(* External: the server keeps an entry it has and answers `duplicate` to a *)
(* repeat; a request, or the answer to it, may be lost.                    *)
(***************************************************************************)
EXTENDS SessionManager

CONSTANTS
    Game,        \* game processes, each one session
    BatchSize,   \* FLUSH_BATCH_SIZE
    MaxRestarts, \* bound: how often the app is started again
    NoTask

ASSUME OutboxAssumption ==
    /\ IsFiniteSet(Game)
    /\ Game \cap Caller = {}
    /\ NoTask \notin Game \cup Caller
    /\ BatchSize \in Nat \ {0}
    /\ MaxRestarts \in Nat

Task == Game \cup Caller

VARIABLES
    running,     \* games whose process the app watches
    rows,        \* pending_play_sessions
    lastId,      \* AUTOINCREMENT
    server,      \* the sessions each account's server has, or refused for good
    gate,        \* flush_gate: the task that holds it, or NoTask
    tasks,       \* the flush tasks
    restarts,
    queued,      \* history: sessions that were ever queued
    tried        \* history: sessions of which this connection had its try

outboxVars == <<running, rows, lastId, server, gate, tasks, restarts,
                queued, tried>>
vars == <<sessionVars, outboxVars>>

NotStarted == [step |-> "idle", gen |-> 0, after |-> 0, batch |-> {}, owes |-> {}]

Init ==
    /\ SessionInit
    /\ running = Game
    /\ rows = {}
    /\ lastId = 0
    /\ server = [a \in Account |-> {}]
    /\ gate = NoTask
    /\ tasks = [t \in Task |-> NotStarted]
    /\ restarts = 0
    /\ queued = {}
    /\ tried = {}

Sessions(someRows) == {r.session : r \in someRows}
On(t, step) == tasks[t].step = step
Goto(t, step) == tasks' = [tasks EXCEPT ![t].step = step]
AccountOf(t) == made[tasks[t].gen]

-----------------------------------------------------------------------------
(* Triggers.                                                               *)

\* The session-finished hook; entry_for_session may say that this is no play
\* activity.
GameEnds(s, counts) ==
    /\ s \in running
    /\ running' = running \ {s}
    /\ IF counts THEN Goto(s, "enqueue") ELSE UNCHANGED tasks
    /\ UNCHANGED <<sessionVars, rows, lastId, server, gate, restarts,
                   queued, tried>>

\* INSERT OR IGNORE; a failure is logged and the session is gone.
Enqueue(s) ==
    /\ On(s, "enqueue")
    /\ \/ /\ rows' = IF s \in Sessions(rows) THEN rows
                     ELSE rows \cup {[id |-> lastId + 1, session |-> s]}
          /\ lastId' = lastId + 1
          /\ queued' = queued \cup {s}
          /\ Goto(s, "client")
       \/ /\ Goto(s, "idle")
          /\ UNCHANGED <<rows, lastId, queued>>
    /\ UNCHANGED <<sessionVars, running, server, gate, restarts, tried>>

\* spawn_connected_jobs, after connect, restore or retry installed a client.
SpawnFlush(c) ==
    /\ In(c, "jobs")
    /\ Return(c)
    /\ Goto(c, "client")
    /\ UNCHANGED <<config, keyring, live, made, told>>
    /\ UNCHANGED <<running, rows, lastId, server, gate, restarts, queued, tried>>

-----------------------------------------------------------------------------
(* flush_now and flush.                                                    *)

\* The live client of this moment; with none the queue waits.
TakeClient(t) ==
    /\ On(t, "client")
    /\ IF live.client = NoAccount
       THEN /\ tasks' = [tasks EXCEPT ![t] = NotStarted]
            /\ tried' = tried \cup Sessions(rows)
       ELSE /\ tasks' = [tasks EXCEPT ![t].step = "gate", ![t].gen = live.generation]
            /\ UNCHANGED tried
    /\ UNCHANGED <<sessionVars, running, rows, lastId, server, gate, restarts,
                   queued>>

FaultEnter(t) ==                   \* a taken gate is not waited for
    /\ On(t, "gate")
    /\ IF gate = NoTask
       THEN /\ gate' = t
            /\ tasks' = [tasks EXCEPT ![t].step = "read", ![t].owes = Sessions(rows)]
       ELSE /\ tasks' = [tasks EXCEPT ![t] = NotStarted]
            /\ UNCHANGED gate
    /\ UNCHANGED <<sessionVars, running, rows, lastId, server, restarts,
                   queued, tried>>

Enter(t) ==
    /\ On(t, "gate")
    /\ gate = NoTask
    /\ gate' = t
    /\ tasks' = [tasks EXCEPT ![t].step = "read", ![t].owes = Sessions(rows)]
    /\ UNCHANGED <<sessionVars, running, rows, lastId, server, restarts,
                   queued, tried>>

\* The flush is over before its end: this connection had its try at what was
\* queued when the pass began.
Stop(t) ==
    /\ tasks' = [tasks EXCEPT ![t] = NotStarted]
    /\ gate' = NoTask
    /\ tried' = IF tasks[t].gen = live.generation THEN tried \cup tasks[t].owes ELSE tried

Page(after) ==
    LET later == {r \in rows : r.id > after}
    IN  {r \in later : Cardinality({q \in later : q.id < r.id}) < BatchSize}

FaultRead(t) ==                    \* pages from the start again
    /\ On(t, "read")
    /\ tasks' = [tasks EXCEPT ![t].step = IF Page(0) = {} THEN "leave" ELSE "post",
                              ![t].batch = Page(0)]
    /\ UNCHANGED <<sessionVars, running, rows, lastId, server, gate, restarts,
                   queued, tried>>

Read(t) ==
    LET batch == Page(tasks[t].after)
    IN  /\ On(t, "read")
        /\ tasks' = [tasks EXCEPT
              ![t].step = IF batch = {} THEN "leave" ELSE "post",
              ![t].batch = batch,
              ![t].after = CHOOSE n \in {@} \cup {r.id : r \in batch} :
                               \A r \in batch : n >= r.id]
        /\ UNCHANGED <<sessionVars, running, rows, lastId, server, gate, restarts,
                       queued, tried>>

FaultAnswered(t) ==                \* an unknown status settles a row too
    /\ On(t, "post")
    /\ \E settled \in SUBSET tasks[t].batch :
          server' = [server EXCEPT ![AccountOf(t)] = @ \cup Sessions(settled)]
    /\ Goto(t, "delete")
    /\ UNCHANGED <<sessionVars, running, rows, lastId, gate, restarts, queued, tried>>

\* The batch is answered entry by entry: settled (created, duplicate, or in
\* error for good) or with a status this build does not know.  A 4xx for the
\* whole batch, neither 401 nor 403, settles all of it.
Answered(t) ==
    /\ On(t, "post")
    /\ \E settled \in SUBSET tasks[t].batch :
          /\ server' = [server EXCEPT ![AccountOf(t)] = @ \cup Sessions(settled)]
          /\ tasks' = [tasks EXCEPT
                ![t].step = IF settled = {} THEN "read" ELSE "delete",
                ![t].batch = settled]
          /\ tried' = IF tasks[t].gen = live.generation
                      THEN tried \cup Sessions(tasks[t].batch \ settled)
                      ELSE tried
    /\ UNCHANGED <<sessionVars, running, rows, lastId, gate, restarts, queued>>

FaultLost(t) ==                    \* the rows of a failed request go too
    /\ On(t, "post")
    /\ Goto(t, "delete")
    /\ UNCHANGED <<sessionVars, running, rows, lastId, server, gate, restarts,
                   queued, tried>>

\* No usable answer (the network, 5xx, 403): the server may have the entries
\* all the same.  A 401 also runs the client's hook.
Lost(t) ==
    /\ On(t, "post")
    /\ \/ /\ \E arrived \in SUBSET tasks[t].batch :
                server' = [server EXCEPT ![AccountOf(t)] = @ \cup Sessions(arrived)]
          /\ UNCHANGED <<live, told>>
       \/ /\ Hook(tasks[t].gen)
          /\ UNCHANGED server
    /\ Stop(t)
    /\ UNCHANGED <<config, keyring, made, calls>>
    /\ UNCHANGED <<running, rows, lastId, restarts, queued>>

Delete(t) ==
    /\ On(t, "delete")
    /\ rows' = rows \ tasks[t].batch
    /\ Goto(t, "read")
    /\ UNCHANGED <<sessionVars, running, lastId, server, gate, restarts,
                   queued, tried>>

\* The registry cannot be read or written.
RegistryFails(t) ==
    /\ tasks[t].step \in {"read", "delete"}
    /\ Stop(t)
    /\ UNCHANGED <<sessionVars, running, rows, lastId, server, restarts, queued>>

Leave(t) ==
    /\ On(t, "leave")
    /\ gate' = NoTask
    /\ tasks' = [tasks EXCEPT ![t] = NotStarted]
    /\ UNCHANGED <<sessionVars, running, rows, lastId, server, restarts,
                   queued, tried>>

FlushStep(t) ==
    \/ TakeClient(t) \/ Enter(t) \/ Read(t)
    \/ Answered(t) \/ Lost(t)
    \/ Delete(t) \/ RegistryFails(t) \/ Leave(t)

-----------------------------------------------------------------------------
(* The session's steps, the app's end, and the whole.                      *)

\* A new client owes every queued session a try.
SessionActs ==
    /\ \/ \E c \in Caller : On(c, "idle") /\ SessionStep(c)
       \/ \E g \in 1 .. MaxGen : Unauthorized(g)
    /\ tried' = IF live'.generation # live.generation THEN {} ELSE tried
    /\ UNCHANGED <<running, rows, lastId, server, gate, tasks, restarts,
                   queued>>

\* The app ends at any moment; the sessions of games it was watching are
\* never seen, and so are those not yet queued.
Restart ==
    /\ restarts < MaxRestarts
    /\ restarts' = restarts + 1
    /\ SessionRestart
    /\ running' = {}
    /\ gate' = NoTask
    /\ tasks' = [t \in Task |-> NotStarted]
    /\ tried' = {}
    /\ UNCHANGED <<rows, lastId, server, queued>>

Next ==
    \/ \E s \in Game : Enqueue(s) \/ \E counts \in BOOLEAN : GameEnds(s, counts)
    \/ \E c \in Caller : SpawnFlush(c)
    \/ \E t \in Task : FlushStep(t)
    \/ SessionActs
    \/ Restart

\* The runtime polls every task, the client's read timeout ends every
\* request, and the gate is given on when it is free.
Fairness == \A t \in Task : WF_vars(FlushStep(t))

Spec == Init /\ [][Next]_vars /\ Fairness

-----------------------------------------------------------------------------
(* Properties.                                                             *)

InFlush == {"read", "post", "delete", "leave"}       \* holds the gate
Row == [id : Nat \ {0}, session : Game]

TypeOK ==
    /\ SessionTypeOK
    /\ running \subseteq Game
    /\ rows \subseteq Row
    /\ lastId \in Nat
    /\ server \in [Account -> SUBSET Game]
    /\ gate \in Task \cup {NoTask}
    /\ tasks \in [Task -> [step : {"idle", "enqueue", "client", "gate"} \cup InFlush,
                           gen : 0 .. MaxGen, after : Nat,
                           batch : SUBSET Row, owes : SUBSET Game]]
    /\ restarts \in 0 .. MaxRestarts
    /\ queued \subseteq Game
    /\ tried \subseteq Game

\* A session that was queued stays queued until a server has it or refuses
\* it for good (play_activity.rs:12-20), through lost requests and answers,
\* registry errors, restarts and changes of account.
KeptUntilSettled ==
    \A s \in queued :
        \/ s \in Sessions(rows)
        \/ \E a \in Account : s \in server[a]

\* A row goes only while a pass holds the gate, and only by the verdict of the
\* server that pass talks to (play_activity.rs:137).
GoesByItsVerdict ==
    [][\A r \in rows : r \notin rows' =>
          /\ gate # NoTask
          /\ r.session \in server[AccountOf(gate)]]_vars

\* "Sessions queued offline (or in an earlier run) go out" (the trigger
\* contract, play_session_service.rs:6-15): when a connection is up and no
\* flush is under way or about to be, every row still queued had its try on
\* this connection and was not settled by it.
NoForgottenRow ==
    /\ live.client # NoAccount
    /\ \A c \in Caller : ~In(c, "jobs")
    /\ \A t \in Task : On(t, "idle")
    => Sessions(rows) \subseteq tried

\* Flushes end, though the server may leave every row queued and requests
\* fail: no pass sends a row twice, each gives the gate back, and whoever
\* waits for it gets its turn, so that time and again none is under way.
PassesEnd == []<>(\A t \in Task : tasks[t].step \in {"idle", "enqueue"})
=============================================================================
