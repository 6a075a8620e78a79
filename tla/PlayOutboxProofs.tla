-------------------------- MODULE PlayOutboxProofs --------------------------
(***************************************************************************)
(* Proofs about SessionManager and PlayOutbox, for any accounts, callers   *)
(* and games, any size of a batch and any bounds.                          *)
(*                                                                         *)
(* The session: nothing is known yet of a generation that is still to      *)
(* come (Ahead), and the live client is the one its generation was made    *)
(* with (Mine).  The outbox: who is at work in the registry holds the gate *)
(* (Holder), what is about to be deleted is settled (Settled), and every   *)
(* row that this connection has not tried is in the hands of somebody who  *)
(* will (Carried).                                                         *)
(***************************************************************************)
EXTENDS PlayOutbox, FiniteSetTheorems, WellFoundedInduction, TLAPS

-----------------------------------------------------------------------------
(* The session.                                                            *)

\* The calls that may still install a client.
Entering == {c \in Caller : calls[c].step \in {"secret", "probe", "keyring", "install"}}

Room == live.generation + Cardinality(Entering) <= MaxGen

Ahead ==
    \A g \in 1 .. MaxGen : g > live.generation => made[g] = NoAccount /\ told[g] = 0

Mine ==
    live.client # NoAccount => live.generation > 0 /\ made[live.generation] = live.client

SInv == SessionTypeOK /\ Room /\ Ahead /\ Mine /\ ToldOnce

Accounts == Account \cup {NoAccount}
Call == [step : {"idle", "secret", "probe", "keyring", "install", "jobs", "clear"},
         server : Accounts, cred : Accounts, saves : BOOLEAN]

LEMMA EnteringIsFinite ==
  /\ IsFiniteSet(Entering) /\ Cardinality(Entering) \in Nat
  /\ IsFiniteSet({o \in Caller : ~In(o, "idle")})
  /\ Cardinality({o \in Caller : ~In(o, "idle")}) \in Nat
<1>1. Entering \in SUBSET Caller /\ {o \in Caller : ~In(o, "idle")} \in SUBSET Caller
      BY DEF Entering
<1> HIDE DEF Entering
<1> QED BY <1>1, SessionAssumption, FS_Subset, FS_CardinalityType

\* A call that is not entering any more, or was not before, leaves room.
LEMMA RoomStays ==
  ASSUME SessionTypeOK, Room, Entering' \subseteq Entering,
         live'.generation = live.generation
  PROVE  Room'
<1>1. Cardinality(Entering') <= Cardinality(Entering) /\ Cardinality(Entering') \in Nat
      BY EnteringIsFinite, FS_Subset, FS_CardinalityType
<1>2. live.generation \in Nat /\ MaxGen \in Nat BY SessionAssumption DEF SessionTypeOK
<1> QED BY <1>1, <1>2, EnteringIsFinite DEF Room

\* A new call fits.
LEMMA RoomForOne ==
  ASSUME SessionTypeOK, NEW c \in Caller, MayCall(c)
  PROVE  /\ live.generation + Cardinality(Entering \cup {c}) <= MaxGen
         /\ live.generation + 1 + Cardinality(Entering) <= MaxGen
         /\ c \notin Entering
<1> DEFINE N == {o \in Caller : ~In(o, "idle")}
<1>1. IsFiniteSet(N) /\ Cardinality(N) \in Nat BY EnteringIsFinite
<1>2. Entering \subseteq N /\ c \notin N BY DEF Entering, In, MayCall
<1>3. live.generation + Cardinality(N) < MaxGen BY DEF MayCall
<1>4. live.generation \in Nat /\ MaxGen \in Nat BY SessionAssumption DEF SessionTypeOK
<1> HIDE DEF N
<1>5. c \notin Entering BY <1>2
<1>6. Cardinality(Entering) <= Cardinality(N) BY <1>1, <1>2, FS_Subset
<1>7. Cardinality(Entering \cup {c}) = Cardinality(Entering) + 1
      BY <1>5, EnteringIsFinite, FS_AddElement
<1> QED BY <1>1, <1>3, <1>4, <1>5, <1>6, <1>7, EnteringIsFinite

\* Only a call has moved.
LEMMA CallKeeps ==
  ASSUME SInv, NEW c \in Caller, NEW call \in Call,
         calls' = [calls EXCEPT ![c] = call],
         \/ call.step \in {"idle", "jobs", "clear"}
         \/ c \in Entering
         \/ MayCall(c),
         {config', keyring'} \subseteq Accounts,
         UNCHANGED <<live, made, told>>
  PROVE  SInv'
<1>1. calls \in [Caller -> Call] BY DEF SInv, SessionTypeOK, Call, Accounts
<1>2. calls' \in [Caller -> Call] BY <1>1
<1>3. SessionTypeOK' BY <1>2 DEF SInv, SessionTypeOK, Call, Accounts
<1>4. \A o \in Caller : calls'[o] = IF o = c THEN call ELSE calls[o] BY <1>1
<1>5. Room'
  <2>1. CASE call.step \in {"idle", "jobs", "clear"} \/ c \in Entering
    <3>1. Entering' \subseteq Entering BY <1>4, <2>1 DEF Entering
    <3> QED BY <3>1, RoomStays DEF SInv
  <2>2. CASE MayCall(c)
    <3>1. Entering' \subseteq Entering \cup {c} BY <1>4 DEF Entering
    <3>2. IsFiniteSet(Entering \cup {c}) /\ Cardinality(Entering \cup {c}) \in Nat
          BY EnteringIsFinite, FS_AddElement, FS_CardinalityType
    <3>3. Cardinality(Entering') <= Cardinality(Entering \cup {c})
          /\ Cardinality(Entering') \in Nat
          BY <3>1, <3>2, FS_Subset, FS_CardinalityType
    <3>4. live.generation + Cardinality(Entering \cup {c}) <= MaxGen
          BY <2>2, RoomForOne DEF SInv
    <3>5. live.generation \in Nat /\ MaxGen \in Nat
          BY SessionAssumption DEF SInv, SessionTypeOK
    <3> QED BY <3>2, <3>3, <3>4, <3>5 DEF Room
  <2> QED BY <2>1, <2>2
<1>6. Ahead' /\ Mine' /\ ToldOnce' BY DEF SInv, Ahead, Mine, ToldOnce
<1> QED BY <1>3, <1>5, <1>6 DEF SInv

\* A 401 of a client of any generation.
LEMMA HookKeeps ==
  ASSUME SInv, NEW g \in 1 .. MaxGen, Hook(g), UNCHANGED <<config, keyring, made, calls>>
  PROVE  SInv'
<1>1. CASE UNCHANGED <<live, told>>
  <2>1. Entering' = Entering BY DEF Entering
  <2> QED BY <1>1, <2>1 DEF SInv, SessionTypeOK, Room, Ahead, Mine, ToldOnce
<1>2. CASE live.generation = g /\ live.client # NoAccount
  <2>1. live' = [live EXCEPT !.client = NoAccount] /\ told' = [told EXCEPT ![g] = @ + 1]
        BY <1>2 DEF Hook
  <2>2. live'.client = NoAccount /\ live'.generation = live.generation
        BY <2>1 DEF SInv, SessionTypeOK
  <2>3. told[g] = 0
    <3>1. told[g] \in Nat /\ told[g] <= 1 /\ told[g] # 1 BY <1>2 DEF SInv, SessionTypeOK, ToldOnce
    <3> QED BY <3>1
  <2>4. told' \in [1 .. MaxGen -> Nat] /\ told'[g] = 1
        /\ \A h \in 1 .. MaxGen : h # g => told'[h] = told[h]
        BY <2>1, <2>3 DEF SInv, SessionTypeOK
  <2>5. SessionTypeOK' BY <2>1, <2>4 DEF SInv, SessionTypeOK
  <2>6. Room'
    <3>1. Entering' \subseteq Entering BY DEF Entering
    <3> QED BY <2>2, <3>1, RoomStays DEF SInv
  <2>7. Ahead' BY <1>2, <2>2, <2>4 DEF SInv, Ahead
  <2>8. Mine' BY <2>2 DEF Mine
  <2>9. ToldOnce'
    <3> SUFFICES ASSUME NEW h \in 1 .. MaxGen PROVE (told[h] <= 1)' BY <2>2 DEF ToldOnce
    <3> QED BY <2>4 DEF SInv, ToldOnce
  <2> QED BY <2>5, <2>6, <2>7, <2>8, <2>9 DEF SInv
<1> QED BY <1>1, <1>2 DEF Hook

\* The live client changes with its generation.
LEMMA ChangeKeeps ==
  ASSUME SInv, NEW c \in Caller, NEW client \in Accounts, NEW step,
         (c \in Entering /\ step = "jobs") \/ (MayCall(c) /\ step = "clear"),
         live' = [client |-> client, generation |-> live.generation + 1],
         client # NoAccount => made' = [made EXCEPT ![live.generation + 1] = client],
         client = NoAccount => made' \in {made, [made EXCEPT ![live.generation + 1] = client]},
         Move(c, step), UNCHANGED <<config, keyring, told>>
  PROVE  SInv'
<1> DEFINE n == live.generation + 1
<1>1. live.generation \in Nat /\ MaxGen \in Nat BY SessionAssumption DEF SInv, SessionTypeOK
<1>2. calls \in [Caller -> Call] BY DEF SInv, SessionTypeOK, Call, Accounts
<1>3. calls' = [calls EXCEPT ![c] = [calls[c] EXCEPT !.step = step]] BY DEF Move
<1>4. calls' \in [Caller -> Call] BY <1>2, <1>3 DEF Call
<1>5. \A o \in Caller : calls'[o].step = IF o = c THEN step ELSE calls[o].step
      BY <1>2, <1>3 DEF Call
<1>6. Room' /\ n <= MaxGen
  <2>1. CASE c \in Entering /\ step = "jobs"
    <3>1. Entering' = Entering \ {c} BY <1>5, <2>1 DEF Entering
    <3>2. Cardinality(Entering \ {c}) = Cardinality(Entering) - 1
          BY <2>1, EnteringIsFinite, FS_RemoveElement
    <3>3. Cardinality(Entering \ {c}) \in Nat
          BY EnteringIsFinite, FS_RemoveElement, FS_CardinalityType
    <3>4. live.generation + Cardinality(Entering) <= MaxGen BY DEF SInv, Room
    <3>5. live'.generation = live.generation + 1 OBVIOUS
    <3> QED BY <1>1, <3>1, <3>2, <3>3, <3>4, <3>5, EnteringIsFinite DEF Room
  <2>2. CASE MayCall(c) /\ step = "clear"
    <3>1. c \notin Entering /\ live.generation + 1 + Cardinality(Entering) <= MaxGen
          BY <2>2, RoomForOne DEF SInv
    <3>2. Entering' = Entering BY <1>5, <2>2, <3>1 DEF Entering
    <3>3. live'.generation = live.generation + 1 OBVIOUS
    <3> QED BY <1>1, <3>1, <3>2, <3>3, EnteringIsFinite DEF Room
  <2> QED BY <2>1, <2>2
<1>7. n \in 1 .. MaxGen BY <1>1, <1>6
<1>8. live'.client = client /\ live'.generation = n OBVIOUS
<1>9. /\ made' \in [1 .. MaxGen -> Accounts]
      /\ \A g \in 1 .. MaxGen : g # n => made'[g] = made[g]
      /\ client # NoAccount => made'[n] = client
  <2>1. made \in [1 .. MaxGen -> Accounts] BY DEF SInv, SessionTypeOK, Accounts
  <2> HIDE DEF n
  <2>2. made' = made \/ made' = [made EXCEPT ![n] = client] BY DEF n
  <2>3. client # NoAccount => made' = [made EXCEPT ![n] = client] BY DEF n
  <2> QED BY <1>7, <2>1, <2>2, <2>3
<1>10. SessionTypeOK'
  <2>1. live' \in [client : Accounts, generation : 0 .. MaxGen] BY <1>7
  <2> QED BY <1>4, <1>9, <2>1 DEF SInv, SessionTypeOK, Call, Accounts
<1>11. Ahead'
  <2> SUFFICES ASSUME NEW g \in 1 .. MaxGen, g > n PROVE made'[g] = NoAccount /\ told[g] = 0
      BY <1>8 DEF Ahead
  <2>1. g # n /\ g > live.generation BY <1>1
  <2> QED BY <1>9, <2>1 DEF SInv, Ahead
<1>12. Mine' BY <1>1, <1>8, <1>9 DEF Mine
<1>13. ToldOnce'
  <2>1. told[n] = 0 BY <1>1, <1>7 DEF SInv, Ahead
  <2> QED BY <1>8, <2>1 DEF SInv, ToldOnce
<1> QED BY <1>6, <1>10, <1>11, <1>12, <1>13 DEF SInv

LEMMA SessionInitHolds == SessionInit => SInv
<1> SUFFICES ASSUME SessionInit PROVE SInv OBVIOUS
<1>1. live.client = NoAccount /\ live.generation = 0 BY DEF SessionInit
<1>2. SessionTypeOK BY SessionAssumption DEF SessionInit, SessionTypeOK, Idle
<1>3. Entering = {} BY DEF SessionInit, Entering, Idle
<1>4. Room BY <1>1, <1>3, FS_EmptySet, SessionAssumption DEF Room
<1> QED BY <1>1, <1>2, <1>4 DEF SInv, Ahead, Mine, ToldOnce, SessionInit

LEMMA RestartKeeps ==
  ASSUME SInv, SessionRestart
  PROVE  SInv'
<1>1. live'.client = NoAccount /\ live'.generation = 0 BY DEF SessionRestart
<1>2. SessionTypeOK' BY SessionAssumption DEF SInv, SessionRestart, SessionTypeOK, Idle
<1>3. Entering' = {} BY DEF SessionRestart, Entering, Idle
<1>4. Room' BY <1>1, <1>3, FS_EmptySet, SessionAssumption DEF Room
<1> QED BY <1>1, <1>2, <1>4 DEF SInv, Ahead, Mine, ToldOnce, SessionRestart

\* The end of a command, its jobs started or not.
LEMMA ReturnKeeps ==
  ASSUME SInv, NEW c \in Caller, Return(c), {config', keyring'} \subseteq Accounts,
         UNCHANGED <<live, made, told>>
  PROVE  SInv'
<1>1. Idle \in Call /\ Idle.step = "idle" BY DEF Idle, Call, Accounts
<1> QED BY <1>1, CallKeeps DEF Return

\* Every step of every command keeps the invariant.
LEMMA StepKeeps ==
  ASSUME SInv, NEW c \in Caller, SessionStep(c)
  PROVE  SInv'
<1>1. /\ calls[c] \in Call /\ {config, keyring} \subseteq Accounts
      /\ Account \subseteq Accounts /\ NoAccount \in Accounts
      BY DEF SInv, SessionTypeOK, Call, Accounts
<1>2. ASSUME NEW a \in Account, Connect(c, a) PROVE SInv'
  <2> DEFINE call == [step |-> "probe", server |-> a, cred |-> a, saves |-> TRUE]
  <2>1. call \in Call BY <1>1 DEF Call
  <2>2. calls' = [calls EXCEPT ![c] = call] /\ MayCall(c) BY <1>2 DEF Connect
  <2> HIDE DEF call
  <2> QED BY <1>1, <1>2, <2>1, <2>2, CallKeeps DEF Connect
<1>3. CASE LoadConfig(c)
  <2> DEFINE call == [step |-> "secret", server |-> config, cred |-> NoAccount, saves |-> FALSE]
  <2>1. call \in Call BY <1>1 DEF Call
  <2>2. calls' = [calls EXCEPT ![c] = call] /\ MayCall(c) BY <1>3 DEF LoadConfig
  <2> HIDE DEF call
  <2> QED BY <1>1, <1>3, <2>1, <2>2, CallKeeps DEF LoadConfig
<1>4. CASE LoadCredential(c)
  <2> DEFINE call == IF keyring = NoAccount THEN Idle
                     ELSE [calls[c] EXCEPT !.step = "probe", !.cred = keyring]
  <2>1. call \in Call BY <1>1 DEF Call, Idle
  <2>2. calls' = [calls EXCEPT ![c] = call] /\ c \in Entering
        BY <1>4 DEF LoadCredential, Entering, In
  <2> HIDE DEF call
  <2> QED BY <1>1, <1>4, <2>1, <2>2, CallKeeps DEF LoadCredential
<1>5. CASE SaveConfig(c)
  <2> DEFINE call == [calls[c] EXCEPT !.step = "keyring"]
  <2>1. call \in Call BY <1>1 DEF Call
  <2>2. calls' = [calls EXCEPT ![c] = call] /\ c \in Entering /\ config' \in Accounts
        BY <1>1, <1>5 DEF SaveConfig, ProbeAnswers, Move, Entering, In, Call
  <2> HIDE DEF call
  <2> QED BY <1>1, <1>5, <2>1, <2>2, CallKeeps DEF SaveConfig
<1>6. CASE SaveCredential(c)
  <2> DEFINE call == [calls[c] EXCEPT !.step = "install"]
  <2>1. call \in Call BY <1>1 DEF Call
  <2>2. calls' = [calls EXCEPT ![c] = call] /\ c \in Entering /\ keyring' \in Accounts
        BY <1>1, <1>6 DEF SaveCredential, Move, Entering, In, Call
  <2> HIDE DEF call
  <2> QED BY <1>1, <1>6, <2>1, <2>2, CallKeeps DEF SaveCredential
<1>7. CASE CallFails(c) BY <1>1, <1>7, ReturnKeeps DEF CallFails
<1>8. CASE Install(c)
  <2>1. c \in Entering BY <1>8 DEF Install, MayInstall, ProbeAnswers, In, Entering
  <2>2. calls[c].cred \in Accounts BY <1>1 DEF Call
  <2> QED BY <1>8, <2>1, <2>2, ChangeKeeps DEF Install
<1>9. CASE Disconnect(c) BY <1>1, <1>9, ChangeKeeps DEF Disconnect
<1>10. CASE ClearCredential(c) BY <1>1, <1>10, ReturnKeeps DEF ClearCredential
<1> QED BY <1>2, <1>3, <1>4, <1>5, <1>6, <1>7, <1>8, <1>9, <1>10 DEF SessionStep

\* What the outbox does with the session: the jobs of a connection start, a
\* request is answered 401, the app is started again.
LEMMA SInvKeeps ==
  ASSUME TypeOK, SInv, [Next]_vars,
         \A t \in Task : On(t, "post") => tasks[t].gen \in 1 .. MaxGen
  PROVE  SInv'
<1>1. ASSUME UNCHANGED sessionVars PROVE SInv'
  <2>1. Entering' = Entering BY <1>1 DEF Entering, sessionVars
  <2> QED BY <1>1, <2>1 DEF sessionVars, SInv, SessionTypeOK, Room, Ahead, Mine, ToldOnce
<1>2. CASE UNCHANGED vars BY <1>1, <1>2 DEF vars
<1>3. ASSUME NEW s \in Game, Enqueue(s) \/ \E counts \in BOOLEAN : GameEnds(s, counts)
      PROVE  SInv'
      BY <1>1, <1>3 DEF Enqueue, GameEnds
<1>4. ASSUME NEW c \in Caller, SpawnFlush(c) PROVE SInv'
  <2>1. {config', keyring'} \subseteq Accounts
        BY <1>4 DEF SpawnFlush, SInv, SessionTypeOK, Accounts
  <2> QED BY <1>4, <2>1, ReturnKeeps DEF SpawnFlush
<1>5. ASSUME NEW t \in Task, FlushStep(t) PROVE SInv'
  <2>1. CASE Lost(t)
    <3>1. On(t, "post") /\ UNCHANGED <<config, keyring, made, calls>>
          BY <2>1 DEF Lost
    <3>2. CASE UNCHANGED <<live, told>> BY <1>1, <3>1, <3>2 DEF sessionVars
    <3>3. CASE Hook(tasks[t].gen) BY <3>1, <3>3, HookKeeps
    <3> QED BY <2>1, <3>2, <3>3 DEF Lost
  <2>2. CASE TakeClient(t) \/ Enter(t) \/ Read(t) \/ Answered(t) \/ Delete(t)
             \/ RegistryFails(t) \/ Leave(t)
        BY <1>1, <2>2 DEF TakeClient, Enter, Read, Answered, Delete, RegistryFails, Leave
  <2> QED BY <1>5, <2>1, <2>2 DEF FlushStep
<1>6. CASE SessionActs BY <1>6, StepKeeps, HookKeeps DEF SessionActs, Unauthorized
<1>7. CASE Restart BY <1>7, RestartKeeps DEF Restart
<1> QED BY <1>2, <1>3, <1>4, <1>5, <1>6, <1>7 DEF Next

-----------------------------------------------------------------------------
(* Who is at work.                                                         *)

\* The tasks that have taken a client.
Sending == {"gate"} \cup InFlush

Holder ==
    /\ \A t \in Task : tasks[t].step \in InFlush <=> gate = t
    /\ \A t \in Task : tasks[t].step \in Sending =>
          /\ tasks[t].gen \in 1 .. MaxGen /\ tasks[t].gen <= live.generation
          /\ AccountOf(t) # NoAccount
    /\ \A t \in Task : tasks[t].step \notin InFlush => tasks[t].after = 0

\* A caller has no task while its command runs, a game none while it runs.
Apart ==
    /\ \A c \in Caller : ~In(c, "idle") => On(c, "idle")
    /\ \A s \in running : On(s, "idle")

Known == \A r \in rows : r.id <= lastId

OInv == TypeOK /\ SInv /\ Holder /\ Apart /\ Known /\ IsFiniteSet(rows)

\* What is about to be deleted is settled where the pass sent it.
Settled ==
    \A t \in Task : On(t, "delete") =>
        Sessions(tasks[t].batch) \subseteq server[AccountOf(t)]

\* The task will send the row, or has it in its hands, on the live client.
Carries(flush, r) ==
    \/ flush.step = "client"
    \/ flush.step = "gate" /\ flush.gen = live.generation
    \/ /\ flush.step \in {"read", "post", "delete"}
       /\ flush.gen = live.generation
       /\ r.session \in flush.owes
       /\ \/ r.id > flush.after
          \/ flush.step # "read" /\ r \in flush.batch

Carried ==
    live.client # NoAccount =>
        \A r \in rows :
            \/ r.session \in tried
            \/ \E c \in Caller : In(c, "jobs")
            \/ \E t \in Task : Carries(tasks[t], r)

Flush == [step : {"idle", "enqueue", "client", "gate"} \cup InFlush,
          gen : 0 .. MaxGen, after : Nat, batch : SUBSET Row, owes : SUBSET Game]

LEMMA NotStartedTyped ==
  /\ NotStarted \in Flush
  /\ NotStarted.step = "idle" /\ NotStarted.after = 0
  BY SessionAssumption DEF NotStarted, Flush

\* One task has moved, and the rows with it perhaps.
LEMMA TaskTyped ==
  ASSUME TypeOK, SInv', NEW t \in Task, NEW flush \in Flush,
         tasks' = [tasks EXCEPT ![t] = flush],
         running' \subseteq running, rows' \subseteq Row, lastId' \in Nat,
         server' \in [Account -> SUBSET Game], gate' \in {gate, t, NoTask},
         queued' \subseteq Game, tried' \subseteq Game, UNCHANGED restarts
  PROVE  TypeOK'
<1>1. tasks' \in [Task -> Flush] BY DEF TypeOK, Flush
<1> QED BY <1>1 DEF TypeOK, SInv, Flush

LEMMA FlushTyped ==
  ASSUME TypeOK, NEW t \in Task
  PROVE  /\ tasks \in [Task -> Flush] /\ tasks[t] \in Flush
         /\ server \in [Account -> SUBSET Game]
         /\ Sessions(rows) \subseteq Game
         /\ Sessions(tasks[t].batch) \subseteq Game
  BY DEF TypeOK, Flush, Sessions, Row

\* A batch is part of the rows, so its ids were given out.
LEMMA PageTyped ==
  ASSUME TypeOK, NEW after \in Nat
  PROVE  Page(after) \subseteq rows /\ Page(after) \subseteq Row
  BY DEF Page, TypeOK

-----------------------------------------------------------------------------
(* One lemma for the steps of one task, and the steps.                     *)

\* What a task may become.
Fits(t, flush) ==
    /\ flush.step \in Sending =>
          /\ flush.gen \in 1 .. MaxGen /\ flush.gen <= live.generation
          /\ made[flush.gen] # NoAccount
    /\ flush.step \notin InFlush => flush.after = 0

LEMMA TaskMoves ==
  ASSUME OInv, SInv', NEW t \in Task, NEW flush \in Flush,
         tasks' = [tasks EXCEPT ![t] = flush],
         Fits(t, flush), UNCHANGED made, live'.generation = live.generation,
         flush.step \in InFlush <=> gate' = t,
         gate' = gate \/ (gate \in {t, NoTask} /\ gate' \in {t, NoTask}),
         flush.step = "idle" \/ (t \notin running' /\ (t \in Caller => In(t, "idle")')),
         \A c \in Caller : In(c, "idle") => In(c, "idle")',
         running' \subseteq running,
         rows' \subseteq Row, \A r \in rows' : r.id <= lastId', IsFiniteSet(rows'),
         lastId' \in Nat, server' \in [Account -> SUBSET Game],
         queued' \subseteq Game, tried' \subseteq Game, UNCHANGED restarts
  PROVE  OInv'
<1>1. tasks \in [Task -> Flush] BY FlushTyped DEF OInv
<1>2. tasks'[t] = flush /\ \A u \in Task : u # t => tasks'[u] = tasks[u] BY <1>1
<1>3. gate' \in {gate, t, NoTask} OBVIOUS
<1>4. TypeOK' BY <1>3, TaskTyped DEF OInv
<1>5. \A u \in Task : (u # NoTask) BY OutboxAssumption DEF Task
<1>6. Holder'
  <2>1. ASSUME NEW u \in Task PROVE tasks'[u].step \in InFlush <=> gate' = u
        BY <1>2, <1>5 DEF OInv, Holder
  <2>2. ASSUME NEW u \in Task, tasks'[u].step \in Sending
        PROVE  /\ tasks'[u].gen \in 1 .. MaxGen /\ tasks'[u].gen <= live'.generation
               /\ made'[tasks'[u].gen] # NoAccount
        BY <1>2, <2>2 DEF OInv, Holder, Fits, AccountOf
  <2>3. ASSUME NEW u \in Task PROVE tasks'[u].step \notin InFlush => tasks'[u].after = 0
        BY <1>2 DEF OInv, Holder, Fits
  <2> QED BY <2>1, <2>2, <2>3 DEF Holder, AccountOf
<1>7. Apart'
  <2>1. ASSUME NEW c \in Caller, ~In(c, "idle")' PROVE tasks'[c].step = "idle"
    <3>1. ~In(c, "idle") /\ c \in Task BY <2>1 DEF Task
    <3>2. tasks[c].step = "idle" BY <3>1 DEF OInv, Apart, On
    <3> QED BY <1>2, <2>1, <3>1, <3>2
  <2>2. ASSUME NEW s \in running' PROVE tasks'[s].step = "idle"
    <3>1. s \in running /\ s \in Task BY DEF OInv, TypeOK, Task
    <3>2. tasks[s].step = "idle" BY <3>1 DEF OInv, Apart, On
    <3> QED BY <1>2, <3>1, <3>2
  <2> QED BY <2>1, <2>2 DEF Apart, On
<1> QED BY <1>4, <1>6, <1>7 DEF OInv, Known

\* SInv survives every step: see above.
LEMMA SInvStays == ASSUME OInv, [Next]_vars PROVE SInv'
  BY SInvKeeps DEF OInv, Holder, Sending, InFlush, On

LEMMA GameEndsKeeps ==
  ASSUME OInv, SInv', NEW s \in Game, NEW counts \in BOOLEAN, GameEnds(s, counts)
  PROVE  OInv'
<1> DEFINE flush == IF counts THEN [tasks[s] EXCEPT !.step = "enqueue"] ELSE tasks[s]
<1>1. s \in Task /\ s \notin Caller BY OutboxAssumption DEF Task
<1>2. tasks[s] \in Flush /\ tasks \in [Task -> Flush] BY <1>1, FlushTyped DEF OInv
<1>3. tasks[s].step = "idle" /\ tasks[s].after = 0 /\ gate # s
      BY <1>1 DEF GameEnds, OInv, Apart, On, Holder, InFlush
<1>4. /\ flush \in Flush /\ flush.step \in {"idle", "enqueue"} /\ flush.after = 0
      /\ tasks' = [tasks EXCEPT ![s] = flush]
      BY <1>2, <1>3 DEF Flush, GameEnds, Goto
<1> HIDE DEF flush
<1>5. Fits(s, flush) BY <1>4 DEF Fits, Sending, InFlush
<1>6. UNCHANGED <<made, live, calls, rows, lastId, server, gate, restarts, queued, tried>>
      /\ s \notin running' /\ running' \subseteq running
      BY DEF GameEnds, sessionVars
<1>7. flush.step \notin InFlush BY <1>4 DEF InFlush
<1> QED BY <1>1, <1>3, <1>4, <1>5, <1>6, <1>7, TaskMoves DEF OInv, TypeOK, Known, In

LEMMA EnqueueKeeps ==
  ASSUME OInv, SInv', NEW s \in Game, Enqueue(s)
  PROVE  OInv'
<1>1. s \in Task /\ s \notin Caller BY OutboxAssumption DEF Task
<1>2. tasks[s] \in Flush /\ tasks \in [Task -> Flush] BY <1>1, FlushTyped DEF OInv
<1>3. tasks[s].step = "enqueue" /\ tasks[s].after = 0 /\ gate # s /\ s \notin running
      BY <1>1 DEF Enqueue, OInv, Apart, On, Holder, InFlush
<1>4. PICK step \in {"client", "idle"} : tasks' = [tasks EXCEPT ![s] = [@ EXCEPT !.step = step]]
      BY DEF Enqueue, Goto
<1> DEFINE flush == [tasks[s] EXCEPT !.step = step]
<1>5. /\ flush \in Flush /\ flush.step = step /\ flush.after = 0
      /\ tasks' = [tasks EXCEPT ![s] = flush]
      BY <1>2, <1>3, <1>4 DEF Flush
<1> HIDE DEF flush
<1>6. Fits(s, flush) /\ flush.step \notin InFlush BY <1>5 DEF Fits, Sending, InFlush
<1>7. UNCHANGED <<made, live, calls, running, server, gate, restarts, tried>>
      BY DEF Enqueue, sessionVars
<1>8. lastId \in Nat /\ rows \subseteq Row /\ IsFiniteSet(rows) /\ \A r \in rows : r.id <= lastId
      BY DEF OInv, TypeOK, Known
<1>9. /\ rows' \subseteq Row /\ \A r \in rows' : r.id <= lastId'
      /\ IsFiniteSet(rows') /\ lastId' \in Nat
  <2> DEFINE new == [id |-> lastId + 1, session |-> s]
  <2>1. new \in Row /\ new.id = lastId + 1 BY <1>8 DEF Row
  <2> HIDE DEF new
  <2>2. rows' \in {rows, rows \cup {new}} BY DEF Enqueue, new
  <2>3. lastId' = lastId + 1 \/ (lastId' = lastId /\ rows' = rows) BY DEF Enqueue
  <2>4. IsFiniteSet(rows \cup {new}) BY <1>8, FS_AddElement
  <2>5. \A r \in rows : r.id \in Nat BY <1>8 DEF Row
  <2>6. lastId' \in Nat /\ \A r \in rows' : r.id <= lastId' BY <1>8, <2>1, <2>2, <2>3, <2>5
  <2> QED BY <1>8, <2>1, <2>2, <2>4, <2>6
<1>10. queued' \subseteq Game BY DEF Enqueue, OInv, TypeOK
<1> QED BY <1>1, <1>3, <1>5, <1>6, <1>7, <1>9, <1>10, TaskMoves DEF OInv, TypeOK, In

LEMMA SpawnKeeps ==
  ASSUME OInv, SInv', NEW c \in Caller, SpawnFlush(c)
  PROVE  OInv'
<1>1. c \in Task /\ c \notin Game BY OutboxAssumption DEF Task
<1>2. tasks[c] \in Flush /\ tasks \in [Task -> Flush] BY <1>1, FlushTyped DEF OInv
<1>3. tasks[c].step = "idle" /\ tasks[c].after = 0 /\ gate # c /\ c \notin running
      BY <1>1 DEF SpawnFlush, OInv, Apart, On, In, Holder, InFlush, TypeOK
<1> DEFINE flush == [tasks[c] EXCEPT !.step = "client"]
<1>4. /\ flush \in Flush /\ flush.step = "client" /\ flush.after = 0
      /\ tasks' = [tasks EXCEPT ![c] = flush]
      BY <1>2, <1>3 DEF Flush, SpawnFlush, Goto
<1> HIDE DEF flush
<1>5. Fits(c, flush) /\ flush.step \notin InFlush BY <1>4 DEF Fits, Sending, InFlush
<1>6. UNCHANGED <<made, live, running, rows, lastId, server, gate, restarts, queued, tried>>
      BY DEF SpawnFlush
<1>7. \A o \in Caller : calls'[o] = IF o = c THEN Idle ELSE calls[o]
      BY DEF SpawnFlush, Return, OInv, SInv, SessionTypeOK
<1>8. \A o \in Caller : In(o, "idle") \/ o = c => In(o, "idle")' BY <1>7 DEF In, Idle
<1> QED BY <1>1, <1>3, <1>4, <1>5, <1>6, <1>8, TaskMoves DEF OInv, TypeOK, Known

LEMMA Working ==
  ASSUME OInv, NEW t \in Task, tasks[t].step # "idle"
  PROVE  t \notin running /\ (t \in Caller => In(t, "idle"))
  BY DEF OInv, Apart, On

\* A step of a flush with everything but its own results as it was.
LEMMA FlushMoves ==
  ASSUME OInv, SInv', NEW t \in Task, NEW flush \in Flush, tasks[t].step # "idle",
         tasks' = [tasks EXCEPT ![t] = flush],
         Fits(t, flush),
         flush.step \in InFlush <=> gate' = t,
         gate' = gate \/ (gate \in {t, NoTask} /\ gate' \in {t, NoTask}),
         UNCHANGED <<made, calls, running, lastId, queued, restarts>>,
         live'.generation = live.generation,
         rows' \subseteq rows, server' \in [Account -> SUBSET Game], tried' \subseteq Game
  PROVE  OInv'
<1>1. t \notin running /\ (t \in Caller => In(t, "idle")) BY Working
<1>2. t \notin running' /\ (t \in Caller => In(t, "idle")')
      /\ \A c \in Caller : In(c, "idle") => In(c, "idle")'
      BY <1>1 DEF In
<1>3. IsFiniteSet(rows') BY FS_Subset DEF OInv
<1>4. rows' \subseteq Row /\ \A r \in rows' : r.id <= lastId' BY DEF OInv, TypeOK, Known
<1>5. lastId' \in Nat /\ queued' \subseteq Game /\ running' \subseteq running
      BY DEF OInv, TypeOK
<1> QED BY <1>2, <1>3, <1>4, <1>5, TaskMoves

\* The end of a flush.
LEMMA StopKeeps ==
  ASSUME OInv, SInv', NEW t \in Task, tasks[t].step \in InFlush,
         tasks' = [tasks EXCEPT ![t] = NotStarted], gate' = NoTask,
         UNCHANGED <<made, calls, running, lastId, rows, queued, restarts>>,
         live'.generation = live.generation,
         server' \in [Account -> SUBSET Game], tried' \subseteq Game
  PROVE  OInv'
<1>1. gate = t /\ t # NoTask BY OutboxAssumption DEF OInv, Holder, Task
<1>2. Fits(t, NotStarted) /\ NotStarted.step \notin InFlush
      BY NotStartedTyped DEF Fits, Sending, InFlush
<1>3. tasks[t].step # "idle" BY DEF InFlush
<1> QED BY <1>1, <1>2, <1>3, NotStartedTyped, FlushMoves

\* What Answered and Lost add to a server.
LEMMA ServerTyped ==
  ASSUME OInv, NEW t \in Task, tasks[t].step \in Sending,
         NEW some \in SUBSET tasks[t].batch,
         server' = [server EXCEPT ![AccountOf(t)] = @ \cup Sessions(some)]
  PROVE  /\ AccountOf(t) \in Account
         /\ server' \in [Account -> SUBSET Game]
         /\ Sessions(some) \subseteq server'[AccountOf(t)]
         /\ \A a \in Account : server[a] \subseteq server'[a]
<1>1. AccountOf(t) \in Account
      BY DEF OInv, Holder, SInv, SessionTypeOK, AccountOf
<1>2. Sessions(some) \subseteq Game
      BY FlushTyped DEF OInv, Sessions
<1>3. server \in [Account -> SUBSET Game] BY DEF OInv, TypeOK
<1> HIDE DEF AccountOf
<1> QED BY <1>1, <1>2, <1>3

LEMMA TakeClientKeeps ==
  ASSUME OInv, SInv', NEW t \in Task, TakeClient(t)
  PROVE  OInv'
<1>1. /\ tasks[t] \in Flush /\ tasks \in [Task -> Flush] /\ Sessions(rows) \subseteq Game
      /\ tried \subseteq Game
      BY FlushTyped DEF OInv, TypeOK
<1>2. /\ tasks[t].step = "client" /\ tasks[t].after = 0 /\ gate # t
      BY DEF TakeClient, On, OInv, Holder, InFlush
<1>3. UNCHANGED <<made, calls, live, running, lastId, rows, queued, restarts, gate, server>>
      BY DEF TakeClient, sessionVars
<1>4. server' \in [Account -> SUBSET Game] BY <1>3 DEF OInv, TypeOK
<1>5. CASE live.client = NoAccount
  <2>1. tasks' = [tasks EXCEPT ![t] = NotStarted] /\ tried' \subseteq Game
        BY <1>1, <1>5 DEF TakeClient
  <2>2. Fits(t, NotStarted) /\ NotStarted.step \notin InFlush
        BY NotStartedTyped DEF Fits, Sending, InFlush
  <2> QED BY <1>2, <1>3, <1>4, <2>1, <2>2, NotStartedTyped, FlushMoves
<1>6. CASE live.client # NoAccount
  <2> DEFINE flush == [tasks[t] EXCEPT !.step = "gate", !.gen = live.generation]
  <2>1. /\ live.generation \in 1 .. MaxGen /\ live.generation \in 0 .. MaxGen
        /\ made[live.generation] # NoAccount
        BY <1>6 DEF OInv, SInv, SessionTypeOK, Mine
  <2>2. flush \in Flush /\ flush.step = "gate" /\ flush.gen = live.generation /\ flush.after = 0
    <3>1. flush \in Flush BY <1>1, <2>1 DEF Flush
    <3> QED BY <1>1, <1>2, <3>1 DEF Flush
  <2>3. tasks' = [tasks EXCEPT ![t] = flush] /\ tried' \subseteq Game
        BY <1>1, <1>6 DEF TakeClient
  <2> HIDE DEF flush
  <2>4. Fits(t, flush) /\ flush.step \notin InFlush BY <2>1, <2>2 DEF Fits, InFlush
  <2> QED BY <1>2, <1>3, <1>4, <2>2, <2>3, <2>4, FlushMoves
<1> QED BY <1>5, <1>6

LEMMA EnterKeeps ==
  ASSUME OInv, SInv', NEW t \in Task, Enter(t)
  PROVE  OInv'
<1>1. tasks[t] \in Flush /\ tasks \in [Task -> Flush] /\ Sessions(rows) \subseteq Game
      BY FlushTyped DEF OInv
<1> DEFINE flush == [tasks[t] EXCEPT !.step = "read", !.owes = Sessions(rows)]
<1>2. /\ flush \in Flush /\ flush.step = "read" /\ flush.gen = tasks[t].gen
      /\ tasks' = [tasks EXCEPT ![t] = flush]
      BY <1>1 DEF Flush, InFlush, Enter
<1>3. tasks[t].step = "gate" /\ gate = NoTask /\ gate' = t BY DEF Enter, On
<1> HIDE DEF flush
<1>4. Fits(t, flush) /\ flush.step \in InFlush
      BY <1>2, <1>3 DEF Fits, InFlush, Sending, OInv, Holder, AccountOf
<1>5. UNCHANGED <<made, calls, live, running, lastId, rows, queued, restarts, server, tried>>
      BY DEF Enter, sessionVars
<1> QED BY <1>2, <1>3, <1>4, <1>5, FlushMoves DEF OInv, TypeOK

\* The greatest of finitely many numbers.
LEMMA LeastNumber ==
  ASSUME NEW T \in SUBSET Nat, T # {}
  PROVE  \E x \in T : \A y \in T : x <= y
<1> DEFINE R == OpToRel(<, Nat)
<1>1. IsWellFoundedOn(R, Nat) BY NatLessThanWellFounded
<1>2. \A x, y \in T : <<y, x>> \in R <=> y < x BY DEF OpToRel
<1> HIDE DEF R
<1>3. PICK x \in T : \A y \in T : <<y, x>> \notin R BY <1>1, WFMin
<1>4. \A y \in T : ~(y < x) BY <1>2, <1>3
<1>5. \A y \in T : x <= y
  <2> TAKE y \in T
  <2>1. x \in Nat /\ y \in Nat OBVIOUS
  <2> QED BY <1>4, <2>1
<1> QED BY <1>5

LEMMA GreatestNumber ==
  ASSUME NEW n \in Nat, NEW T \in SUBSET Nat, T # {}, \A x \in T : x <= n
  PROVE  \E x \in T : \A y \in T : y <= x
<1> DEFINE U == {k \in Nat : \A x \in T : x <= k}
<1>1. n \in U OBVIOUS
<1>2. PICK u \in U : \A v \in U : u <= v BY <1>1, LeastNumber
<1>3. u \in Nat /\ \A x \in T : x <= u OBVIOUS
<1>4. CASE u \in T BY <1>3, <1>4
<1>5. CASE u \notin T
  <2>1. \A x \in T : x \in Nat /\ x < u BY <1>3, <1>5
  <2>2. PICK x \in T : TRUE OBVIOUS
  <2>3. u # 0 BY <2>1, <2>2
  <2>4. u - 1 \in Nat /\ \A y \in T : y <= u - 1 BY <1>3, <2>1, <2>3
  <2>5. u - 1 \in U BY <2>4
  <2> QED BY <1>2, <1>3, <2>5
<1> QED BY <1>4, <1>5

\* How far a pass that reads a batch has come.
After(after, batch) ==
    CHOOSE n \in {after} \cup {r.id : r \in batch} : \A r \in batch : n >= r.id

\* A page holds the next rows, without a gap, and is empty only at the end.
LEMMA NoGap ==
  ASSUME OInv, NEW after \in Nat
  PROVE  /\ After(after, Page(after)) \in Nat
         /\ \A r \in rows : r.id > after =>
               /\ Page(after) # {}
               /\ r \in Page(after) \/ r.id > After(after, Page(after))
<1> DEFINE later == {r \in rows : r.id > after}
           Before(r) == {q \in later : q.id < r.id}
           batch == Page(after)
           ids == {r.id : r \in batch}
           n == After(after, batch)
<1>1. BatchSize \in Nat /\ BatchSize > 0 /\ lastId \in Nat
      BY OutboxAssumption DEF OInv, TypeOK
<1>2. rows \subseteq Row /\ IsFiniteSet(rows) /\ \A r \in rows : r.id \in Nat /\ r.id <= lastId
      BY DEF OInv, TypeOK, Known, Row
<1>3. batch = {r \in later : Cardinality(Before(r)) < BatchSize} BY DEF Page
<1>4. later \subseteq rows /\ IsFiniteSet(later) BY <1>2, FS_Subset
<1>5. ASSUME NEW r \in later
      PROVE  IsFiniteSet(Before(r)) /\ Cardinality(Before(r)) \in Nat
  <2>1. Before(r) \in SUBSET later OBVIOUS
  <2> HIDE DEF later, Before
  <2> QED BY <1>4, <2>1, FS_Subset, FS_CardinalityType
<1>6. batch \subseteq later BY <1>3
<1>7. ids \subseteq Nat /\ \A x \in ids : x <= lastId BY <1>2, <1>4, <1>6
<1>8. n \in {after} \cup ids /\ \A r \in batch : n >= r.id
  <2>1. \E x \in {after} \cup ids : \A r \in batch : x >= r.id
    <3>1. CASE batch = {} BY <3>1
    <3>2. CASE batch # {}
      <4>1. ids # {} BY <3>2
      <4> HIDE DEF ids
      <4>2. PICK x \in ids : \A y \in ids : y <= x BY <1>1, <1>7, <4>1, GreatestNumber
      <4>3. \A r \in batch : r.id \in ids /\ r.id \in Nat /\ x \in Nat BY <1>7, <4>2 DEF ids
      <4> QED BY <4>2, <4>3
    <3> QED BY <3>1, <3>2
  <2> HIDE DEF batch
  <2> QED BY <2>1 DEF After
<1>9. n \in Nat BY <1>7, <1>8
<1>10. ASSUME NEW r \in rows, r.id > after PROVE batch # {}
  <2> DEFINE lids == {q.id : q \in later}
  <2>1. lids \subseteq Nat /\ lids # {} BY <1>2, <1>4, <1>10
  <2> HIDE DEF lids
  <2>2. PICK x \in lids : \A y \in lids : x <= y BY <2>1, LeastNumber
  <2>3. PICK q \in later : q.id = x BY <2>2 DEF lids
  <2>4. Before(q) = {}
    <3> SUFFICES ASSUME NEW z \in Before(q) PROVE FALSE OBVIOUS
    <3>1. z \in later /\ z.id < q.id /\ z.id \in lids BY DEF lids
    <3>2. z.id \in Nat /\ q.id \in Nat BY <1>2, <1>4, <3>1
    <3> QED BY <2>2, <2>3, <3>1, <3>2
  <2>5. Cardinality(Before(q)) = 0 BY <2>4, FS_EmptySet
  <2> HIDE DEF later, Before, batch
  <2> QED BY <1>1, <1>3, <2>3, <2>5
<1>11. ASSUME NEW r \in rows, r.id > after, r \notin batch PROVE r.id > n
  <2>1. r \in later /\ r.id \in Nat BY <1>2, <1>11
  <2>2. ASSUME NEW q \in batch PROVE q.id < r.id
    <3>1. q \in later /\ q.id \in Nat BY <1>2, <1>4, <1>6
    <3>2. Cardinality(Before(q)) < BatchSize /\ ~(Cardinality(Before(r)) < BatchSize)
      <4> HIDE DEF later, Before, batch
      <4> QED BY <1>3, <1>11, <2>1, <2>2
    <3>3. SUFFICES ASSUME q.id >= r.id PROVE FALSE BY <2>1, <3>1
    <3>4. Before(r) \subseteq Before(q)
      <4> SUFFICES ASSUME NEW z \in Before(r) PROVE z.id < q.id OBVIOUS
      <4>1. z \in rows /\ z.id < r.id /\ z.id \in Nat BY <1>2, <1>4
      <4> QED BY <2>1, <3>1, <3>3, <4>1
    <3>5. Cardinality(Before(r)) <= Cardinality(Before(q))
      <4> HIDE DEF Before
      <4> QED BY <1>5, <3>1, <3>4, FS_Subset
    <3>6. Cardinality(Before(r)) \in Nat /\ Cardinality(Before(q)) \in Nat BY <1>5, <2>1, <3>1
    <3> HIDE DEF Before
    <3> QED BY <1>1, <3>2, <3>5, <3>6
  <2>3. n = after \/ \E q \in batch : n = q.id BY <1>8
  <2> QED BY <1>11, <2>2, <2>3
<1> QED BY <1>9, <1>10, <1>11

\* A read as a change of one task.
ReadOn(t) ==
    LET batch == Page(tasks[t].after)
    IN  [tasks[t] EXCEPT !.step = IF batch = {} THEN "leave" ELSE "post",
                         !.batch = batch, !.after = After(tasks[t].after, batch)]

LEMMA ReadMoves ==
  ASSUME OInv, NEW t \in Task, Read(t)
  PROVE  /\ tasks' = [tasks EXCEPT ![t] = ReadOn(t)]
         /\ tasks'[t] = ReadOn(t)
         /\ ReadOn(t).step = IF Page(tasks[t].after) = {} THEN "leave" ELSE "post"
         /\ ReadOn(t).batch = Page(tasks[t].after)
         /\ ReadOn(t).after = After(tasks[t].after, Page(tasks[t].after))
         /\ ReadOn(t).gen = tasks[t].gen /\ ReadOn(t).owes = tasks[t].owes
         /\ ReadOn(t) \in Flush
<1> DEFINE batch == Page(tasks[t].after)
           step == IF batch = {} THEN "leave" ELSE "post"
           after == After(tasks[t].after, batch)
           flush == [tasks[t] EXCEPT !.step = step, !.batch = batch, !.after = after]
<1>1. tasks[t] \in Flush /\ tasks \in [Task -> Flush] BY FlushTyped DEF OInv
<1>2. tasks[t].after \in Nat BY <1>1 DEF Flush
<1>3. batch \subseteq Row /\ after \in Nat BY <1>2, NoGap, PageTyped DEF OInv
<1>4. tasks' = [tasks EXCEPT ![t] = flush]
  <2>1. tasks' = [tasks EXCEPT ![t].step = step, ![t].batch = batch, ![t].after = after]
        BY DEF Read, After
  <2>2. ASSUME NEW a, NEW b, NEW n
        PROVE  [tasks EXCEPT ![t].step = a, ![t].batch = b, ![t].after = n]
               = [tasks EXCEPT ![t] = [tasks[t] EXCEPT !.step = a, !.batch = b, !.after = n]]
        BY <1>1
  <2> HIDE DEF step, batch, after
  <2> QED BY <2>1, <2>2
<1>5. ReadOn(t) = flush BY DEF ReadOn
<1>6. step \in {"leave", "post"} OBVIOUS
<1> HIDE DEF after, batch, step
<1>7. /\ flush.step = step /\ flush.batch = batch /\ flush.after = after
      /\ flush.gen = tasks[t].gen /\ flush.owes = tasks[t].owes /\ flush \in Flush
  <2>1. flush \in Flush BY <1>1, <1>3, <1>6 DEF Flush, InFlush
  <2> QED BY <1>1, <2>1 DEF Flush
<1>8. tasks'[t] = flush
  <2> HIDE DEF flush
  <2> QED BY <1>1, <1>4
<1> HIDE DEF flush
<1> QED BY <1>4, <1>5, <1>7, <1>8 DEF batch, step, after

LEMMA ReadKeeps ==
  ASSUME OInv, SInv', NEW t \in Task, Read(t)
  PROVE  OInv'
<1>1. /\ ReadOn(t) \in Flush /\ ReadOn(t).gen = tasks[t].gen
      /\ ReadOn(t).step \in {"leave", "post"}
      /\ tasks' = [tasks EXCEPT ![t] = ReadOn(t)]
      BY ReadMoves
<1>2. tasks[t].step = "read" BY DEF Read, On
<1>3. Fits(t, ReadOn(t)) /\ ReadOn(t).step \in InFlush /\ gate = t
      BY <1>1, <1>2 DEF Fits, InFlush, Sending, OInv, Holder, AccountOf
<1>4. UNCHANGED <<made, calls, live, running, lastId, rows, queued, restarts, server, tried, gate>>
      BY DEF Read, sessionVars
<1> QED BY <1>1, <1>2, <1>3, <1>4, FlushMoves DEF OInv, TypeOK

LEMMA AnsweredKeeps ==
  ASSUME OInv, SInv', NEW t \in Task, Answered(t)
  PROVE  OInv'
<1>1. tasks[t] \in Flush /\ tasks \in [Task -> Flush] /\ Sessions(tasks[t].batch) \subseteq Game
      BY FlushTyped DEF OInv
<1>2. tasks[t].step = "post" /\ tasks[t].step \in Sending BY DEF Answered, On, Sending, InFlush
<1>3. PICK settled \in SUBSET tasks[t].batch :
         /\ server' = [server EXCEPT ![AccountOf(t)] = @ \cup Sessions(settled)]
         /\ tasks' = [tasks EXCEPT ![t].step = IF settled = {} THEN "read" ELSE "delete",
                                   ![t].batch = settled]
         /\ tried' = IF tasks[t].gen = live.generation
                     THEN tried \cup Sessions(tasks[t].batch \ settled) ELSE tried
      BY DEF Answered
<1> DEFINE step == IF settled = {} THEN "read" ELSE "delete"
           flush == [tasks[t] EXCEPT !.step = step, !.batch = settled]
<1>4. tasks' = [tasks EXCEPT ![t] = flush] BY <1>1, <1>3
<1>5. /\ flush \in Flush /\ flush.step \in {"read", "delete"} /\ flush.gen = tasks[t].gen
  <2>1. settled \subseteq Row BY <1>1 DEF Flush
  <2>2. flush \in Flush BY <1>1, <2>1 DEF Flush, InFlush
  <2> QED BY <1>1, <2>2 DEF Flush
<1> HIDE DEF flush
<1>6. Fits(t, flush) /\ flush.step \in InFlush /\ gate = t
      BY <1>2, <1>5 DEF Fits, InFlush, Sending, OInv, Holder, AccountOf
<1>7. server' \in [Account -> SUBSET Game] BY <1>2, <1>3, ServerTyped
<1>8. tried' \subseteq Game BY <1>1, <1>3 DEF OInv, TypeOK, Sessions
<1>9. UNCHANGED <<made, calls, live, running, lastId, rows, queued, restarts, gate>>
      BY DEF Answered, sessionVars
<1> QED BY <1>2, <1>4, <1>5, <1>6, <1>7, <1>8, <1>9, FlushMoves

\* What Stop adds to what was tried.
LEMMA StopTyped ==
  ASSUME OInv, NEW t \in Task, Stop(t)
  PROVE  /\ tried' \subseteq Game /\ tasks' = [tasks EXCEPT ![t] = NotStarted]
         /\ gate' = NoTask
<1>1. tasks[t].owes \subseteq Game BY FlushTyped DEF OInv, Flush
<1> QED BY <1>1 DEF Stop, OInv, TypeOK

LEMMA LostKeeps ==
  ASSUME OInv, SInv', NEW t \in Task, Lost(t)
  PROVE  OInv'
<1>1. tasks[t].step = "post" /\ tasks[t].step \in Sending /\ tasks[t].step \in InFlush
      BY DEF Lost, On, Sending, InFlush
<1>2. tried' \subseteq Game /\ tasks' = [tasks EXCEPT ![t] = NotStarted] /\ gate' = NoTask
      BY StopTyped DEF Lost
<1>3. UNCHANGED <<made, calls, running, lastId, rows, queued, restarts>> BY DEF Lost
<1>4. live'.generation = live.generation
      BY DEF Lost, Hook, OInv, SInv, SessionTypeOK
<1>5. server' \in [Account -> SUBSET Game]
  <2>1. CASE UNCHANGED server BY <2>1 DEF OInv, TypeOK
  <2>2. ASSUME NEW arrived \in SUBSET tasks[t].batch,
               server' = [server EXCEPT ![AccountOf(t)] = @ \cup Sessions(arrived)]
        PROVE  server' \in [Account -> SUBSET Game]
        BY <1>1, <2>2, ServerTyped
  <2> QED BY <2>1, <2>2 DEF Lost
<1> QED BY <1>1, <1>2, <1>3, <1>4, <1>5, StopKeeps

LEMMA DeleteKeeps ==
  ASSUME OInv, SInv', NEW t \in Task, Delete(t)
  PROVE  OInv'
<1>1. tasks[t] \in Flush /\ tasks \in [Task -> Flush] BY FlushTyped DEF OInv
<1> DEFINE flush == [tasks[t] EXCEPT !.step = "read"]
<1>2. /\ flush \in Flush /\ flush.step = "read" /\ flush.gen = tasks[t].gen
      /\ tasks' = [tasks EXCEPT ![t] = flush]
      BY <1>1 DEF Flush, InFlush, Delete, Goto
<1> HIDE DEF flush
<1>3. tasks[t].step = "delete" BY DEF Delete, On
<1>4. Fits(t, flush) /\ flush.step \in InFlush /\ gate = t
      BY <1>2, <1>3 DEF Fits, InFlush, Sending, OInv, Holder, AccountOf
<1>5. UNCHANGED <<made, calls, live, running, lastId, queued, restarts, server, tried, gate>>
      /\ rows' \subseteq rows
      BY DEF Delete, sessionVars
<1> QED BY <1>2, <1>3, <1>4, <1>5, FlushMoves DEF OInv, TypeOK

LEMMA EndKeeps ==
  ASSUME OInv, SInv', NEW t \in Task, RegistryFails(t) \/ Leave(t)
  PROVE  OInv'
<1>1. tasks[t].step \in InFlush BY DEF RegistryFails, Leave, On, InFlush
<1>2. tried' \subseteq Game /\ tasks' = [tasks EXCEPT ![t] = NotStarted] /\ gate' = NoTask
      BY StopTyped DEF RegistryFails, Leave, OInv, TypeOK
<1>3. UNCHANGED <<made, calls, live, running, lastId, rows, queued, restarts, server>>
      BY DEF RegistryFails, Leave, sessionVars
<1> QED BY <1>1, <1>2, <1>3, StopKeeps DEF OInv, TypeOK

LEMMA FlushKeeps ==
  ASSUME OInv, SInv', NEW t \in Task, FlushStep(t)
  PROVE  OInv'
BY TakeClientKeeps, EnterKeeps, ReadKeeps, AnsweredKeeps, LostKeeps, DeleteKeeps, EndKeeps
   DEF FlushStep

\* What the session's own steps may change.
LEMMA SessionMoves ==
  ASSUME SInv, SessionActs
  PROVE  /\ live'.generation >= live.generation
         /\ \A g \in 1 .. MaxGen : g <= live.generation => made'[g] = made[g]
         /\ \A c \in Caller : calls'[c] # calls[c] => On(c, "idle")
<1>1. ASSUME NEW c \in Caller, On(c, "idle"), SessionStep(c)
      PROVE  /\ live'.generation >= live.generation
             /\ \A g \in 1 .. MaxGen : g <= live.generation => made'[g] = made[g]
             /\ \A o \in Caller : o # c => calls'[o] = calls[o]
  <2>1. live.generation \in Nat /\ live.generation + 1 > live.generation
        /\ made \in [1 .. MaxGen -> Account \cup {NoAccount}]
        /\ calls = [o \in Caller |-> calls[o]]
        BY DEF SInv, SessionTypeOK
  <2>2. \A o \in Caller : o # c => calls'[o] = calls[o]
        BY <1>1, <2>1 DEF SessionStep, Connect, LoadConfig, LoadCredential, SaveConfig,
           SaveCredential, CallFails, Install, Disconnect, ClearCredential, Move, Return
  <2>3. CASE Install(c)
    <3>1. /\ live'.generation = live.generation + 1
          /\ made' = [made EXCEPT ![live.generation + 1] = calls[c].cred]
          BY <2>3 DEF Install
    <3>2. \A g \in 1 .. MaxGen : g <= live.generation => g # live.generation + 1 BY <2>1
    <3> QED BY <2>1, <2>2, <3>1, <3>2
  <2>4. CASE Disconnect(c)
    <3>1. live'.generation = live.generation + 1 /\ UNCHANGED made BY <2>4 DEF Disconnect
    <3> QED BY <2>1, <2>2, <3>1
  <2>5. CASE ~Install(c) /\ ~Disconnect(c)
    <3>1. UNCHANGED <<live, made>>
          BY <1>1, <2>5 DEF SessionStep, Connect, LoadConfig, LoadCredential, SaveConfig,
             SaveCredential, CallFails, ClearCredential
    <3> QED BY <2>1, <2>2, <3>1
  <2> QED BY <2>3, <2>4, <2>5
<1>2. ASSUME NEW g \in 1 .. MaxGen, Unauthorized(g)
      PROVE  live'.generation = live.generation /\ UNCHANGED <<made, calls>>
      BY <1>2 DEF Unauthorized, Hook, SInv, SessionTypeOK
<1>3. live.generation \in Nat BY DEF SInv, SessionTypeOK
<1>4. CASE \E c \in Caller : On(c, "idle") /\ SessionStep(c) BY <1>1, <1>3, <1>4
<1>5. CASE \E g \in 1 .. MaxGen : Unauthorized(g) BY <1>2, <1>3, <1>5
<1> QED BY <1>4, <1>5 DEF SessionActs

\* A command moves only when its last flush is over.
LEMMA SessionActsKeeps ==
  ASSUME OInv, SInv', SessionActs
  PROVE  OInv'
<1>1. UNCHANGED <<running, rows, lastId, server, gate, tasks, restarts, queued>>
      /\ tried' \subseteq Game
      BY DEF SessionActs, OInv, TypeOK
<1>2. TypeOK' BY <1>1 DEF OInv, TypeOK, SInv
<1>3. /\ live'.generation >= live.generation
      /\ \A g \in 1 .. MaxGen : g <= live.generation => made'[g] = made[g]
      /\ \A c \in Caller : calls'[c] # calls[c] => On(c, "idle")
      BY SessionMoves DEF OInv
<1>6. \A c \in Caller : ~In(c, "idle")' => On(c, "idle")
  <2> SUFFICES ASSUME NEW c \in Caller, ~In(c, "idle")', ~On(c, "idle") PROVE FALSE OBVIOUS
  <2>1. In(c, "idle") BY DEF OInv, Apart
  <2>2. calls'[c] # calls[c] BY <2>1 DEF In
  <2> QED BY <1>3, <2>2
<1>7. Holder'
  <2> SUFFICES ASSUME NEW t \in Task, tasks[t].step \in Sending
               PROVE  /\ tasks[t].gen \in 1 .. MaxGen /\ tasks[t].gen <= live'.generation
                      /\ made'[tasks[t].gen] # NoAccount
      BY <1>1 DEF OInv, Holder, AccountOf
  <2>1. tasks[t].gen \in 1 .. MaxGen /\ tasks[t].gen <= live.generation
        /\ made[tasks[t].gen] # NoAccount
        BY DEF OInv, Holder, AccountOf
  <2>2. live.generation \in Nat /\ live'.generation \in Nat
        BY DEF OInv, SInv, SessionTypeOK
  <2> QED BY <1>3, <2>1, <2>2
<1>8. Apart' BY <1>1, <1>6 DEF OInv, Apart, On
<1> QED BY <1>1, <1>2, <1>7, <1>8 DEF OInv, Known

LEMMA RestartsKeep ==
  ASSUME OInv, SInv', Restart
  PROVE  OInv'
<1>1. UNCHANGED <<rows, lastId, server, queued>> /\ running' = {} /\ tried' = {} /\ gate' = NoTask
      /\ tasks' = [t \in Task |-> NotStarted]
      BY DEF Restart
<1>2. tasks' \in [Task -> Flush] /\ \A t \in Task : tasks'[t] = NotStarted /\ t # NoTask
      BY <1>1, NotStartedTyped, OutboxAssumption DEF Task
<1>3. restarts' \in 0 .. MaxRestarts BY OutboxAssumption DEF Restart, OInv, TypeOK
<1>4. TypeOK' BY <1>1, <1>2, <1>3 DEF OInv, TypeOK, SInv, Flush
<1>5. Holder' BY <1>1, <1>2, NotStartedTyped DEF Holder, Sending, InFlush
<1>6. Apart'
  <2>1. \A c \in Caller : c \in Task BY DEF Task
  <2> QED BY <1>1, <1>2, <2>1, NotStartedTyped DEF Apart, On
<1> QED BY <1>1, <1>4, <1>5, <1>6 DEF OInv, Known

LEMMA OInvKeeps ==
  ASSUME OInv, [Next]_vars
  PROVE  OInv'
<1>1. SInv' BY SInvStays
<1>2. CASE UNCHANGED vars
  <2>1. UNCHANGED sessionVars /\ UNCHANGED outboxVars BY <1>2 DEF vars
  <2> QED BY <1>1, <2>1 DEF sessionVars, outboxVars, OInv, TypeOK, SInv, Holder, Apart, Known, On,
             In, AccountOf
<1> QED BY <1>1, <1>2, EnqueueKeeps, GameEndsKeeps, SpawnKeeps, FlushKeeps, SessionActsKeeps,
           RestartsKeep DEF Next

LEMMA InitHolds == Init => OInv
<1> SUFFICES ASSUME Init PROVE OInv OBVIOUS
<1>1. SInv BY SessionInitHolds DEF Init
<1>2. tasks \in [Task -> Flush] /\ \A t \in Task : tasks[t] = NotStarted /\ t # NoTask
      BY NotStartedTyped, OutboxAssumption DEF Init, Task
<1>3. TypeOK BY <1>1, <1>2, OutboxAssumption DEF Init, TypeOK, SInv, Flush
<1>4. Holder BY <1>2, NotStartedTyped DEF Init, Holder, Sending, InFlush
<1>5. Apart
  <2>1. \A c \in Caller \cup Game : c \in Task BY DEF Task
  <2> QED BY <1>2, <2>1, NotStartedTyped DEF Init, Apart, On
<1> QED BY <1>1, <1>3, <1>4, <1>5, FS_EmptySet DEF Init, OInv, Known

THEOREM OutboxInvariant == Spec => []OInv
  BY InitHolds, OInvKeeps, PTL DEF Spec

\* Everything is of the kind it should be (session.rs, play_activity.rs,
\* play_session_service.rs, the outbox of registry.rs).
THEOREM TypeCorrect == Spec => []TypeOK
  BY OutboxInvariant, PTL DEF OInv

\* However many requests are answered 401, and however late, the frontend is
\* told once per client, and then the client is gone (session.rs:56).
THEOREM ToldAtMostOnce == Spec => []ToldOnce
<1>1. OInv => ToldOnce BY DEF OInv, SInv
<1> QED BY <1>1, OutboxInvariant, PTL

\* Only a disconnect, a newer client, a restart or a 401 of its own ends the
\* session of a client (session.rs:92-94).
THEOREM NoForeignEnd == Spec => EndsByItsOwnHand
<1> DEFINE Own == live.client # NoAccount /\ live' # live =>
          \/ live'.generation # live.generation
          \/ /\ live' = [live EXCEPT !.client = NoAccount]
             /\ told'[live.generation] = told[live.generation] + 1
             /\ made[live.generation] = live.client
<1>1. OInv /\ [Next]_vars => [Own]_sessionVars
  <2> SUFFICES ASSUME OInv, Next, live.client # NoAccount, live' # live PROVE Own
      BY DEF vars, sessionVars
  <2>1. /\ live.generation \in Nat /\ live.generation > 0
        /\ live.generation + 1 # live.generation
        /\ made[live.generation] = live.client /\ live.generation \in 1 .. MaxGen
        /\ told \in [1 .. MaxGen -> Nat]
        BY DEF OInv, SInv, SessionTypeOK, Mine
  <2>2. ASSUME NEW g \in 1 .. MaxGen, Hook(g) PROVE Own BY <2>1, <2>2 DEF Hook
  <2>3. ASSUME NEW t \in Task, FlushStep(t) PROVE Own
    <3>1. CASE Lost(t)
      <4>1. tasks[t].gen \in 1 .. MaxGen
            BY <3>1 DEF Lost, On, OInv, Holder, Sending, InFlush
      <4>2. Hook(tasks[t].gen) BY <3>1 DEF Lost
      <4> HIDE DEF Own
      <4> QED BY <2>2, <4>1, <4>2
    <3>2. CASE ~Lost(t)
      <4>1. UNCHANGED live
            BY <2>3, <3>2 DEF FlushStep, TakeClient, Enter, Read, Answered, Delete,
               RegistryFails, Leave, sessionVars
      <4> QED BY <4>1
    <3> QED BY <3>1, <3>2
  <2>4. CASE SessionActs
    <3>1. ASSUME NEW c \in Caller, SessionStep(c) PROVE Own
      <4>1. UNCHANGED live \/ live'.generation = live.generation + 1
            BY <3>1 DEF SessionStep, Connect, LoadConfig, LoadCredential, SaveConfig,
               SaveCredential, CallFails, Install, Disconnect, ClearCredential
      <4> QED BY <2>1, <4>1
    <3>2. ASSUME NEW g \in 1 .. MaxGen, Unauthorized(g) PROVE Own
      BY <2>2, <3>2 DEF Unauthorized
    <3> HIDE DEF Own
    <3> QED BY <2>4, <3>1, <3>2 DEF SessionActs
  <2>5. CASE Restart BY <2>1, <2>5 DEF Restart, SessionRestart
  <2>6. ASSUME \/ \E s \in Game : Enqueue(s) \/ \E counts \in BOOLEAN : GameEnds(s, counts)
               \/ \E c \in Caller : SpawnFlush(c)
        PROVE  Own
        BY <2>6 DEF Enqueue, GameEnds, SpawnFlush, sessionVars
  <2> HIDE DEF Own
  <2> QED BY <2>3, <2>4, <2>5, <2>6 DEF Next
<1> QED BY <1>1, OutboxInvariant, PTL DEF Spec, EndsByItsOwnHand

-----------------------------------------------------------------------------
(* No session is lost before a server has it.                              *)

\* The account a pass sends to stays the one it took.
LEMMA AccountStays ==
  ASSUME OInv, [Next]_vars, NEW t \in Task,
         tasks[t].step \in Sending, tasks'[t].step \in Sending, tasks'[t].gen = tasks[t].gen
  PROVE  AccountOf(t)' = AccountOf(t)
<1>1. tasks[t].gen \in 1 .. MaxGen /\ tasks[t].gen <= live.generation
      BY DEF OInv, Holder
<1>2. CASE UNCHANGED made BY <1>2 DEF AccountOf
<1>3. CASE SessionActs BY <1>1, <1>3, SessionMoves DEF OInv, AccountOf
<1>4. CASE Restart
  <2>1. tasks'[t] = NotStarted BY <1>4 DEF Restart
  <2> QED BY <2>1 DEF NotStarted, Sending, InFlush
<1>5. CASE UNCHANGED vars BY <1>2, <1>5 DEF vars, sessionVars
<1>6. ASSUME NEW s \in Game, Enqueue(s) \/ \E counts \in BOOLEAN : GameEnds(s, counts)
      PROVE  UNCHANGED made
      BY <1>6 DEF Enqueue, GameEnds, sessionVars
<1>7. ASSUME NEW c \in Caller, SpawnFlush(c) PROVE UNCHANGED made BY <1>7 DEF SpawnFlush
<1>8. ASSUME NEW u \in Task, FlushStep(u) PROVE UNCHANGED made
      BY <1>8 DEF FlushStep, TakeClient, Enter, Read, Answered, Lost, Delete, RegistryFails,
         Leave, sessionVars
<1> QED BY <1>2, <1>3, <1>4, <1>5, <1>6, <1>7, <1>8 DEF Next

\* A server forgets nothing.
LEMMA ServersGrow ==
  ASSUME OInv, [Next]_vars, NEW a \in Account
  PROVE  server[a] \subseteq server'[a]
<1>1. CASE UNCHANGED server BY <1>1
<1>2. ASSUME NEW t \in Task, tasks[t].step \in Sending, NEW some \in SUBSET tasks[t].batch,
             server' = [server EXCEPT ![AccountOf(t)] = @ \cup Sessions(some)]
      PROVE  server[a] \subseteq server'[a]
      BY <1>2, ServerTyped
<1>3. ASSUME NEW t \in Task, FlushStep(t) PROVE server[a] \subseteq server'[a]
  <2>1. CASE Answered(t) \/ Lost(t)
    <3>1. tasks[t].step \in Sending BY <2>1 DEF Answered, Lost, On, Sending, InFlush
    <3>2. \/ UNCHANGED server
          \/ \E some \in SUBSET tasks[t].batch :
                server' = [server EXCEPT ![AccountOf(t)] = @ \cup Sessions(some)]
          BY <2>1 DEF Answered, Lost
    <3> QED BY <1>1, <1>2, <3>1, <3>2
  <2>2. CASE ~Answered(t) /\ ~Lost(t)
        BY <1>1, <1>3, <2>2 DEF FlushStep, TakeClient, Enter, Read, Delete, RegistryFails, Leave
  <2> QED BY <2>1, <2>2
<1>4. CASE UNCHANGED vars BY <1>1, <1>4 DEF vars, outboxVars
<1>5. ASSUME \/ \E s \in Game : Enqueue(s) \/ \E counts \in BOOLEAN : GameEnds(s, counts)
             \/ \E c \in Caller : SpawnFlush(c)
             \/ SessionActs \/ Restart
      PROVE  UNCHANGED server
      BY <1>5 DEF Enqueue, GameEnds, SpawnFlush, SessionActs, Restart
<1> QED BY <1>1, <1>3, <1>4, <1>5 DEF Next

\* A step of the outbox changes the task it is of, at most.
LEMMA OneTaskMoves ==
  ASSUME OInv, [Next]_vars, NEW t \in Task, tasks'[t] # tasks[t]
  PROVE  \/ t \in Game /\ (Enqueue(t) \/ \E counts \in BOOLEAN : GameEnds(t, counts))
         \/ t \in Caller /\ SpawnFlush(t)
         \/ FlushStep(t)
         \/ Restart
<1>1. tasks = [u \in Task |-> tasks[u]] BY DEF OInv, TypeOK
<1>2. ASSUME NEW u \in Task, FlushStep(u) PROVE u = t
      BY <1>1, <1>2 DEF FlushStep, TakeClient, Enter, Read, Answered, Lost, Delete,
         RegistryFails, Leave, Stop, Goto
<1>3. ASSUME NEW s \in Game, Enqueue(s) \/ \E counts \in BOOLEAN : GameEnds(s, counts)
      PROVE  s = t
      BY <1>1, <1>3 DEF Enqueue, GameEnds, Goto, Task
<1>4. ASSUME NEW c \in Caller, SpawnFlush(c) PROVE c = t
      BY <1>1, <1>4 DEF SpawnFlush, Goto, Task
<1>5. ~ UNCHANGED vars /\ ~SessionActs BY DEF vars, outboxVars, SessionActs
<1> QED BY <1>2, <1>3, <1>4, <1>5 DEF Next

\* Rows go by a deletion only.
LEMMA RowsGo ==
  ASSUME [Next]_vars, NEW r \in rows, r \notin rows'
  PROVE  \E t \in Task : Delete(t) /\ r \in tasks[t].batch
<1>1. ~ UNCHANGED vars /\ ~SessionActs /\ ~Restart
      BY DEF vars, outboxVars, SessionActs, Restart
<1>2. ~ \E s \in Game : Enqueue(s) \/ \E counts \in BOOLEAN : GameEnds(s, counts)
      BY DEF Enqueue, GameEnds
<1>3. ~ \E c \in Caller : SpawnFlush(c) BY DEF SpawnFlush
<1>4. PICK t \in Task : FlushStep(t) BY <1>1, <1>2, <1>3 DEF Next
<1>5. Delete(t) BY <1>4 DEF FlushStep, TakeClient, Enter, Read, Answered, Lost, RegistryFails, Leave
<1> QED BY <1>5 DEF Delete

LEMMA SettledKeeps ==
  ASSUME OInv, Settled, [Next]_vars
  PROVE  Settled'
<1> SUFFICES ASSUME NEW t \in Task, tasks'[t].step = "delete"
             PROVE  (Sessions(tasks[t].batch) \subseteq server[AccountOf(t)])'
    BY DEF Settled, On
<1>1. CASE tasks'[t] = tasks[t]
  <2>1. tasks[t].step \in Sending /\ tasks'[t].step \in Sending BY <1>1 DEF Sending, InFlush
  <2>2. AccountOf(t)' = AccountOf(t) BY <1>1, <2>1, AccountStays
  <2>3. AccountOf(t) \in Account
        BY <2>1 DEF OInv, Holder, SInv, SessionTypeOK, AccountOf
  <2>4. server[AccountOf(t)] \subseteq server'[AccountOf(t)] BY <2>3, ServersGrow
  <2>5. Sessions(tasks[t].batch) \subseteq server[AccountOf(t)] BY <1>1 DEF Settled, On
  <2>6. Sessions(tasks[t].batch)' = Sessions(tasks[t].batch) BY <1>1 DEF Sessions
  <2> QED BY <2>2, <2>4, <2>5, <2>6
<1>2. CASE tasks'[t] # tasks[t]
  <2>1. tasks[t] \in Flush /\ tasks \in [Task -> Flush] BY FlushTyped DEF OInv
  <2>2. Answered(t)
    <3>1. ~Restart BY DEF Restart, NotStarted
    <3>2. ~(t \in Caller /\ SpawnFlush(t)) BY <2>1 DEF SpawnFlush, Goto, Flush
    <3>3. ~(t \in Game /\ (Enqueue(t) \/ \E counts \in BOOLEAN : GameEnds(t, counts)))
          BY <1>2, <2>1 DEF Enqueue, GameEnds, Goto, Flush
    <3>4. FlushStep(t) BY <1>2, <3>1, <3>2, <3>3, OneTaskMoves
    <3>5. ~(TakeClient(t) \/ Enter(t) \/ Lost(t) \/ Delete(t) \/ RegistryFails(t) \/ Leave(t))
          BY <2>1 DEF TakeClient, Enter, Lost, Delete, RegistryFails, Leave, Stop, Goto, NotStarted,
                      Flush
    <3>6. ~Read(t)
      <4>1. Read(t) => tasks'[t].step \in {"leave", "post"} BY ReadMoves
      <4> QED BY <4>1
    <3> QED BY <3>4, <3>5, <3>6 DEF FlushStep
  <2>3. PICK settled \in SUBSET tasks[t].batch :
           /\ server' = [server EXCEPT ![AccountOf(t)] = @ \cup Sessions(settled)]
           /\ tasks' = [tasks EXCEPT ![t].step = IF settled = {} THEN "read" ELSE "delete",
                                     ![t].batch = settled]
        BY <2>2 DEF Answered
  <2>4. tasks[t].step \in Sending BY <2>2 DEF Answered, On, Sending, InFlush
  <2>5. Sessions(settled) \subseteq server'[AccountOf(t)] BY <2>3, <2>4, ServerTyped
  <2>6. tasks'[t].batch = settled /\ tasks'[t].gen = tasks[t].gen
        BY <2>1, <2>3 DEF Flush
  <2>7. AccountOf(t)' = AccountOf(t) BY <2>2, <2>6 DEF AccountOf, Answered, sessionVars
  <2>8. Sessions(tasks[t].batch)' = Sessions(settled) BY <2>6 DEF Sessions
  <2> QED BY <2>5, <2>7, <2>8
<1> QED BY <1>1, <1>2

LEMMA SettledAlways == Spec => [](OInv /\ Settled)
<1>1. Init => Settled
  <2>1. \A t \in Task : Init => tasks[t] = NotStarted BY DEF Init
  <2> QED BY <2>1 DEF Settled, On, NotStarted
<1>2. OInv /\ Settled /\ [Next]_vars => Settled' BY SettledKeeps
<1> QED BY <1>1, <1>2, OutboxInvariant, PTL DEF Spec

\* A pass deletes only what the server it talks to has settled (settle_batch).
THEOREM RowsGoByVerdict == Spec => GoesByItsVerdict
<1> DEFINE Verdict == \A r \in rows : r \notin rows' =>
          /\ gate # NoTask
          /\ r.session \in server[AccountOf(gate)]
<1>1. OInv /\ Settled /\ [Next]_vars => Verdict
  <2> SUFFICES ASSUME OInv, Settled, [Next]_vars, NEW r \in rows, r \notin rows'
               PROVE  gate # NoTask /\ r.session \in server[AccountOf(gate)]
      OBVIOUS
  <2>1. PICK t \in Task : Delete(t) /\ r \in tasks[t].batch BY RowsGo
  <2>2. tasks[t].step = "delete" /\ gate = t /\ t # NoTask
        BY <2>1, OutboxAssumption DEF Delete, On, OInv, Holder, InFlush, Task
  <2>3. r.session \in Sessions(tasks[t].batch) BY <2>1 DEF Sessions
  <2> QED BY <2>2, <2>3 DEF Settled, On
<1>2. OInv /\ Settled /\ [Next]_vars => [Verdict]_vars BY <1>1
<1> QED BY <1>2, SettledAlways, PTL DEF Spec, GoesByItsVerdict

\* What was queued is kept until a server has it or refuses it for good
\* (play_activity.rs:12-20).
THEOREM NothingQueuedIsLost == Spec => []KeptUntilSettled
<1>1. Init => KeptUntilSettled BY DEF Init, KeptUntilSettled
<1>2. OInv /\ Settled /\ KeptUntilSettled /\ [Next]_vars => KeptUntilSettled'
  <2> SUFFICES ASSUME OInv, Settled, KeptUntilSettled, [Next]_vars, NEW s \in queued'
               PROVE  s \in Sessions(rows)' \/ \E a \in Account : s \in server'[a]
      BY DEF KeptUntilSettled
  <2>1. CASE s \in queued
    <3>1. CASE \E a \in Account : s \in server[a] BY <3>1, ServersGrow
    <3>2. CASE s \in Sessions(rows)
      <4>1. PICK r \in rows : s = r.session BY <3>2 DEF Sessions
      <4>2. CASE r \in rows' BY <4>1, <4>2 DEF Sessions
      <4>3. CASE r \notin rows'
        <5>1. PICK t \in Task : Delete(t) /\ r \in tasks[t].batch BY <4>3, RowsGo
        <5>2. tasks[t].step = "delete" BY <5>1 DEF Delete, On
        <5>3. r.session \in server[AccountOf(t)] BY <5>1, <5>2 DEF Settled, On, Sessions
        <5>4. AccountOf(t) \in Account
              BY <5>2 DEF OInv, Holder, SInv, SessionTypeOK, AccountOf, Sending, InFlush
        <5> QED BY <4>1, <5>3, <5>4, ServersGrow
      <4> QED BY <4>2, <4>3
    <3> QED BY <2>1, <3>1, <3>2 DEF KeptUntilSettled
  <2>2. CASE s \notin queued
    <3>1. ~ UNCHANGED vars /\ ~SessionActs /\ ~Restart
          BY <2>2 DEF vars, outboxVars, SessionActs, Restart
    <3>2. ~ \E g \in Game, counts \in BOOLEAN : GameEnds(g, counts) BY <2>2 DEF GameEnds
    <3>3. ~ \E c \in Caller : SpawnFlush(c) BY <2>2 DEF SpawnFlush
    <3>4. ~ \E t \in Task : FlushStep(t)
          BY <2>2 DEF FlushStep, TakeClient, Enter, Read, Answered, Lost, Delete, RegistryFails,
             Leave
    <3>5. PICK g \in Game : Enqueue(g) BY <3>1, <3>2, <3>3, <3>4 DEF Next
    <3>6. s = g /\ rows' = IF g \in Sessions(rows) THEN rows
                           ELSE rows \cup {[id |-> lastId + 1, session |-> g]}
          BY <2>2, <3>5 DEF Enqueue
    <3>7. s \in Sessions(rows)'
      <4>1. CASE g \in Sessions(rows) BY <3>6, <4>1 DEF Sessions
      <4>2. CASE g \notin Sessions(rows)
        <5> DEFINE new == [id |-> lastId + 1, session |-> g]
        <5>1. new.session = g OBVIOUS
        <5>2. rows' = rows \cup {new} BY <3>6, <4>2
        <5> HIDE DEF new
        <5> QED BY <3>6, <5>1, <5>2 DEF Sessions
      <4> QED BY <4>1, <4>2
    <3> QED BY <3>7
  <2> QED BY <2>1, <2>2
<1> QED BY <1>1, <1>2, SettledAlways, PTL DEF Spec

-----------------------------------------------------------------------------
(* Every session has its try on every connection.                          *)

\* A step of one flush, as far as it concerns Carried.
LEMMA CarriedOn ==
  ASSUME OInv, Carried, NEW t \in Task, NEW flush \in Flush,
         tasks' = [tasks EXCEPT ![t] = flush],
         UNCHANGED <<calls, live>>, rows' \subseteq rows, tried \subseteq tried',
         \A r \in rows' : live.client # NoAccount /\ Carries(tasks[t], r) =>
                             r.session \in tried' \/ Carries(flush, r)
  PROVE  Carried'
<1>1. tasks \in [Task -> Flush] BY FlushTyped DEF OInv
<1>2. tasks'[t] = flush /\ \A u \in Task : u # t => tasks'[u] = tasks[u] BY <1>1
<1>3. SUFFICES ASSUME live.client # NoAccount, NEW r \in rows'
               PROVE  \/ r.session \in tried'
                      \/ \E c \in Caller : In(c, "jobs")
                      \/ \E u \in Task : Carries(tasks'[u], r)
      BY DEF Carried, Carries, In
<1>4. \/ r.session \in tried
      \/ \E c \in Caller : In(c, "jobs")
      \/ \E u \in Task : Carries(tasks[u], r)
      BY <1>3 DEF Carried
<1>5. ASSUME NEW u \in Task, Carries(tasks[u], r)
      PROVE  r.session \in tried' \/ \E v \in Task : Carries(tasks'[v], r)
  <2>1. CASE u = t BY <1>2, <1>3, <1>5, <2>1
  <2>2. CASE u # t BY <1>2, <1>5, <2>2
  <2> QED BY <2>1, <2>2
<1> QED BY <1>4, <1>5

\* A flush that is over, or gives up, carries nothing.
LEMMA NothingCarried ==
  \A r : ~Carries(NotStarted, r)
  BY DEF Carries, NotStarted

LEMMA TakeClientCarries ==
  ASSUME OInv, Carried, NEW t \in Task, TakeClient(t)
  PROVE  Carried'
<1>1. tasks[t] \in Flush /\ tasks \in [Task -> Flush] BY FlushTyped DEF OInv
<1>2. UNCHANGED <<calls, live, rows>> /\ tried \subseteq tried'
      BY DEF TakeClient, sessionVars
<1>3. CASE live.client = NoAccount BY <1>2, <1>3 DEF Carried
<1>4. CASE live.client # NoAccount
  <2> DEFINE flush == [tasks[t] EXCEPT !.step = "gate", !.gen = live.generation]
  <2>1. live.generation \in 0 .. MaxGen BY DEF OInv, SInv, SessionTypeOK
  <2>2. flush \in Flush BY <1>1, <2>1 DEF Flush
  <2>3. flush.step = "gate" /\ flush.gen = live.generation BY <1>1 DEF Flush
  <2>4. tasks' = [tasks EXCEPT ![t] = flush] BY <1>1, <1>4 DEF TakeClient
  <2> HIDE DEF flush
  <2>5. \A r : Carries(flush, r) BY <2>3 DEF Carries
  <2> QED BY <1>2, <2>2, <2>4, <2>5, CarriedOn
<1> QED BY <1>3, <1>4

LEMMA EnterCarries ==
  ASSUME OInv, Carried, NEW t \in Task, Enter(t)
  PROVE  Carried'
<1>1. tasks[t] \in Flush /\ tasks \in [Task -> Flush] /\ Sessions(rows) \subseteq Game
      BY FlushTyped DEF OInv
<1> DEFINE flush == [tasks[t] EXCEPT !.step = "read", !.owes = Sessions(rows)]
<1>2. tasks[t].step = "gate" /\ tasks[t].after = 0
      BY DEF Enter, On, OInv, Holder, InFlush
<1>3. flush \in Flush BY <1>1 DEF Flush, InFlush
<1>4. /\ flush.step = "read" /\ flush.owes = Sessions(rows)
      /\ flush.gen = tasks[t].gen /\ flush.after = 0
      BY <1>1, <1>2 DEF Flush
<1>5. tasks' = [tasks EXCEPT ![t] = flush] /\ UNCHANGED <<calls, live, rows, tried>>
      BY <1>1 DEF Enter, sessionVars
<1> HIDE DEF flush
<1>6. ASSUME NEW r \in rows, Carries(tasks[t], r) PROVE Carries(flush, r)
  <2>1. r.id > 0 BY DEF OInv, TypeOK, Row
  <2>2. r.session \in Sessions(rows) BY DEF Sessions
  <2>3. flush.gen = live.generation BY <1>2, <1>4, <1>6 DEF Carries
  <2> QED BY <1>4, <2>1, <2>2, <2>3 DEF Carries
<1> QED BY <1>3, <1>5, <1>6, CarriedOn

LEMMA ReadCarries ==
  ASSUME OInv, Carried, NEW t \in Task, Read(t)
  PROVE  Carried'
<1>1. /\ ReadOn(t) \in Flush /\ tasks' = [tasks EXCEPT ![t] = ReadOn(t)]
      /\ ReadOn(t).gen = tasks[t].gen /\ ReadOn(t).owes = tasks[t].owes
      /\ ReadOn(t).step = IF Page(tasks[t].after) = {} THEN "leave" ELSE "post"
      /\ ReadOn(t).batch = Page(tasks[t].after)
      /\ ReadOn(t).after = After(tasks[t].after, Page(tasks[t].after))
      BY ReadMoves
<1>2. tasks[t].step = "read" /\ UNCHANGED <<calls, live, rows, tried>>
      BY DEF Read, On, sessionVars
<1>3. tasks[t].after \in Nat BY FlushTyped DEF OInv, Flush
<1>4. ASSUME NEW r \in rows, Carries(tasks[t], r) PROVE Carries(ReadOn(t), r)
  <2>1. /\ tasks[t].gen = live.generation /\ r.session \in tasks[t].owes
        /\ r.id > tasks[t].after
        BY <1>2, <1>4 DEF Carries
  <2>2. /\ Page(tasks[t].after) # {}
        /\ \/ r \in Page(tasks[t].after)
           \/ r.id > After(tasks[t].after, Page(tasks[t].after))
        BY <1>3, <2>1, NoGap
  <2>3. ReadOn(t).step = "post" BY <1>1, <2>2
  <2> QED BY <1>1, <2>1, <2>2, <2>3 DEF Carries
<1> QED BY <1>1, <1>2, <1>4, CarriedOn

LEMMA AnsweredCarries ==
  ASSUME OInv, Carried, NEW t \in Task, Answered(t)
  PROVE  Carried'
<1>1. tasks[t] \in Flush /\ tasks \in [Task -> Flush] BY FlushTyped DEF OInv
<1>2. PICK settled \in SUBSET tasks[t].batch :
         /\ tasks' = [tasks EXCEPT ![t].step = IF settled = {} THEN "read" ELSE "delete",
                                   ![t].batch = settled]
         /\ tried' = IF tasks[t].gen = live.generation
                     THEN tried \cup Sessions(tasks[t].batch \ settled) ELSE tried
      BY DEF Answered
<1> DEFINE step == IF settled = {} THEN "read" ELSE "delete"
           flush == [tasks[t] EXCEPT !.step = step, !.batch = settled]
<1>3. tasks' = [tasks EXCEPT ![t] = flush] BY <1>1, <1>2
<1>4. flush \in Flush
  <2>1. settled \subseteq Row BY <1>1 DEF Flush
  <2> QED BY <1>1, <2>1 DEF Flush, InFlush
<1>5. /\ flush.step = step /\ flush.batch = settled /\ flush.gen = tasks[t].gen
      /\ flush.owes = tasks[t].owes /\ flush.after = tasks[t].after
      BY <1>1 DEF Flush
<1> HIDE DEF flush
<1>6. tasks[t].step = "post" /\ UNCHANGED <<calls, live, rows>>
      BY DEF Answered, On, sessionVars
<1>7. ASSUME NEW r \in rows, Carries(tasks[t], r)
      PROVE  r.session \in tried' \/ Carries(flush, r)
  <2>1. tasks[t].gen = live.generation /\ r.session \in tasks[t].owes
        BY <1>6, <1>7 DEF Carries
  <2>2. CASE r.id > tasks[t].after BY <1>5, <2>1, <2>2 DEF Carries
  <2>3. CASE r \in settled BY <1>5, <2>1, <2>3 DEF Carries
  <2>4. CASE r \in tasks[t].batch \ settled BY <1>2, <2>1, <2>4 DEF Sessions
  <2> QED BY <1>6, <1>7, <2>2, <2>3, <2>4 DEF Carries
<1>8. tried \subseteq tried' BY <1>2
<1> QED BY <1>3, <1>4, <1>6, <1>7, <1>8, CarriedOn

LEMMA DeleteCarries ==
  ASSUME OInv, Carried, NEW t \in Task, Delete(t)
  PROVE  Carried'
<1>1. tasks[t] \in Flush /\ tasks \in [Task -> Flush] BY FlushTyped DEF OInv
<1> DEFINE flush == [tasks[t] EXCEPT !.step = "read"]
<1>2. flush \in Flush /\ tasks' = [tasks EXCEPT ![t] = flush]
      BY <1>1 DEF Flush, InFlush, Delete, Goto
<1>3. /\ flush.step = "read" /\ flush.gen = tasks[t].gen
      /\ flush.owes = tasks[t].owes /\ flush.after = tasks[t].after
      BY <1>1 DEF Flush
<1> HIDE DEF flush
<1>4. /\ tasks[t].step = "delete" /\ rows' = rows \ tasks[t].batch
      /\ UNCHANGED <<calls, live, tried>>
      BY DEF Delete, On, sessionVars
<1>5. \A r \in rows' : Carries(tasks[t], r) => Carries(flush, r)
      BY <1>3, <1>4 DEF Carries
<1> QED BY <1>2, <1>4, <1>5, CarriedOn

\* A flush that stops early counts what it owed as tried, unless its client
\* has been replaced, or is thrown out by this very answer.
LEMMA StopCarries ==
  ASSUME OInv, Carried, NEW t \in Task, Lost(t) \/ RegistryFails(t)
  PROVE  Carried'
<1>1. /\ tasks[t].step \in {"read", "post", "delete"}
      /\ tasks' = [tasks EXCEPT ![t] = NotStarted]
      /\ tried' = IF tasks[t].gen = live'.generation THEN tried \cup tasks[t].owes ELSE tried
      /\ UNCHANGED <<calls, rows>>
  <2>1. live'.generation = live.generation
        BY DEF Lost, RegistryFails, Hook, OInv, SInv, SessionTypeOK, sessionVars
  <2> QED BY <2>1 DEF Lost, RegistryFails, On, Stop, sessionVars
<1>2. UNCHANGED live \/ live'.client = NoAccount
      BY DEF Lost, RegistryFails, Hook, OInv, SInv, SessionTypeOK, sessionVars
<1>3. CASE UNCHANGED live
  <2>1. ASSUME NEW r \in rows, Carries(tasks[t], r) PROVE r.session \in tried'
        BY <1>1, <1>3, <2>1 DEF Carries
  <2>2. tried \subseteq tried' BY <1>1
  <2> QED BY <1>1, <1>3, <2>1, <2>2, NotStartedTyped, CarriedOn
<1>4. CASE live'.client = NoAccount BY <1>4 DEF Carried
<1> QED BY <1>2, <1>3, <1>4

LEMMA LeaveCarries ==
  ASSUME OInv, Carried, NEW t \in Task, Leave(t)
  PROVE  Carried'
<1>1. /\ tasks[t].step = "leave" /\ tasks' = [tasks EXCEPT ![t] = NotStarted]
      /\ UNCHANGED <<calls, live, rows, tried>>
      BY DEF Leave, On, sessionVars
<1>2. \A r : ~Carries(tasks[t], r) BY <1>1 DEF Carries
<1> QED BY <1>1, <1>2, NotStartedTyped, CarriedOn

\* What is queued is carried by the task that queued it, and what a connection
\* owes by the job it starts.
LEMMA TriggersCarry ==
  ASSUME OInv, Carried,
         \/ \E s \in Game : Enqueue(s) \/ \E counts \in BOOLEAN : GameEnds(s, counts)
         \/ \E c \in Caller : SpawnFlush(c)
  PROVE  Carried'
<1>1. ASSUME NEW s \in Game, NEW counts \in BOOLEAN, GameEnds(s, counts) PROVE Carried'
  <2> DEFINE flush == IF counts THEN [tasks[s] EXCEPT !.step = "enqueue"] ELSE tasks[s]
  <2>1. s \in Task BY DEF Task
  <2>2. tasks[s] \in Flush /\ tasks \in [Task -> Flush] BY <2>1, FlushTyped DEF OInv
  <2>3. flush \in Flush /\ tasks' = [tasks EXCEPT ![s] = flush]
        BY <1>1, <2>2 DEF Flush, GameEnds, Goto
  <2> HIDE DEF flush
  <2>4. tasks[s].step = "idle" BY <1>1, <2>1 DEF GameEnds, OInv, Apart, On
  <2>5. \A r : ~Carries(tasks[s], r) BY <2>4 DEF Carries
  <2>6. UNCHANGED <<calls, live, rows, tried>> BY <1>1 DEF GameEnds, sessionVars
  <2> QED BY <2>1, <2>3, <2>5, <2>6, CarriedOn
<1>2. ASSUME NEW s \in Game, Enqueue(s) PROVE Carried'
  <2>1. s \in Task BY DEF Task
  <2>2. tasks[s] \in Flush /\ tasks \in [Task -> Flush] BY <2>1, FlushTyped DEF OInv
  <2>3. UNCHANGED <<calls, live, tried>> BY <1>2 DEF Enqueue, sessionVars
  <2>4. CASE Goto(s, "client")
    <3>1. tasks'[s].step = "client" BY <2>1, <2>2, <2>4 DEF Goto, Flush
    <3>2. \A r : Carries(tasks[s], r)' BY <3>1 DEF Carries
    <3> QED BY <2>1, <3>2 DEF Carried
  <2>5. CASE ~Goto(s, "client")
    <3> DEFINE flush == [tasks[s] EXCEPT !.step = "idle"]
    <3>1. flush \in Flush /\ tasks' = [tasks EXCEPT ![s] = flush] /\ UNCHANGED rows
          BY <1>2, <2>2, <2>5 DEF Flush, Enqueue, Goto
    <3> HIDE DEF flush
    <3>2. \A r : ~Carries(tasks[s], r) BY <1>2 DEF Carries, Enqueue, On
    <3> QED BY <2>1, <2>3, <3>1, <3>2, CarriedOn
  <2> QED BY <2>4, <2>5
<1>3. ASSUME NEW c \in Caller, SpawnFlush(c) PROVE Carried'
  <2>1. c \in Task BY DEF Task
  <2>2. tasks \in [Task -> Flush] BY <2>1, FlushTyped DEF OInv
  <2>3. tasks'[c].step = "client" BY <1>3, <2>1, <2>2 DEF SpawnFlush, Goto, Flush
  <2>4. \A r : Carries(tasks[c], r)' BY <2>3 DEF Carries
  <2> QED BY <2>1, <2>4 DEF Carried
<1> QED BY <1>1, <1>2, <1>3

\* A new connection owes its jobs, and nobody else's command ends them.
LEMMA SessionCarries ==
  ASSUME OInv, Carried, SessionActs
  PROVE  Carried'
<1> SUFFICES ASSUME live'.client # NoAccount PROVE Carried'
    BY DEF Carried
<1>1. UNCHANGED <<rows, tasks>> BY DEF SessionActs
<1>2. live.generation \in Nat /\ live.generation + 1 # live.generation
      /\ calls \in [Caller -> Call]
      BY DEF OInv, SInv, SessionTypeOK, Call, Accounts
<1>3. ASSUME \E c \in Caller : In(c, "jobs")' PROVE Carried' BY <1>3 DEF Carried
<1>4. ASSUME UNCHANGED live, \A c \in Caller : In(c, "jobs") => In(c, "jobs")'
      PROVE  Carried'
  <2>1. UNCHANGED tried BY <1>4 DEF SessionActs
  <2>2. SUFFICES ASSUME NEW r \in rows
                 PROVE  \/ r.session \in tried
                        \/ \E c \in Caller : In(c, "jobs")'
                        \/ \E t \in Task : Carries(tasks[t], r)
        BY <1>1, <1>4, <2>1 DEF Carried, Carries
  <2> QED BY <1>4, <2>2 DEF Carried
<1>5. ASSUME NEW c \in Caller, SessionStep(c) PROVE Carried'
  <2>1. CASE Install(c)
    <3>1. calls' = [calls EXCEPT ![c] = [calls[c] EXCEPT !.step = "jobs"]]
          BY <1>2, <2>1 DEF Install, Move
    <3>2. In(c, "jobs")' BY <1>2, <3>1 DEF In, Call
    <3> QED BY <1>3, <3>2
  <2>2. CASE Disconnect(c) BY <2>2 DEF Disconnect
  <2>3. CASE ~Install(c) /\ ~Disconnect(c)
    <3>1. UNCHANGED live
          BY <1>5, <2>3 DEF SessionStep, Connect, LoadConfig, LoadCredential, SaveConfig,
             SaveCredential, CallFails, ClearCredential
    <3>2. ~In(c, "jobs") /\ \A o \in Caller : o # c => calls'[o] = calls[o]
          BY <1>2, <1>5, <2>3 DEF SessionStep, Connect, MayCall, LoadConfig, LoadCredential,
             SaveConfig, ProbeAnswers, SaveCredential, CallFails, ClearCredential, In, Move, Return
    <3>3. \A o \in Caller : In(o, "jobs") => In(o, "jobs")' BY <3>2 DEF In
    <3> QED BY <1>4, <3>1, <3>3
  <2> QED BY <2>1, <2>2, <2>3
<1>6. ASSUME NEW g \in 1 .. MaxGen, Unauthorized(g) PROVE Carried'
  <2>1. live' = live \/ live'.client = NoAccount
        BY <1>6 DEF Unauthorized, Hook, OInv, SInv, SessionTypeOK
  <2>2. \A c \in Caller : In(c, "jobs") => In(c, "jobs")' BY <1>6 DEF Unauthorized, In
  <2> QED BY <1>4, <2>1, <2>2
<1> QED BY <1>5, <1>6 DEF SessionActs

LEMMA CarriedKeeps ==
  ASSUME OInv, Carried, [Next]_vars
  PROVE  Carried'
<1>1. ASSUME NEW t \in Task, FlushStep(t) PROVE Carried'
      BY <1>1, TakeClientCarries, EnterCarries, ReadCarries, AnsweredCarries, DeleteCarries,
         StopCarries, LeaveCarries DEF FlushStep
<1>2. CASE Restart BY <1>2 DEF Restart, SessionRestart, Carried
<1>3. CASE UNCHANGED vars
      BY <1>3 DEF vars, sessionVars, outboxVars, Carried, Carries, In
<1> QED BY <1>1, <1>2, <1>3, TriggersCarry, SessionCarries DEF Next

\* A connection that is up and at rest has tried whatever is still queued
\* (the trigger contract, play_session_service.rs:6-15).
THEOREM EverySessionHasItsTry == Spec => []NoForgottenRow
<1>1. Init => Carried
  <2>1. Init => live.client = NoAccount BY DEF Init, SessionInit
  <2> QED BY <2>1 DEF Carried
<1>2. OInv /\ Carried /\ [Next]_vars => Carried' BY CarriedKeeps
<1>3. Carried => NoForgottenRow
  <2> SUFFICES ASSUME Carried, live.client # NoAccount, \A c \in Caller : ~In(c, "jobs"),
                      \A t \in Task : On(t, "idle"), NEW r \in rows
               PROVE  r.session \in tried
      BY DEF NoForgottenRow, Sessions
  <2>1. \A t \in Task : ~Carries(tasks[t], r) BY DEF On, Carries
  <2> QED BY <2>1 DEF Carried
<1> QED BY <1>1, <1>2, <1>3, OutboxInvariant, PTL DEF Spec
=============================================================================
