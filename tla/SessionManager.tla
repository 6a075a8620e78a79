--------------------------- MODULE SessionManager ---------------------------
(***************************************************************************)
(* The connection to a RomM server (SessionManager in session.rs): the     *)
(* live client and its generation, the account kept on disk (the server    *)
(* and user in config.toml, the credential in the keyring), and the calls  *)
(* of the connect, restore, retry and disconnect commands, which run on    *)
(* threads of their own and wait for the network.                          *)
(*                                                                         *)
(* An account is a server with a user and their credential, no two of them *)
(* on one server: a probe with the URL of one and the credential of        *)
(* another fails.  A client is named by the generation it was installed    *)
(* with.  Left out: the copy of the server URL that the image filter reads.*)
(***************************************************************************)
EXTENDS Integers, FiniteSets

CONSTANTS
    Account,
    Caller,      \* commands that may run at the same time
    MaxGen,      \* bound: how often the live client changes in one run
    NoAccount

ASSUME SessionAssumption ==
    /\ NoAccount \notin Account
    /\ IsFiniteSet(Caller)
    /\ MaxGen \in Nat

VARIABLES
    config,      \* the account whose server and user config.toml holds
    keyring,     \* the account whose credential the keyring holds
    live,        \* Live: the client's account or NoAccount, the generation
    made,        \* the account of the client installed with a generation
    told,        \* how often the unauthorized hook ran for a generation
    calls        \* the command each caller is running

sessionVars == <<config, keyring, live, made, told, calls>>

Idle == [step |-> "idle", server |-> NoAccount, cred |-> NoAccount, saves |-> FALSE]

\* The first start ever; a restart finds what was saved.
SessionInit ==
    /\ config = NoAccount
    /\ keyring = NoAccount
    /\ live = [client |-> NoAccount, generation |-> 0]
    /\ made = [g \in 1 .. MaxGen |-> NoAccount]
    /\ told = [g \in 1 .. MaxGen |-> 0]
    /\ calls = [c \in Caller |-> Idle]

In(c, step) == calls[c].step = step
Move(c, step) == calls' = [calls EXCEPT ![c].step = step]
Return(c) == calls' = [calls EXCEPT ![c] = Idle]

\* Room for every running command to change the live client once.
MayCall(c) ==
    /\ In(c, "idle")
    /\ live.generation + Cardinality({o \in Caller : ~In(o, "idle")}) < MaxGen

-----------------------------------------------------------------------------
(* connect, restore and retry.                                             *)

Connect(c, a) ==
    /\ MayCall(c)
    /\ calls' = [calls EXCEPT ![c] =
          [step |-> "probe", server |-> a, cred |-> a, saves |-> TRUE]]
    /\ UNCHANGED <<config, keyring, live, made, told>>

\* restore and retry read the config first and the keyring after it.
LoadConfig(c) ==
    /\ MayCall(c)
    /\ config # NoAccount
    /\ calls' = [calls EXCEPT ![c] =
          [step |-> "secret", server |-> config, cred |-> NoAccount, saves |-> FALSE]]
    /\ UNCHANGED <<config, keyring, live, made, told>>

LoadCredential(c) ==
    /\ In(c, "secret")
    /\ calls' = [calls EXCEPT ![c] =
          IF keyring = NoAccount THEN Idle
                                 ELSE [@ EXCEPT !.step = "probe", !.cred = keyring]]
    /\ UNCHANGED <<config, keyring, live, made, told>>

\* The server accepts the credential of the call.
ProbeAnswers(c) == In(c, "probe") /\ calls[c].server = calls[c].cred

\* Only connect has something to save.
SaveConfig(c) ==
    /\ ProbeAnswers(c) /\ calls[c].saves
    /\ config' = calls[c].server
    /\ Move(c, "keyring")
    /\ UNCHANGED <<keyring, live, made, told>>

SaveCredential(c) ==
    /\ In(c, "keyring")
    /\ keyring' = calls[c].cred
    /\ Move(c, "install")
    /\ UNCHANGED <<config, live, made, told>>

\* The probe, a save or the clearing of the keyring fails.
CallFails(c) ==
    /\ calls[c].step \in {"probe", "keyring", "clear"}
    /\ Return(c)
    /\ UNCHANGED <<config, keyring, live, made, told>>

MayInstall(c) == In(c, "install") \/ (ProbeAnswers(c) /\ ~calls[c].saves)

FaultInstall(c) ==                 \* the generation is not counted up
    /\ MayInstall(c)
    /\ live' = [client |-> calls[c].cred,
                generation |-> IF live.generation = 0 THEN 1 ELSE live.generation]
    /\ made' = [made EXCEPT ![live'.generation] = calls[c].cred]
    /\ Move(c, "jobs")
    /\ UNCHANGED <<config, keyring, told>>

\* The command then starts the jobs of a new connection (PlayOutbox).
Install(c) ==
    /\ MayInstall(c)
    /\ live' = [client |-> calls[c].cred, generation |-> live.generation + 1]
    /\ made' = [made EXCEPT ![live.generation + 1] = calls[c].cred]
    /\ Move(c, "jobs")
    /\ UNCHANGED <<config, keyring, told>>

-----------------------------------------------------------------------------
(* The end of a session.                                                   *)

Disconnect(c) ==
    /\ MayCall(c)
    /\ live' = [client |-> NoAccount, generation |-> live.generation + 1]
    /\ Move(c, "clear")
    /\ UNCHANGED <<config, keyring, made, told>>

ClearCredential(c) ==
    /\ In(c, "clear")
    /\ keyring' = NoAccount
    /\ Return(c)
    /\ UNCHANGED <<config, live, made, told>>

FaultHook(g) ==                    \* without the guard of the generation
    IF live.client # NoAccount
    THEN /\ live' = [live EXCEPT !.client = NoAccount]
         /\ told' = [told EXCEPT ![g] = @ + 1]
    ELSE UNCHANGED <<live, told>>

\* What the client of generation g does with a 401 it was answered: the
\* hook that install armed it with.
Hook(g) ==
    IF live.generation = g /\ live.client # NoAccount
    THEN /\ live' = [live EXCEPT !.client = NoAccount]
         /\ told' = [told EXCEPT ![g] = @ + 1]
    ELSE UNCHANGED <<live, told>>

\* Any request on a client that was ever live, answered late or at once.
Unauthorized(g) ==
    /\ made[g] # NoAccount
    /\ Hook(g)
    /\ UNCHANGED <<config, keyring, made, calls>>

SessionStep(c) ==
    \/ \E a \in Account : Connect(c, a)
    \/ LoadConfig(c) \/ LoadCredential(c)
    \/ SaveConfig(c) \/ SaveCredential(c) \/ CallFails(c)
    \/ Install(c)
    \/ Disconnect(c) \/ ClearCredential(c)

\* The app is started again: only the disk is left.
SessionRestart ==
    /\ live' = [client |-> NoAccount, generation |-> 0]
    /\ made' = [g \in 1 .. MaxGen |-> NoAccount]
    /\ told' = [g \in 1 .. MaxGen |-> 0]
    /\ calls' = [c \in Caller |-> Idle]
    /\ UNCHANGED <<config, keyring>>

-----------------------------------------------------------------------------
(* Properties.                                                             *)

SessionTypeOK ==
    /\ {config, keyring} \subseteq Account \cup {NoAccount}
    /\ live \in [client : Account \cup {NoAccount}, generation : 0 .. MaxGen]
    /\ made \in [1 .. MaxGen -> Account \cup {NoAccount}]
    /\ told \in [1 .. MaxGen -> Nat]
    /\ calls \in [Caller ->
          [step : {"idle", "secret", "probe", "keyring", "install", "jobs", "clear"},
           server : Account \cup {NoAccount}, cred : Account \cup {NoAccount},
           saves : BOOLEAN]]

\* The frontend is told of a rejected credential "at most once per live
\* session" (session.rs:56), however many requests are answered 401, and the
\* session it is told of is over.
ToldOnce ==
    \A g \in 1 .. MaxGen :
        /\ told[g] <= 1
        /\ told[g] = 1 => ~(live.generation = g /\ live.client # NoAccount)

\* "A late answer to an old client cannot end the session that replaced it"
\* (session.rs:92-94): the live client goes away by a disconnect, a restart
\* or a 401 of its own, and is replaced only by a newer one.
EndsByItsOwnHand ==
    [][live.client # NoAccount /\ live' # live =>
          \/ live'.generation # live.generation
          \/ /\ live' = [live EXCEPT !.client = NoAccount]
             /\ told'[live.generation] = told[live.generation] + 1
             /\ made[live.generation] = live.client]_sessionVars
=============================================================================
