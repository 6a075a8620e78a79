--------------------------- MODULE UpdateRefresh ---------------------------
(***************************************************************************)
(* The check for updates of installed games (update_service.rs): triggers  *)
(* from any thread, the two flags that make them one pass at a time with   *)
(* at most one rerun (PassGate), the pass itself, and the disconnect that  *)
(* clears what the last pass found.                                        *)
(*                                                                         *)
(* A trigger and the pass it starts are one caller.  What a pass found is  *)
(* the account whose server it asked.  The generation is the set of the    *)
(* callers that hold the current one: counting it up empties the set.      *)
(* Left out: the fetches (four at a time, a failed one counts as no        *)
(* update) and the launch settings they pick up.                           *)
(***************************************************************************)
CONSTANTS Account, Caller, NoAccount

ASSUME UpdateAssumption == NoAccount \notin Account

VARIABLES
    inFlight,    \* the two flags of PassGate
    rerun,
    step,        \* Caller -> where a trigger or its pass is
    asked,       \* Caller -> the account its pass asks
    current,     \* the callers that hold the current generation
    shown,       \* the account the updates shown were found on
    client,      \* the connected account
    leave,       \* where the disconnect command is
    left,        \* disconnected by the user, and not connected since
    owed         \* (history) a request that no pass has begun after

vars == <<inFlight, rerun, step, asked, current, shown, client, leave, left, owed>>
gateVars == <<inFlight, rerun>>
userVars == <<client, leave, left>>
foundVars == <<asked, current, shown>>

Init ==
    /\ inFlight = FALSE
    /\ rerun = FALSE
    /\ step = [c \in Caller |-> "idle"]
    /\ asked = [c \in Caller |-> NoAccount]
    /\ current = {}
    /\ shown = NoAccount
    /\ client = NoAccount
    /\ leave = "idle"
    /\ left = FALSE
    /\ owed = FALSE

At(c, s) == step[c] = s
Go(c, s) == step' = [step EXCEPT ![c] = s]

-----------------------------------------------------------------------------
(* PassGate: one atomic access of a flag at a time.                        *)

Request(c) ==
    /\ At(c, "idle") /\ Go(c, "requested")
    /\ rerun' = TRUE /\ owed' = TRUE
    /\ UNCHANGED <<inFlight, foundVars, userVars>>

FaultClaim(c) ==                   \* looks at the flag, sets it later
    /\ At(c, "requested")
    /\ Go(c, IF inFlight THEN "idle" ELSE "won")
    /\ UNCHANGED <<gateVars, foundVars, userVars, owed>>

Claim(c) ==
    /\ At(c, "requested")
    /\ Go(c, IF inFlight THEN "idle" ELSE "won")
    /\ inFlight' = TRUE
    /\ UNCHANGED <<rerun, foundVars, userVars, owed>>

Consume(c) ==
    /\ At(c, "won") /\ Go(c, "pass")
    /\ rerun' = FALSE
    /\ UNCHANGED <<inFlight, foundVars, userVars, owed>>

Release(c) ==
    /\ At(c, "ended") /\ Go(c, "released")
    /\ inFlight' = FALSE
    /\ UNCHANGED <<rerun, foundVars, userVars, owed>>

TakeRequest(c) ==
    /\ At(c, "released") /\ Go(c, IF rerun THEN "again" ELSE "idle")
    /\ rerun' = FALSE
    /\ UNCHANGED <<inFlight, foundVars, userVars, owed>>

Reclaim(c) ==
    /\ At(c, "again") /\ Go(c, IF inFlight THEN "idle" ELSE "pass")
    /\ inFlight' = TRUE
    /\ UNCHANGED <<rerun, foundVars, userVars, owed>>

-----------------------------------------------------------------------------
(* One pass (refresh).                                                     *)

PassStays == UNCHANGED <<gateVars, userVars, owed>>

BeginPass(c) ==
    /\ At(c, "pass") /\ Go(c, "client")
    /\ current' = {c}
    /\ owed' = FALSE
    /\ UNCHANGED <<gateVars, userVars, asked, shown>>

ReadClient(c) ==
    /\ At(c, "client")
    /\ Go(c, IF client = NoAccount THEN "clear" ELSE "check")
    /\ asked' = [asked EXCEPT ![c] = client]
    /\ PassStays /\ UNCHANGED <<current, shown>>

\* Without a client the pass clears: the generation first, then the set.
ClearBegins(c) ==
    /\ At(c, "clear") /\ Go(c, "take")
    /\ current' = {}
    /\ PassStays /\ UNCHANGED <<asked, shown>>

ClearTakes(c) ==
    /\ At(c, "take") /\ Go(c, "ended")
    /\ shown' = NoAccount
    /\ PassStays /\ UNCHANGED <<asked, current>>

\* What a pass knows goes when it ends.
Forget(c) ==
    /\ asked' = [asked EXCEPT ![c] = NoAccount]
    /\ current' = current \ {c}

\* The registry cannot be read.
CheckFails(c) ==
    At(c, "check") /\ Go(c, "ended") /\ Forget(c) /\ PassStays /\ UNCHANGED shown

FaultStore(c) ==                   \* looks at the generation too early
    /\ At(c, "check") /\ Go(c, "ended") /\ Forget(c)
    /\ shown' \in {asked[c], NoAccount}
    /\ PassStays

\* store_if_current: some updates were found, or none.
Store(c) ==
    /\ At(c, "check") /\ Go(c, "ended") /\ Forget(c)
    /\ IF c \in current THEN shown' \in {asked[c], NoAccount} ELSE UNCHANGED shown
    /\ PassStays

FaultPanics(c) ==                  \* the pass has no guard
    /\ step[c] \in {"pass", "client", "clear", "take", "check"}
    /\ Go(c, "idle") /\ Forget(c)
    /\ owed' = FALSE
    /\ UNCHANGED <<gateVars, shown, userVars>>

\* A panic in the pass: its guard frees the flag (PassGuard). What was
\* requested meanwhile is lost with the pass, and not counted as owed.
Panics(c) ==
    /\ step[c] \in {"pass", "client", "clear", "take", "check"}
    /\ Go(c, "idle") /\ Forget(c)
    /\ inFlight' = FALSE /\ owed' = FALSE
    /\ UNCHANGED <<rerun, shown, userVars>>

CallerStep(c) ==
    \/ Claim(c) \/ Consume(c) \/ Release(c) \/ TakeRequest(c) \/ Reclaim(c)
    \/ BeginPass(c) \/ ReadClient(c) \/ ClearBegins(c) \/ ClearTakes(c)
    \/ CheckFails(c) \/ Store(c) \/ Panics(c)

-----------------------------------------------------------------------------
(* The connection.                                                         *)

UserStays == UNCHANGED <<gateVars, step, asked, owed>>

\* A connect also triggers: one of the requests.
Connect(a) ==
    /\ client' = a /\ left' = FALSE
    /\ UserStays /\ UNCHANGED <<current, shown, leave>>

\* The server rejects the credential: the session ends, nothing is cleared.
Unauthorized ==
    /\ client' = NoAccount
    /\ UserStays /\ UNCHANGED <<current, shown, leave, left>>

Disconnect ==
    /\ leave = "idle" /\ leave' = "keyring"
    /\ client' = NoAccount /\ left' = TRUE
    /\ UserStays /\ UNCHANGED <<current, shown>>

\* The credential cannot be deleted: the command fails and clears nothing.
DisconnectFails ==
    /\ leave = "keyring" /\ leave' = "idle"
    /\ left' = FALSE
    /\ UserStays /\ UNCHANGED <<current, shown, client>>

UserClears ==
    /\ leave = "keyring" /\ leave' = "take"
    /\ current' = {}
    /\ UserStays /\ UNCHANGED <<shown, client, left>>

UserTakes ==
    /\ leave = "take" /\ leave' = "idle"
    /\ shown' = NoAccount
    /\ UserStays /\ UNCHANGED <<current, client, left>>

UserStep ==
    \/ \E a \in Account : Connect(a)
    \/ Unauthorized
    \/ Disconnect \/ DisconnectFails \/ UserClears \/ UserTakes

Next == UserStep \/ \E c \in Caller : Request(c) \/ CallerStep(c)

Spec == Init /\ [][Next]_vars

\* Every task that began goes on; nothing makes a user or a trigger come.
LiveSpec == Spec /\ \A c \in Caller : WF_vars(CallerStep(c))

-----------------------------------------------------------------------------
(* Properties.                                                             *)

Accounts == Account \cup {NoAccount}
InPass == {"pass", "client", "clear", "take", "check", "ended"}

TypeOK ==
    /\ inFlight \in BOOLEAN /\ rerun \in BOOLEAN /\ left \in BOOLEAN
    /\ owed \in BOOLEAN
    /\ step \in [Caller -> {"idle", "requested", "won", "released", "again"} \cup InPass]
    /\ asked \in [Caller -> Accounts]
    /\ current \subseteq Caller
    /\ {shown, client} \subseteq Accounts
    /\ leave \in {"idle", "keyring", "take"}

\* "at most one pass in flight" (update_service.rs:53-54), though the flag is
\* given up and claimed again between a pass and its rerun.
OnePass == \A c, d \in Caller : step[c] \in InPass /\ step[d] \in InPass => c = d

\* "The update set describes a server that is no longer connected"
\* (commands.rs:182): after a disconnect nothing found on it comes back, not
\* from a pass that asked before and ends after it either (store_if_current).
DisconnectEmpties == left /\ leave = "idle" => shown = NoAccount

\* The flag is never left set with no pass behind it, a panic included: the
\* next trigger can always start one (PassGuard).
FlagFreed == inFlight ~> ~inFlight

\* Not true of the code, and checked by no run: the doc of should_start
\* (update_service.rs:77-83) says that a trigger refused while a pass runs is
\* picked up, so once every task has ended a pass has begun after each request
\* (see the README).
RequestPickedUp == (\A c \in Caller : step[c] = "idle") => ~owed
=============================================================================
