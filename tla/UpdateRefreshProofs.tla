------------------------ MODULE UpdateRefreshProofs ------------------------
(* What UpdateRefresh keeps for any callers and accounts.                  *)
EXTENDS UpdateRefresh, TLAPS

Steps == {"idle", "requested", "won", "released", "again"} \cup InPass
Holding == {"won"} \cup InPass

\* The types the other facts rest on.
THEOREM UpdateTypes == Spec => []TypeOK
<1>1. Init => TypeOK
  BY DEF Init, TypeOK, Accounts
<1>2. ASSUME TypeOK, [Next]_vars
      PROVE  TypeOK'
  <2> USE <1>2 DEF TypeOK
  <2>1. CASE UserStep
    BY <2>1 DEF UserStep, Connect, Unauthorized, Disconnect, DisconnectFails,
                UserClears, UserTakes, UserStays, gateVars, Accounts
  <2>2. ASSUME NEW c \in Caller, Request(c) \/ CallerStep(c)
        PROVE  TypeOK'
    <3> USE DEF Go, At, gateVars, foundVars, userVars, PassStays, Forget, InPass
    <3>1. CASE Request(c)      BY <3>1 DEF Request
    <3>2. CASE Claim(c)        BY <3>2 DEF Claim
    <3>3. CASE Consume(c)      BY <3>3 DEF Consume
    <3>4. CASE Release(c)      BY <3>4 DEF Release
    <3>5. CASE TakeRequest(c)  BY <3>5 DEF TakeRequest
    <3>6. CASE Reclaim(c)      BY <3>6 DEF Reclaim
    <3>7. CASE BeginPass(c)    BY <3>7 DEF BeginPass
    <3>8. CASE ReadClient(c)   BY <3>8 DEF ReadClient
    <3>9. CASE ClearBegins(c)  BY <3>9 DEF ClearBegins
    <3>10. CASE ClearTakes(c)  BY <3>10 DEF ClearTakes, Accounts
    <3>11. CASE CheckFails(c)  BY <3>11 DEF CheckFails, Accounts
    <3>12. CASE Store(c)       BY <3>12 DEF Store, Accounts
    <3>13. CASE Panics(c)      BY <3>13 DEF Panics, Accounts
    <3> QED
      BY <2>2, <3>1, <3>2, <3>3, <3>4, <3>5, <3>6, <3>7, <3>8, <3>9, <3>10,
         <3>11, <3>12, <3>13 DEF CallerStep
  <2>3. CASE UNCHANGED vars
    BY <2>3 DEF vars
  <2> QED
    BY <2>1, <2>2, <2>3 DEF Next
<1> QED
  BY <1>1, <1>2, PTL DEF Spec

-----------------------------------------------------------------------------
(* One pass.  The flag has one owner: who won it, whose pass runs, or whose *)
(* pass has just ended.                                                     *)

OneHolder ==
    /\ \A c \in Caller : step[c] \in Holding => inFlight
    /\ \A c, d \in Caller : step[c] \in Holding /\ step[d] \in Holding => c = d

\* The flag's swap lets one of the callers in, and only its owner frees it.
THEOREM OnePassAtATime == Spec => []OnePass
<1>1. Init => OneHolder
  BY DEF Init, OneHolder, Holding, InPass
<1>2. ASSUME TypeOK, OneHolder, [Next]_vars
      PROVE  OneHolder'
  <2>1. step \in [Caller -> Steps]
    BY <1>2 DEF TypeOK, Steps
  <2> USE <1>2, <2>1 DEF OneHolder, Holding, InPass
  <2>2. CASE UserStep
    <3>1. UNCHANGED <<step, inFlight>>
      BY <2>2 DEF UserStep, Connect, Unauthorized, Disconnect, DisconnectFails,
                  UserClears, UserTakes, UserStays, gateVars
    <3> QED BY <3>1
  <2>3. ASSUME NEW c \in Caller, Request(c) \/ CallerStep(c)
        PROVE  OneHolder'
    <3> USE DEF Go, At, gateVars, PassStays
    <3>1. CASE Request(c)      BY <3>1 DEF Request
    <3>2. CASE Claim(c)        BY <3>2 DEF Claim
    <3>3. CASE Consume(c)      BY <3>3 DEF Consume
    <3>4. CASE Release(c)      BY <3>4 DEF Release
    <3>5. CASE TakeRequest(c)  BY <3>5 DEF TakeRequest
    <3>6. CASE Reclaim(c)      BY <3>6 DEF Reclaim
    <3>7. CASE BeginPass(c)    BY <3>7 DEF BeginPass
    <3>8. CASE ReadClient(c)   BY <3>8 DEF ReadClient
    <3>9. CASE ClearBegins(c)  BY <3>9 DEF ClearBegins
    <3>10. CASE ClearTakes(c)  BY <3>10 DEF ClearTakes
    <3>11. CASE CheckFails(c)  BY <3>11 DEF CheckFails
    <3>12. CASE Store(c)       BY <3>12 DEF Store
    <3>13. CASE Panics(c)      BY <3>13 DEF Panics
    <3> QED
      BY <2>3, <3>1, <3>2, <3>3, <3>4, <3>5, <3>6, <3>7, <3>8, <3>9, <3>10,
         <3>11, <3>12, <3>13 DEF CallerStep
  <2>4. CASE UNCHANGED vars
    BY <2>4 DEF vars
  <2> QED
    BY <2>2, <2>3, <2>4 DEF Next
<1>3. OneHolder => OnePass
  BY DEF OneHolder, OnePass, Holding
<1> QED
  BY <1>1, <1>2, <1>3, UpdateTypes, PTL DEF Spec

-----------------------------------------------------------------------------
(* A disconnect.  Once it has counted the generation up, no pass that asked *)
(* before holds the current one, and none that begins later finds a client. *)

NothingComes ==
    /\ left => client = NoAccount
    /\ left /\ leave # "keyring" =>
          \A c \in Caller : step[c] = "check" => c \notin current
    /\ left /\ leave = "idle" => shown = NoAccount

\* Nothing found on a server the user left is shown afterwards.
THEOREM LeftMeansEmpty == Spec => []DisconnectEmpties
<1>1. Init => NothingComes
  BY DEF Init, NothingComes
<1>2. ASSUME TypeOK, NothingComes, [Next]_vars
      PROVE  NothingComes'
  <2>1. step \in [Caller -> Steps]
    BY <1>2 DEF TypeOK, Steps
  <2> USE <1>2, <2>1 DEF NothingComes
  <2>2. CASE UserStep
    <3> USE DEF UserStays
    <3>1. ASSUME NEW a \in Account, Connect(a) PROVE NothingComes'
      BY <3>1 DEF Connect
    <3>2. CASE Unauthorized     BY <3>2 DEF Unauthorized
    <3>3. CASE Disconnect       BY <3>3 DEF Disconnect
    <3>4. CASE DisconnectFails  BY <3>4 DEF DisconnectFails
    <3>5. CASE UserClears       BY <3>5 DEF UserClears
    <3>6. CASE UserTakes        BY <3>6 DEF UserTakes
    <3> QED
      BY <2>2, <3>1, <3>2, <3>3, <3>4, <3>5, <3>6 DEF UserStep
  <2>3. ASSUME NEW c \in Caller, Request(c) \/ CallerStep(c)
        PROVE  NothingComes'
    <3> USE DEF Go, At, userVars, foundVars, PassStays, Forget
    <3>1. CASE Request(c)      BY <3>1 DEF Request
    <3>2. CASE Claim(c)        BY <3>2 DEF Claim
    <3>3. CASE Consume(c)      BY <3>3 DEF Consume
    <3>4. CASE Release(c)      BY <3>4 DEF Release
    <3>5. CASE TakeRequest(c)  BY <3>5 DEF TakeRequest
    <3>6. CASE Reclaim(c)      BY <3>6 DEF Reclaim
    <3>7. CASE BeginPass(c)    BY <3>7 DEF BeginPass
    <3>8. CASE ReadClient(c)   BY <3>8 DEF ReadClient
    <3>9. CASE ClearBegins(c)  BY <3>9 DEF ClearBegins
    <3>10. CASE ClearTakes(c)  BY <3>10 DEF ClearTakes
    <3>11. CASE CheckFails(c)  BY <3>11 DEF CheckFails
    <3>12. CASE Store(c)       BY <3>12 DEF Store
    <3>13. CASE Panics(c)      BY <3>13 DEF Panics
    <3> QED
      BY <2>3, <3>1, <3>2, <3>3, <3>4, <3>5, <3>6, <3>7, <3>8, <3>9, <3>10,
         <3>11, <3>12, <3>13 DEF CallerStep
  <2>4. CASE UNCHANGED vars
    BY <2>4 DEF vars
  <2> QED
    BY <2>2, <2>3, <2>4 DEF Next
<1>3. NothingComes => DisconnectEmpties
  BY DEF NothingComes, DisconnectEmpties
<1> QED
  BY <1>1, <1>2, <1>3, UpdateTypes, PTL DEF Spec
=============================================================================
