------------------------- MODULE LibraryGateProofs -------------------------
(* What the runs check of LibraryGate on one game and three passes, for    *)
(* any number of games, installs, transfers and passes: a move owns the    *)
(* library alone, and firmware passes keep apart.                          *)
EXTENDS LibraryGate, TLAPS

Claims(p) == pass[p] \in {"claimed", "checked", "running", "marked", "leaving"}

\* The two ways of a pass do not mix.
WaysKept ==
    \A p \in Pass :
        /\ pass[p] \in {"ticket", "marked"} => Kind[p] # "ps3"
        /\ pass[p] \in {"claimed", "checked"} => Kind[p] = "ps3"

ClaimsKept == \A p \in Pass : Claims(p) => Key[p] \in inFlight

ClaimsApart ==
    \A p, q \in Pass :
        p # q /\ Claims(p) /\ Claims(q) /\ Key[p].dir = Key[q].dir
        => /\ Key[p] # Key[q]
           /\ AllPlatforms \notin {Key[p].platform, Key[q].platform}

PassInv == WaysKept /\ ClaimsKept /\ ClaimsApart

-----------------------------------------------------------------------------
\* What the mover has made sure of when it has come so far.
Owning == {"starting", "moving", "stopped"}
TicketsGone == mover.at \in {"reading"} \cup Owning
RowsRead == mover.at \in Owning \/ (mover.at = "reading" /\ mover.read # "rows")
SessionsRead ==
    mover.at \in Owning \/ (mover.at = "reading" /\ mover.read \in {"pool", "count"})

GateHeldShut == mover.at # "idle" => closed
TicketsStayGone ==
    TicketsGone =>
        /\ \A g \in Game : launch[g] = "off"
        /\ \A p \in Pass : ~TicketOfPass(p)
RowsStayGone ==
    RowsRead =>
        /\ \A i \in Install : install[i] = "off"
        /\ \A p \in Pass : pass[p] # "checked" /\ ~(Kind[p] = "ps3" /\ pass[p] = "running")
SessionsStayGone == SessionsRead => \A g \in Game : ~session[g]
TransfersStayGone ==
    mover.at \in Owning =>
        /\ \A m \in Manual : manual[m] # "copying"
        /\ \A g \in Game : tail[g] # "reloading"

MoveInv ==
    /\ GateHeldShut /\ TicketsStayGone /\ RowsStayGone
    /\ SessionsStayGone /\ TransfersStayGone

-----------------------------------------------------------------------------
\* Types: what each variable can hold, in every reachable state.
LEMMA TypeInit == Init => TypeOK
  BY GateAssumption DEF Init, TypeOK, Counting, Pending

LEMMA TypeNext == TypeOK /\ [Next]_vars => TypeOK'
<1> SUFFICES ASSUME TypeOK, [Next]_vars PROVE TypeOK'
  OBVIOUS
<1> USE GateAssumption DEF TypeOK
<1>1. CASE Start \/ MoverStep \/ Resume \/ CancelStopped
  <2>1. OthersStay
    BY <1>1 DEF Start, MoverStep, Resume, CancelStopped, WaitNoTickets, ReadActivity,
       StartMove, EndMove
  <2>2. ASSUME NEW at, MoverTo(at), at \in {"idle", "tickets", "reading", "starting",
                                           "moving", "stopped"},
               closed' \in BOOLEAN
        PROVE TypeOK'
    BY <2>1, <2>2 DEF MoverTo, OthersStay, gameVars, passVars
  <2>3. CASE ReadActivity
    <3>1. CASE mover.read = "count" \/ Busy(mover.read)
      BY <2>2, <2>3, <3>1 DEF ReadActivity, Refuse
    <3>2. CASE mover.read # "count" /\ ~Busy(mover.read)
      <4>1. mover.read \in {"rows", "sessions", "pool"}
        BY <3>2
      <4>2. NextSource[mover.read] \in {"sessions", "pool", "count"}
        BY <4>1 DEF NextSource
      <4>3. mover' = [mover EXCEPT !.read = NextSource[mover.read]] /\ UNCHANGED closed
        BY <2>3, <3>2 DEF ReadActivity
      <4> QED
        BY <2>1, <4>2, <4>3 DEF OthersStay, gameVars, passVars
    <3> QED
      BY <3>1, <3>2
  <2> QED
    BY <1>1, <2>2, <2>3 DEF Start, MoverStep, Resume, CancelStopped, WaitNoTickets,
       StartMove, EndMove, Refuse
<1>2. ASSUME NEW g \in Game, EnterLaunch(g) \/ LaunchStep(g) PROVE TypeOK'
  BY <1>2, ZenonT(40) DEF EnterLaunch, LaunchStep, BeginRestore, NoRestore, CheckRestore,
     EndRestore, BeginLaunch, LaunchFails, Register, StampStarted, LaunchAt, LaunchTo,
     LaunchOnly, GateStays, passVars, Counting
<1>3. ASSUME NEW g \in Game, Reap(g) \/ TailStep(g) \/ WaitLibraryOpen(g) \/ UploadEnds(g)
      PROVE TypeOK'
  <2>1. CASE Reap(g)
    BY <2>1 DEF Reap, TailTo, GateStays, passVars
  <2>2. CASE TrackTransfer(g) \/ GiveUp(g) \/ DropTransfer(g) \/ WaitLibraryOpen(g)
    BY <2>2 DEF TrackTransfer, GiveUp, DropTransfer, WaitLibraryOpen, TailTo, TailOnly,
       GateStays, passVars, Pending
  <2>3. CASE Trigger(g) \/ UploadEnds(g)
    BY <2>3 DEF Trigger, UploadEnds, TailTo, GateStays, passVars, Pending
  <2> QED
    BY <1>3, <2>1, <2>2, <2>3 DEF TailStep
<1>4. ASSUME NEW i \in Install, AdmitCheck(i) \/ AdmitRow(i) \/ RowEnds(i) PROVE TypeOK'
  BY <1>4 DEF AdmitCheck, AdmitRow, RowEnds, InstallTo, gameVars, passVars
<1>5. ASSUME NEW m \in Manual, CountManual(m) \/ CheckManual(m) \/ ManualEnds(m)
      PROVE TypeOK'
  BY <1>5 DEF CountManual, CheckManual, ManualEnds, ManualTo, gameVars, passVars
<1>6. ASSUME NEW p \in Pass, AskPass(p) \/ PassStep(p) PROVE TypeOK'
  BY <1>6 DEF AskPass, PassStep, EnterLibrary, TryBegin, CheckExternal, AdmitExternal,
     MarkCompleted, DropTicket, DropGuard, PassTo, NoClaim, gameVars
<1>7. CASE UNCHANGED vars
  BY <1>7 DEF vars
<1> QED
  BY <1>1, <1>2, <1>3, <1>4, <1>5, <1>6, <1>7 DEF Next

\* Every variable keeps its type, for every number of actors.
THEOREM TypeCorrect == Spec => []TypeOK
  BY TypeInit, TypeNext, PTL DEF Spec

-----------------------------------------------------------------------------
\* A step that touches no pass and no claim keeps what is said of them.
LEMMA PassStays == PassInv /\ UNCHANGED <<pass, inFlight>> => PassInv'
  BY DEF PassInv, WaysKept, ClaimsKept, ClaimsApart, Claims

\* One pass p moves to another state and neither takes nor gives up a claim.
LEMMA PassMoves ==
    ASSUME TypeOK, PassInv, NEW p \in Pass, NEW at,
           pass' = [pass EXCEPT ![p] = at], UNCHANGED inFlight,
           at \in {"claimed", "checked", "running", "marked", "leaving"} => Claims(p),
           at \in {"ticket", "marked"} => Kind[p] # "ps3",
           at \in {"claimed", "checked"} => Kind[p] = "ps3"
    PROVE  PassInv'
<1>1. pass \in [Pass -> {"off", "wanted", "ticket", "claimed", "checked",
                         "running", "marked", "leaving"}]
  BY DEF TypeOK
<1>2. \A q \in Pass : pass'[q] = IF q = p THEN at ELSE pass[q]
  BY <1>1
<1>3. \A q \in Pass : Claims(q)' => Claims(q)
  BY <1>2 DEF Claims
<1>4. WaysKept'
  BY <1>2 DEF PassInv, WaysKept
<1>5. ClaimsKept' /\ ClaimsApart'
  BY <1>3 DEF PassInv, ClaimsKept, ClaimsApart
<1> QED
  BY <1>4, <1>5 DEF PassInv

\* A claim is taken only where it keeps apart from every other.
LEMMA PassClaims ==
    ASSUME TypeOK, PassInv, NEW p \in Pass, TryBegin(p) PROVE PassInv'
<1>1. pass \in [Pass -> {"off", "wanted", "ticket", "claimed", "checked",
                         "running", "marked", "leaving"}]
  BY DEF TypeOK
<1>2. CASE ~MayBegin(Key[p])
  BY <1>2, PassMoves DEF TryBegin, PassTo
<1>3. CASE MayBegin(Key[p])
  <2> DEFINE at == IF Kind[p] = "ps3" THEN "claimed" ELSE "running"
  <2>1. \A q \in Pass : pass'[q] = IF q = p THEN at ELSE pass[q]
    BY <1>1, <1>3 DEF TryBegin, PassTo
  <2>2. inFlight' = inFlight \cup {Key[p]}
    BY <1>3 DEF TryBegin
  <2>3. \A q \in Pass : q # p /\ Claims(q)' => Claims(q)
    BY <2>1 DEF Claims
  <2>4. WaysKept'
    BY <2>1 DEF PassInv, WaysKept
  <2>5. ClaimsKept'
    BY <2>2, <2>3 DEF PassInv, ClaimsKept
  <2>6. ASSUME NEW q \in Pass, q # p, Claims(q)', Key[p].dir = Key[q].dir
        PROVE  /\ Key[p] # Key[q]
               /\ AllPlatforms \notin {Key[p].platform, Key[q].platform}
    <3>1. Key[q] \in inFlight
      BY <2>3, <2>6 DEF PassInv, ClaimsKept
    <3> QED
      BY <1>3, <2>6, <3>1 DEF MayBegin
  <2>7. ClaimsApart'
    BY <2>3, <2>6 DEF PassInv, ClaimsApart
  <2> QED
    BY <2>4, <2>5, <2>7 DEF PassInv
<1> QED
  BY <1>2, <1>3

\* A claim given up is nobody else's.
LEMMA PassLeaves ==
    ASSUME TypeOK, PassInv, NEW p \in Pass, DropGuard(p) PROVE PassInv'
<1>1. pass \in [Pass -> {"off", "wanted", "ticket", "claimed", "checked",
                         "running", "marked", "leaving"}]
  BY DEF TypeOK
<1>2. \A q \in Pass : pass'[q] = IF q = p THEN "off" ELSE pass[q]
  BY <1>1 DEF DropGuard, PassTo
<1>3. \A q \in Pass : Claims(q)' => Claims(q) /\ q # p
  BY <1>2 DEF Claims
<1>4. Claims(p)
  BY DEF DropGuard, Claims
<1>5. \A q \in Pass : Claims(q)' => Key[q] # Key[p]
  BY <1>3, <1>4 DEF PassInv, ClaimsApart
<1>6. inFlight' = inFlight \ {Key[p]}
  BY DEF DropGuard
<1>7. WaysKept'
  BY <1>2 DEF PassInv, WaysKept
<1>8. ClaimsKept' /\ ClaimsApart'
  BY <1>3, <1>5, <1>6 DEF PassInv, ClaimsKept, ClaimsApart
<1> QED
  BY <1>7, <1>8 DEF PassInv

LEMMA PassNext == TypeOK /\ PassInv /\ [Next]_vars => PassInv'
<1> SUFFICES ASSUME TypeOK, PassInv, [Next]_vars PROVE PassInv'
  OBVIOUS
<1>1. ASSUME NEW p \in Pass, AskPass(p) \/ PassStep(p) PROVE PassInv'
  <2>1. CASE AskPass(p)
    BY <2>1, PassMoves DEF AskPass, PassTo, NoClaim
  <2>2. CASE EnterLibrary(p)
    <3>1. Kind[p] # "ps3" /\ UNCHANGED inFlight
      BY <2>2 DEF EnterLibrary, NoClaim
    <3>2. CASE closed
      BY <2>2, <3>1, <3>2, PassMoves DEF EnterLibrary, PassTo
    <3>3. CASE ~closed
      BY <2>2, <3>1, <3>3, PassMoves DEF EnterLibrary, PassTo
    <3> QED
      BY <3>2, <3>3
  <2>3. CASE TryBegin(p)
    BY <2>3, PassClaims
  <2>4. CASE CheckExternal(p)
    <3>1. Claims(p) /\ Kind[p] = "ps3" /\ UNCHANGED inFlight
      BY <2>4 DEF CheckExternal, NoClaim, Claims, PassInv, WaysKept
    <3>2. CASE closed
      BY <2>4, <3>1, <3>2, PassMoves DEF CheckExternal, PassTo
    <3>3. CASE ~closed
      BY <2>4, <3>1, <3>3, PassMoves DEF CheckExternal, PassTo
    <3> QED
      BY <3>2, <3>3
  <2>5. CASE AdmitExternal(p)
    BY <2>5, PassMoves DEF AdmitExternal, PassTo, NoClaim, Claims
  <2>6. CASE MarkCompleted(p)
    BY <2>6, PassMoves DEF MarkCompleted, PassTo, Claims
  <2>7. CASE DropTicket(p)
    BY <2>7, PassMoves DEF DropTicket, PassTo, NoClaim, Claims
  <2>8. CASE DropGuard(p)
    BY <2>8, PassLeaves
  <2> QED
    BY <1>1, <2>1, <2>2, <2>3, <2>4, <2>5, <2>6, <2>7, <2>8 DEF PassStep
<1>2. CASE UNCHANGED <<pass, inFlight>>
  BY <1>2, PassStays
<1>3. Start \/ MoverStep \/ Resume \/ CancelStopped => UNCHANGED <<pass, inFlight>>
  BY DEF Start, MoverStep, Resume, CancelStopped, WaitNoTickets, ReadActivity,
     StartMove, EndMove, OthersStay, passVars
<1>4. ASSUME NEW g \in Game, \/ EnterLaunch(g) \/ LaunchStep(g) \/ Reap(g)
                             \/ TailStep(g) \/ WaitLibraryOpen(g) \/ UploadEnds(g)
      PROVE UNCHANGED <<pass, inFlight>>
  BY <1>4 DEF EnterLaunch, LaunchStep, BeginRestore, NoRestore, CheckRestore, EndRestore,
     BeginLaunch, LaunchFails, Register, StampStarted, LaunchOnly, Reap, TailStep,
     TrackTransfer, GiveUp, Trigger, DropTransfer, WaitLibraryOpen, UploadEnds, TailOnly,
     GateStays, passVars
<1>5. ASSUME NEW i \in Install, AdmitCheck(i) \/ AdmitRow(i) \/ RowEnds(i)
      PROVE UNCHANGED <<pass, inFlight>>
  BY <1>5 DEF AdmitCheck, AdmitRow, RowEnds, InstallTo, passVars
<1>6. ASSUME NEW m \in Manual, CountManual(m) \/ CheckManual(m) \/ ManualEnds(m)
      PROVE UNCHANGED <<pass, inFlight>>
  BY <1>6 DEF CountManual, CheckManual, ManualEnds, ManualTo, passVars
<1>7. UNCHANGED vars => UNCHANGED <<pass, inFlight>>
  BY DEF vars
<1> QED
  BY <1>1, <1>2, <1>3, <1>4, <1>5, <1>6, <1>7 DEF Next

\* The claims of try_begin are enough: no two firmware passes ever write
\* into one place, whatever passes there are.
THEOREM PassesKeepApart == Spec => []PassesApart
<1>1. Init => PassInv
  BY DEF Init, PassInv, WaysKept, ClaimsKept, ClaimsApart, Claims
<1>2. PassInv => PassesApart
  BY DEF PassInv, ClaimsApart, PassesApart, Claims
<1> QED
  BY TypeCorrect, PassNext, <1>1, <1>2, PTL DEF Spec

-----------------------------------------------------------------------------
\* With the gate open the mover is idle, and before the tickets are gone
\* MoveInv says nothing but that the gate is shut.
LEMMA OpenMeansIdle ==
    ASSUME MoveInv, ~closed, UNCHANGED <<closed, mover>> PROVE MoveInv'
  BY DEF MoveInv, GateHeldShut, TicketsStayGone, RowsStayGone, SessionsStayGone,
     TransfersStayGone, TicketsGone, RowsRead, SessionsRead, Owning

LEMMA EarlyMeansFree ==
    ASSUME MoveInv, ~TicketsGone, UNCHANGED <<closed, mover>> PROVE MoveInv'
  BY DEF MoveInv, GateHeldShut, TicketsStayGone, RowsStayGone, SessionsStayGone,
     TransfersStayGone, TicketsGone, RowsRead, SessionsRead, Owning

\* A step of the mover keeps what it has made sure of and adds what it reads.
LEMMA MoverKeeps ==
    ASSUME TypeOK, MoveInv, MoverStep \/ Start \/ Resume \/ CancelStopped
    PROVE  MoveInv'
<1>1. OthersStay
  BY DEF Start, MoverStep, Resume, CancelStopped, WaitNoTickets, ReadActivity,
     StartMove, EndMove
<1>2. UNCHANGED <<launch, session, tail, install, manual, pass>>
  BY <1>1 DEF OthersStay, gameVars, passVars
<1>3. CASE mover'.at = "idle"
  BY <1>3 DEF MoveInv, GateHeldShut, TicketsStayGone, RowsStayGone, SessionsStayGone,
     TransfersStayGone, TicketsGone, RowsRead, SessionsRead, Owning
<1>4. CASE Start
  BY <1>4 DEF Start, MoverTo, MoveInv, GateHeldShut, TicketsStayGone, RowsStayGone,
     SessionsStayGone, TransfersStayGone, TicketsGone, RowsRead, SessionsRead, Owning
<1>5. CASE WaitNoTickets /\ mover'.at # "idle"
  <2>1. NoTickets /\ mover'.at = "reading" /\ mover'.read = "rows" /\ closed' = closed
    BY <1>5 DEF WaitNoTickets, MoverTo, Refuse
  <2>2. closed
    BY <1>5 DEF WaitNoTickets, MoverAt, MoveInv, GateHeldShut
  <2>3. \A g \in Game : launch[g] = "off"
    BY <2>1 DEF NoTickets
  <2>4. \A p \in Pass : ~TicketOfPass(p)'
    BY <1>2, <2>1 DEF NoTickets, TicketOfPass
  <2> QED
    BY <1>2, <2>1, <2>2, <2>3, <2>4 DEF MoveInv, GateHeldShut, TicketsStayGone,
       RowsStayGone, SessionsStayGone, TransfersStayGone, TicketsGone, RowsRead,
       SessionsRead, Owning
<1>6. CASE ReadActivity /\ mover'.at # "idle"
  <2>1. ~Busy(mover.read) /\ closed' = closed /\ mover.at = "reading"
    BY <1>6 DEF ReadActivity, Refuse, MoverTo, MoverAt
  <2>2. closed' /\ (\A g \in Game : launch'[g] = "off") /\ \A p \in Pass : ~TicketOfPass(p)'
    BY <1>2, <2>1 DEF MoveInv, GateHeldShut, TicketsStayGone, TicketsGone, TicketOfPass
  <2>3. CASE mover.read = "rows"
    <3>1. mover'.at = "reading" /\ mover'.read = "sessions"
      BY <1>6, <2>1, <2>3 DEF ReadActivity, NextSource, TypeOK
    <3>2. ~RowLive /\ ~QueueLocked
      BY <1>6, <2>1, <2>3 DEF ReadActivity, Busy
    <3>3. \A i \in Install : install[i] = "off"
      BY <3>2 DEF RowLive, QueueLocked, TypeOK
    <3>4. \A p \in Pass : pass[p] # "checked" /\ ~(Kind[p] = "ps3" /\ pass[p] = "running")
      BY <3>2 DEF RowLive, QueueLocked
    <3> QED
      BY <1>2, <2>2, <3>1, <3>3, <3>4 DEF MoveInv, GateHeldShut, TicketsStayGone,
         RowsStayGone, SessionsStayGone, TransfersStayGone, TicketsGone, RowsRead,
         SessionsRead, Owning
  <2>4. CASE mover.read \in {"sessions", "pool"}
    <3>1. mover'.at = "reading" /\ mover'.read \in {"pool", "count"}
      BY <1>6, <2>1, <2>4 DEF ReadActivity, NextSource, TypeOK
    <3>2. \A g \in Game : ~session[g]
      BY <2>1, <2>4 DEF Busy, MoveInv, SessionsStayGone, SessionsRead
    <3>3. RowsStayGone /\ RowsRead
      BY <2>1, <2>4 DEF MoveInv, RowsRead
    <3> QED
      BY <1>2, <2>2, <3>1, <3>2, <3>3 DEF MoveInv, GateHeldShut, TicketsStayGone,
         RowsStayGone, SessionsStayGone, TransfersStayGone, TicketsGone, RowsRead,
         SessionsRead, Owning
  <2>5. CASE mover.read = "count"
    <3>1. mover'.at = "starting"
      BY <1>6, <2>1, <2>5 DEF ReadActivity, MoverTo
    <3>2. RowsStayGone /\ RowsRead /\ SessionsStayGone /\ SessionsRead
      BY <2>1, <2>5 DEF MoveInv, RowsRead, SessionsRead
    <3>3. ~TransfersCounted
      BY <2>1, <2>5 DEF Busy
    <3>4. \A m \in Manual : manual[m] # "copying"
      BY <3>3 DEF TransfersCounted
    <3>5. \A g \in Game : tail[g] # "reloading"
      BY <3>3 DEF TransfersCounted, Pending
    <3> QED
      BY <1>2, <2>2, <3>1, <3>2, <3>4, <3>5 DEF MoveInv, GateHeldShut, TicketsStayGone,
         RowsStayGone, SessionsStayGone, TransfersStayGone, TicketsGone, RowsRead,
         SessionsRead, Owning
  <2> QED
    BY <2>3, <2>4, <2>5 DEF TypeOK
<1>7. CASE (StartMove \/ EndMove \/ Resume) /\ mover'.at # "idle"
  <2>1. mover.at \in Owning /\ mover'.at \in Owning /\ (closed' = closed \/ closed' = TRUE)
    BY <1>7 DEF StartMove, EndMove, Resume, MoverAt, MoverTo, Refuse, Owning
  <2>2. closed
    BY <2>1 DEF MoveInv, GateHeldShut, Owning
  <2> QED
    BY <1>2, <2>1, <2>2 DEF MoveInv, GateHeldShut, TicketsStayGone, RowsStayGone,
       SessionsStayGone, TransfersStayGone, TicketsGone, RowsRead, SessionsRead,
       TicketOfPass, Owning
<1>8. CASE CancelStopped
  BY <1>3, <1>8 DEF CancelStopped, Refuse, MoverTo
<1> QED
  BY <1>3, <1>4, <1>5, <1>6, <1>7, <1>8 DEF MoverStep

\* A launch holds its ticket from the gate to the listed session, so it never
\* steps after the tickets are gone.
LEMMA LaunchKeeps ==
    ASSUME TypeOK, MoveInv, NEW g \in Game, EnterLaunch(g) \/ LaunchStep(g)
    PROVE  MoveInv'
<1>1. UNCHANGED <<closed, mover>>
  BY DEF EnterLaunch, LaunchStep, BeginRestore, NoRestore, CheckRestore, EndRestore,
     BeginLaunch, LaunchFails, Register, StampStarted, LaunchOnly, GateStays
<1>2. CASE EnterLaunch(g)
  BY <1>1, <1>2, OpenMeansIdle DEF EnterLaunch
<1>3. CASE LaunchStep(g)
  <2>1. launch[g] # "off"
    BY <1>3 DEF LaunchStep, BeginRestore, NoRestore, CheckRestore, EndRestore,
       BeginLaunch, LaunchFails, Register, StampStarted, LaunchAt
  <2> QED
    BY <1>1, <2>1, EarlyMeansFree DEF MoveInv, TicketsStayGone
<1> QED
  BY <1>2, <1>3

LEMMA TailKeeps ==
    ASSUME TypeOK, MoveInv, NEW g \in Game,
           Reap(g) \/ TailStep(g) \/ WaitLibraryOpen(g) \/ UploadEnds(g)
    PROVE  MoveInv'
<1>1. UNCHANGED <<closed, mover, launch, install, manual, pass>>
  BY DEF Reap, TailStep, TrackTransfer, GiveUp, Trigger, DropTransfer, WaitLibraryOpen,
     UploadEnds, TailOnly, GateStays, passVars
<1>2. \A h \in Game : session'[h] => session[h]
  BY DEF Reap, TailStep, TrackTransfer, GiveUp, Trigger, DropTransfer, WaitLibraryOpen,
     UploadEnds, TailOnly, TypeOK
<1>3. CASE WaitLibraryOpen(g)
  BY <1>1, <1>3, OpenMeansIdle DEF WaitLibraryOpen
<1>4. CASE ~WaitLibraryOpen(g)
  <2>1. \A h \in Game : tail'[h] = "reloading" => tail[h] = "reloading"
    <3>1. tail \in [Game -> {"none", "ended"} \cup Pending]
      BY DEF TypeOK
    <3> QED
      BY <1>4, <3>1 DEF Reap, TailStep, TrackTransfer, GiveUp, Trigger, DropTransfer,
         UploadEnds, TailTo
  <2> QED
    BY <1>1, <1>2, <2>1 DEF MoveInv, GateHeldShut, TicketsStayGone, RowsStayGone,
       SessionsStayGone, TransfersStayGone, TicketsGone, RowsRead, SessionsRead,
       TicketOfPass, Owning
<1> QED
  BY <1>3, <1>4

\* An install looks at the gate and adds its row under the lock the mover
\* needs to read the rows; a transfer looks at the gate after it is counted.
LEMMA InstallKeeps ==
    ASSUME TypeOK, MoveInv, NEW i \in Install, AdmitCheck(i) \/ AdmitRow(i) \/ RowEnds(i)
    PROVE  MoveInv'
<1>1. UNCHANGED <<closed, mover, launch, session, tail, manual, pass>>
  BY DEF AdmitCheck, AdmitRow, RowEnds, InstallTo, gameVars, passVars
<1>2. CASE AdmitCheck(i)
  BY <1>1, <1>2, OpenMeansIdle DEF AdmitCheck
<1>3. CASE AdmitRow(i) \/ RowEnds(i)
  <2>1. ~RowsRead
    BY <1>3 DEF AdmitRow, RowEnds, MoveInv, RowsStayGone
  <2> QED
    BY <1>1, <2>1 DEF MoveInv, GateHeldShut, TicketsStayGone, RowsStayGone,
       SessionsStayGone, TransfersStayGone, TicketsGone, RowsRead, SessionsRead,
       TicketOfPass, Owning
<1> QED
  BY <1>2, <1>3

LEMMA ManualKeeps ==
    ASSUME TypeOK, MoveInv, NEW m \in Manual,
           CountManual(m) \/ CheckManual(m) \/ ManualEnds(m)
    PROVE  MoveInv'
<1>1. UNCHANGED <<closed, mover, launch, session, tail, install, pass>>
  BY DEF CountManual, CheckManual, ManualEnds, ManualTo, gameVars, passVars
<1>2. CASE ~closed
  BY <1>1, <1>2, OpenMeansIdle
<1>3. CASE closed
  <2>1. \A n \in Manual : manual'[n] = "copying" => manual[n] = "copying"
    <3>1. manual \in [Manual -> {"off", "counted", "copying"}]
      BY DEF TypeOK
    <3> QED
      BY <1>3, <3>1 DEF CountManual, CheckManual, ManualEnds, ManualTo
  <2> QED
    BY <1>1, <2>1 DEF MoveInv, GateHeldShut, TicketsStayGone, RowsStayGone,
       SessionsStayGone, TransfersStayGone, TicketsGone, RowsRead, SessionsRead,
       TicketOfPass, Owning
<1> QED
  BY <1>2, <1>3

\* A pass p that moves to a state without a ticket or a row.
LEMMA PassAway ==
    ASSUME TypeOK, MoveInv, NEW p \in Pass, NEW at, PassTo(p, at),
           at \in {"off", "wanted", "claimed", "leaving"}
    PROVE  MoveInv'
<1>1. UNCHANGED <<closed, mover, launch, session, tail, install, manual>>
  BY DEF PassTo, gameVars
<1>2. \A q \in Pass : pass'[q] = IF q = p THEN at ELSE pass[q]
  BY DEF PassTo, TypeOK
<1>3. \A q \in Pass : TicketOfPass(q)' => TicketOfPass(q)
  BY <1>2 DEF TicketOfPass
<1>4. \A q \in Pass : pass'[q] \in {"checked", "running"} => pass'[q] = pass[q]
  BY <1>2
<1> QED
  BY <1>1, <1>3, <1>4 DEF MoveInv, GateHeldShut, TicketsStayGone, RowsStayGone,
     SessionsStayGone, TransfersStayGone, TicketsGone, RowsRead, SessionsRead, Owning

LEMMA PassKeeps ==
    ASSUME TypeOK, PassInv, MoveInv, NEW p \in Pass, AskPass(p) \/ PassStep(p)
    PROVE  MoveInv'
<1>1. UNCHANGED <<closed, mover, launch, session, tail, install, manual>>
  BY DEF AskPass, PassStep, EnterLibrary, TryBegin, CheckExternal, AdmitExternal,
     MarkCompleted, DropTicket, DropGuard, PassTo, gameVars
<1>2. CASE ~closed
  BY <1>1, <1>2, OpenMeansIdle
<1>3. CASE TicketOfPass(p)
  BY <1>1, <1>3, EarlyMeansFree DEF MoveInv, TicketsStayGone
<1>4. CASE closed /\ ~TicketOfPass(p) /\ AskPass(p)
  BY <1>4, PassAway DEF AskPass
<1>5. CASE closed /\ ~TicketOfPass(p) /\ EnterLibrary(p)
  BY <1>5, PassAway DEF EnterLibrary
<1>6. CASE closed /\ ~TicketOfPass(p) /\ TryBegin(p)
  <2>1. Kind[p] = "ps3"
    BY <1>6 DEF TryBegin, TicketOfPass
  <2>2. PassTo(p, "claimed") \/ PassTo(p, "off")
    BY <1>6, <2>1 DEF TryBegin
  <2> QED
    BY <2>2, PassAway
<1>7. CASE closed /\ CheckExternal(p)
  BY <1>7, PassAway DEF CheckExternal
<1>8. CASE AdmitExternal(p)
  <2>1. Kind[p] = "ps3" /\ ~RowsRead
    BY <1>8 DEF AdmitExternal, PassInv, WaysKept, MoveInv, RowsStayGone
  <2>2. \A q \in Pass : TicketOfPass(q)' => TicketOfPass(q)
    BY <1>8, <2>1 DEF AdmitExternal, PassTo, TicketOfPass, TypeOK
  <2> QED
    BY <1>1, <2>1, <2>2 DEF MoveInv, GateHeldShut, TicketsStayGone, RowsStayGone,
       SessionsStayGone, TransfersStayGone, TicketsGone, RowsRead, SessionsRead, Owning
<1>9. CASE MarkCompleted(p)
  BY <1>3, <1>9 DEF MarkCompleted, TicketOfPass
<1>10. CASE DropTicket(p)
  BY <1>10, PassAway DEF DropTicket
<1>11. CASE DropGuard(p)
  BY <1>11, PassAway DEF DropGuard
<1> QED
  BY <1>2, <1>3, <1>4, <1>5, <1>6, <1>7, <1>8, <1>9, <1>10, <1>11 DEF PassStep

LEMMA MoveNext == TypeOK /\ PassInv /\ MoveInv /\ [Next]_vars => MoveInv'
<1> SUFFICES ASSUME TypeOK, PassInv, MoveInv, [Next]_vars PROVE MoveInv'
  OBVIOUS
<1>1. CASE UNCHANGED vars
  BY <1>1 DEF vars, MoveInv, GateHeldShut, TicketsStayGone, RowsStayGone,
     SessionsStayGone, TransfersStayGone, TicketsGone, RowsRead, SessionsRead,
     TicketOfPass, Owning
<1> QED
  BY <1>1, MoverKeeps, LaunchKeeps, TailKeeps, InstallKeeps, ManualKeeps, PassKeeps
  DEF Next

\* The gate, the tickets, the order of the readings and the recheck after
\* counting are enough: from its journal on, a move has the library alone.
THEOREM MoveIsAlone == Spec => []MoveAlone
<1>1. Init => PassInv /\ MoveInv
  BY DEF Init, PassInv, WaysKept, ClaimsKept, ClaimsApart, Claims, MoveInv, GateHeldShut,
     TicketsStayGone, RowsStayGone, SessionsStayGone, TransfersStayGone, TicketsGone,
     RowsRead, SessionsRead, TicketOfPass, Owning
<1>2. TypeOK /\ PassInv /\ MoveInv => MoveAlone
  <2> SUFFICES ASSUME TypeOK, PassInv, MoveInv, mover.at \in {"moving", "stopped"}
               PROVE  MoveAlone
    BY DEF MoveAlone
  <2>1. closed /\ TicketsGone /\ RowsRead /\ SessionsRead /\ mover.at \in Owning
    BY DEF MoveInv, GateHeldShut, TicketsGone, RowsRead, SessionsRead, Owning
  <2>2. \A p \in Pass : pass[p] \notin {"ticket", "checked", "running", "marked"}
    BY <2>1 DEF MoveInv, TicketsStayGone, RowsStayGone, TicketOfPass, PassInv, WaysKept
  <2> QED
    BY <2>1, <2>2 DEF MoveAlone, MoveInv, TicketsStayGone, RowsStayGone,
       SessionsStayGone, TransfersStayGone
<1> QED
  BY TypeCorrect, PassNext, MoveNext, <1>1, <1>2, PTL DEF Spec
=============================================================================
