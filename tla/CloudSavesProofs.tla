-------------------------- MODULE CloudSavesProofs --------------------------
(***************************************************************************)
(* Proofs about CloudSaves, for any files, commands and tails of sessions  *)
(* and any bounds.                                                         *)
(*                                                                         *)
(* What a run is planned from is older than anything written after it      *)
(* (Past), so a file that changes under the run falls out of what the run  *)
(* answers for; of the rest each file waits in the run, still with the     *)
(* content that is being sent (Answered, Fresh), or its fate is known.     *)
(* The entry only ever moves on to newer times (Ordered), so a run that    *)
(* finds nothing beyond the slack of an old entry finds nothing beyond the *)
(* slack of today's.                                                       *)
(***************************************************************************)
EXTENDS CloudSaves, FiniteSetTheorems, WellFoundedInduction, TLAPS

Good(f) == fate[f] \in {"stored", "failed"}

\* The files of this age are accounted for.
Covered(n) == \A f \in File : local[f].time \in 1..n => Good(f)

Underway(f) == f \in run.todo \/ f \in run.job

Past ==
    /\ entry.uploaded < clock /\ run.latest < clock /\ run.since < clock
    /\ \A t \in Tail : tail[t].since < clock
    /\ \A f \in File : local[f].time < clock
    /\ \A f \in File : fate[f] = "nothing" => local[f].time > 0

\* Nothing a plan or an entry speaks of is newer than the newest file.
Reached(n) == n = 0 \/ \E f \in File : n <= local[f].time

Ordered ==
    /\ run.since <= entry.uploaded
    /\ \A t \in Tail : tail[t].since <= entry.uploaded
    /\ run.at \in {"posting", "sending", "pruning"} => entry.uploaded <= run.latest
    /\ Reached(entry.uploaded) /\ Reached(run.latest)

Settled ==
    /\ Covered(entry.uploaded) /\ Covered(run.since)
    /\ \A t \in Tail : Covered(tail[t].since)

Shape ==
    /\ run.at # "sending" => run.job = {}
    /\ run.at \notin {"posting", "sending"} => run.todo = {}
    /\ \A f, g \in run.job : f = g
    /\ run.todo \cap run.job = {}

Answered ==
    run.at \in {"posting", "sending", "pruning"} =>
        \A f \in File : local[f].time \in 1..run.latest => Good(f) \/ Underway(f)

Fresh ==
    \A f \in File :
        ((f \in run.todo /\ f \notin Raw) \/ f \in run.job)
            /\ local[f].time \in 1..run.latest
        => run.got[f] = local[f].made

\* What nobody has decided about lies within the slack or is the business of
\* the run, as soon as nothing else could take care of it.
Within(f) == local[f].time <= entry.uploaded + Slack

Excused ==
    (~playing /\ \A t \in Tail : TailAt(t, "none")) =>
        \A f \in File : fate[f] = "nothing" =>
            \/ Within(f)
            \/ run.at = "queued"
            \/ /\ run.at \in {"posting", "sending"}
               /\ Underway(f) /\ local[f].time \in 1..run.latest

IInv == Past /\ Ordered /\ Settled /\ Shape /\ Answered /\ Fresh /\ Excused

-----------------------------------------------------------------------------
(* Types.                                                                  *)

LEMMA TickTyped ==
  ASSUME TypeOK, Tick
  PROVE  clock \in Times /\ clock' \in 1..MaxClock + 1 /\ clock' = clock + 1
  BY CloudAssumption DEF TypeOK, Tick, Times

LEMMA OutsideTyped ==
  ASSUME TypeOK, NEW f \in File, PlaySaves(f) \/ OtherDevice(f)
  PROVE  TypeOK'
<1>1. CASE PlaySaves(f)
  <2>1. clock \in Times /\ clock' \in 1..MaxClock + 1 BY <1>1, TickTyped DEF PlaySaves
  <2>2. local' \in [File -> [time : Times, made : Times]]
        BY <1>1, <2>1 DEF PlaySaves, TypeOK
  <2>3. fate' \in [File -> {"nothing", "passed", "failed", "stored"}]
        BY <1>1 DEF PlaySaves, TypeOK
  <2> QED BY <1>1, <2>1, <2>2, <2>3 DEF PlaySaves, TypeOK
<1>2. CASE OtherDevice(f)
  <2>1. clock \in Times /\ clock' \in 1..MaxClock + 1 BY <1>2, TickTyped DEF OtherDevice
  <2>2. [file |-> f, made |-> clock, at |-> clock] \in Record BY <2>1 DEF Record
  <2>3. records' \subseteq Record BY <1>2, <2>2 DEF OtherDevice, TypeOK
  <2> QED BY <1>2, <2>1, <2>3 DEF OtherDevice, TypeOK
<1> QED BY <1>1, <1>2

LEMMA TimePassesTyped == TypeOK /\ TimePasses => TypeOK'
  BY TickTyped DEF TimePasses, TypeOK

CommandType == [at : {"off", "loaded", "locked", "chosen", "wanted", "placed", "ready"},
                known : Times, pick : SUBSET Record]

LEMMA ZeroIsATime == 0 \in Times /\ 0 \in Nat /\ Times \subseteq Nat
  BY CloudAssumption DEF Times

LEMMA LeaveTyped ==
  ASSUME TypeOK, NEW c \in Command, Leave(c)
  PROVE  command' \in [Command -> CommandType]
<1>1. \A s \in {"ready", "off"} : [NoCommand EXCEPT !.at = s] \in CommandType
      BY ZeroIsATime DEF NoCommand, CommandType
<1>2. command \in [Command -> CommandType] BY DEF TypeOK, CommandType
<1>3. PICK s \in {"ready", "off"} :
         command' = [command EXCEPT ![c] = [NoCommand EXCEPT !.at = s]]
      BY DEF Leave
<1> QED BY <1>1, <1>2, <1>3

\* Once nothing but the command and the lock has changed.
LEMMA CommandOnlyTyped ==
  ASSUME TypeOK, CommandOnly, command' \in [Command -> CommandType],
         caches' \in Command \cup {Free}
  PROVE  TypeOK'
  BY DEF TypeOK, CommandOnly, CommandType

LEMMA CommandTyped ==
  ASSUME TypeOK, NEW c \in Command, CommandStep(c)
  PROVE  TypeOK'
<1>0. /\ command \in [Command -> CommandType] /\ caches \in Command \cup {Free}
      /\ local \in [File -> [time : Times, made : Times]] /\ records \subseteq Record
      /\ fate \in [File -> {"nothing", "passed", "failed", "stored"}]
      /\ entry \in [uploaded : Times, downloaded : Times]
      BY DEF TypeOK, CommandType
<1>g. ASSUME NEW s \in {"off", "loaded", "locked", "chosen", "wanted", "placed", "ready"},
             Go(c, s)
      PROVE  command' \in [Command -> CommandType]
      BY <1>0, <1>g DEF Go, CommandType
<1>1. CASE LoadInputs(c)
  <2>1. [at |-> "loaded", known |-> entry.downloaded, pick |-> {}] \in CommandType
        BY <1>0 DEF CommandType
  <2>2. command' \in [Command -> CommandType] BY <1>0, <1>1, <2>1 DEF LoadInputs
  <2> QED BY <1>0, <1>1, <2>2, CommandOnlyTyped DEF LoadInputs
<1>2. CASE SkipRestore(c) BY <1>0, <1>2, LeaveTyped, CommandOnlyTyped DEF SkipRestore
<1>3. CASE LockCaches(c) BY <1>g, <1>3, CommandOnlyTyped DEF LockCaches
<1>4. CASE Check(c)
  <2>1. CommandOnly BY <1>4 DEF Check
  <2>2. \/ Leave(c) /\ Unlock
        \/ /\ command' = [command EXCEPT ![c].at = "wanted", ![c].known = 0]
           /\ UNCHANGED caches
        BY <1>4 DEF Check
  <2>3. CASE Leave(c) /\ Unlock BY <2>1, <2>3, LeaveTyped, CommandOnlyTyped DEF Unlock
  <2>4. CASE /\ command' = [command EXCEPT ![c].at = "wanted", ![c].known = 0]
             /\ UNCHANGED caches
    <3>1. [command[c] EXCEPT !.at = "wanted", !.known = 0] \in CommandType
          BY <1>0, ZeroIsATime DEF CommandType
    <3>2. command' = [command EXCEPT ![c] = [command[c] EXCEPT !.at = "wanted", !.known = 0]]
          BY <1>0, <2>4
    <3>3. command' \in [Command -> CommandType] BY <1>0, <3>1, <3>2
    <3> QED BY <1>0, <2>1, <2>4, <3>3, CommandOnlyTyped
  <2> QED BY <2>2, <2>3, <2>4
<1>5. CASE RestoreFails(c)
      BY <1>5, LeaveTyped, CommandOnlyTyped DEF RestoreFails, Unlock
<1>6. CASE Place(c)
  <2>1. clock \in Times /\ clock' \in 1..MaxClock + 1 BY <1>6, TickTyped DEF Place
  <2>2. PICK r \in records :
          /\ local' = [local EXCEPT ![r.file] = [time |-> clock, made |-> r.made]]
          /\ fate' = [fate EXCEPT ![r.file] = "stored"]
        BY <1>6 DEF Place
  <2>3. r.file \in File /\ r.made \in Times BY <1>0 DEF Record
  <2>4. local' \in [File -> [time : Times, made : Times]] BY <1>0, <2>1, <2>2, <2>3
  <2>5. fate' \in [File -> {"nothing", "passed", "failed", "stored"}] BY <1>0, <2>2
  <2>6. command' \in [Command -> CommandType] BY <1>6, <1>g DEF Place
  <2> QED BY <1>6, <2>1, <2>4, <2>5, <2>6 DEF Place, TypeOK, CommandType
<1>7. CASE SaveDownloaded(c)
  <2>1. command' \in [Command -> CommandType] BY <1>7, LeaveTyped DEF SaveDownloaded
  <2>2. PICK r \in command[c].pick : entry' \in {[entry EXCEPT !.downloaded = r.at], entry}
        BY <1>7 DEF SaveDownloaded
  <2>3. r.at \in Times BY <1>0 DEF CommandType, Record
  <2>4. entry' \in [uploaded : Times, downloaded : Times] BY <1>0, <2>2, <2>3
  <2> QED BY <1>7, <2>1, <2>4 DEF SaveDownloaded, Unlock, TypeOK, CommandType
<1>8. CASE StartGame(c)
  <2>1. NoCommand \in CommandType BY ZeroIsATime DEF NoCommand, CommandType
  <2>2. command' \in [Command -> CommandType] BY <1>0, <1>8, <2>1 DEF StartGame
  <2> QED BY <1>8, <2>2 DEF StartGame, TypeOK, CommandType
<1>9. CASE LaunchFails(c) BY <1>0, <1>g, <1>9, CommandOnlyTyped DEF LaunchFails
<1>1a. ASSUME NEW r \in records, Choose(c, r) PROVE TypeOK'
  <2>1. [command[c] EXCEPT !.at = "chosen", !.pick = {r}] \in CommandType
        BY <1>0 DEF CommandType
  <2>2. command' = [command EXCEPT ![c] = [command[c] EXCEPT !.at = "chosen", !.pick = {r}]]
        BY <1>0, <1>1a DEF Choose
  <2>3. command' \in [Command -> CommandType] BY <1>0, <2>1, <2>2
  <2> QED BY <1>0, <1>1a, <2>3, CommandOnlyTyped DEF Choose
<1> QED BY <1>1, <1>2, <1>3, <1>4, <1>5, <1>6, <1>7, <1>8, <1>9, <1>1a DEF CommandStep

TailType == [at : {"none", "ended", "waiting", "reloaded"}, since : Times]

LEMMA PassOverTyped ==
  ASSUME TypeOK, PassOver
  PROVE  fate' \in [File -> {"nothing", "passed", "failed", "stored"}]
  BY DEF TypeOK, PassOver

LEMMA TailTyped ==
  ASSUME TypeOK, NEW t \in Tail, EndSession(t) \/ TailStep(t)
  PROVE  TypeOK'
<1>0. tail \in [Tail -> TailType] /\ entry.uploaded \in Times BY DEF TypeOK, TailType
<1>n. NoTail \in TailType BY ZeroIsATime DEF NoTail, TailType
<1>g. ASSUME NEW s \in {"none", "ended", "waiting", "reloaded"}, TailTo(t, s)
      PROVE  tail' \in [Tail -> TailType]
      BY <1>0, <1>g DEF TailTo, TailType
<1>1. CASE EndSession(t) BY <1>1, <1>g DEF EndSession, TypeOK, TailType
<1>2. CASE ClearCaches(t) \/ StampFails(t)
  <2>1. TailTo(t, "waiting") /\ TailOnly /\ UNCHANGED <<run, fate>>
        BY <1>2 DEF ClearCaches, StampFails
  <2> QED BY <2>1, <1>g DEF TailOnly, TypeOK, TailType
<1>3. CASE GiveUp(t)
  <2>1. tail' \in [Tail -> TailType] BY <1>0, <1>n, <1>3 DEF GiveUp
  <2> QED BY <1>3, <2>1, PassOverTyped DEF GiveUp, TailOnly, TypeOK, TailType
<1>4. CASE Reload(t)
  <2>1. [at |-> "reloaded", since |-> entry.uploaded] \in TailType BY <1>0 DEF TailType
  <2>2. tail' \in [Tail -> TailType] BY <1>0, <1>4, <2>1 DEF Reload
  <2> QED BY <1>4, <2>2 DEF Reload, TailOnly, TypeOK, TailType
<1>5. CASE Trigger(t)
  <2>1. tail' \in [Tail -> TailType] BY <1>0, <1>n, <1>5 DEF Trigger
  <2>2. tail[t].since \in Times BY <1>0 DEF TailType
  <2>3. \/ run' = [run EXCEPT !.at = "queued", !.since = tail[t].since] /\ UNCHANGED fate
        \/ PassOver /\ UNCHANGED run
        BY <1>5 DEF Trigger
  <2>4. CASE run' = [run EXCEPT !.at = "queued", !.since = tail[t].since] /\ UNCHANGED fate
        BY <1>5, <2>1, <2>2, <2>4 DEF Trigger, TailOnly, TypeOK, TailType
  <2>5. CASE PassOver /\ UNCHANGED run
        BY <1>5, <2>1, <2>5, PassOverTyped DEF Trigger, TailOnly, TypeOK, TailType
  <2> QED BY <2>3, <2>4, <2>5
<1> QED BY <1>1, <1>2, <1>3, <1>4, <1>5 DEF TailStep

RunType == [at : {"idle", "queued", "posting", "sending", "pruning"},
            since : Times, latest : Times, todo : SUBSET File,
            got : [File -> Times], job : SUBSET File, some : BOOLEAN,
            stale : SUBSET Record]
FateType == [File -> {"nothing", "passed", "failed", "stored"}]

LEMMA NoRunTyped == NoRun \in RunType
  BY ZeroIsATime DEF NoRun, RunType

LEMMA KnownTyped ==
  ASSUME TypeOK, NEW f \in File, NEW made, NEW what \in {"failed", "stored"},
         Known(f, made, what)
  PROVE  fate' \in FateType
  BY DEF TypeOK, Known, FateType

LEMMA RunOnlyTyped ==
  ASSUME TypeOK, RunOnly, run' \in RunType, records' \subseteq Record,
         caches' = caches, fate' \in FateType
  PROVE  TypeOK'
  BY DEF TypeOK, RunOnly, RunType, FateType

LEMMA RunTyped ==
  ASSUME TypeOK, RunStep
  PROVE  TypeOK'
<1>0. /\ run \in RunType /\ fate \in FateType /\ records \subseteq Record
      /\ local \in [File -> [time : Times, made : Times]]
      /\ entry \in [uploaded : Times, downloaded : Times]
      BY DEF TypeOK, RunType, FateType
<1>1. CASE Plan
  <2>1. ASSUME NEW latest \in Times PROVE WithJobs(latest) \in RunType
    <3>1. [f \in File |-> IF f \in Raw THEN 0 ELSE local[f].made] \in [File -> Times]
          BY <1>0, ZeroIsATime
    <3>2. Present \in SUBSET File BY DEF Present
    <3> QED BY <1>0, <2>1, <3>1, <3>2 DEF WithJobs, RunType
  <2>2. run' \in RunType BY <1>0, <1>1, <2>1, NoRunTyped DEF Plan
  <2> QED BY <1>0, <1>1, <2>2, RunOnlyTyped DEF Plan, Nothing
<1>2. CASE PlanFails
  <2>1. fate' \in FateType BY <1>2 DEF PlanFails, FateType
  <2> QED BY <1>0, <1>2, <2>1, NoRunTyped, RunOnlyTyped DEF PlanFails, EndRun
<1>3. CASE ListRecords
  <2>1. ASSUME NEW listed \in {records, {}}
        PROVE  [run EXCEPT !.at = "pruning", !.stale = Stale(listed)] \in RunType
    <3>1. Stale(listed) \in SUBSET Record BY <1>0, <2>1 DEF Stale
    <3> QED BY <1>0, <3>1 DEF RunType
  <2>2. run' \in RunType BY <1>3, <2>1 DEF ListRecords
  <2> QED BY <1>0, <1>3, <2>2, RunOnlyTyped DEF ListRecords, Nothing
<1>4. CASE NothingUploaded
      BY <1>0, <1>4, NoRunTyped, RunOnlyTyped DEF NothingUploaded, EndRun, Nothing
<1>5. CASE Summarize
  <2>1. entry' \in [uploaded : Times, downloaded : Times]
        BY <1>0, <1>5 DEF Summarize, RunType
  <2>2. run' \in RunType BY <1>5, NoRunTyped DEF Summarize, EndRun
  <2> QED BY <1>5, <2>1, <2>2 DEF Summarize, TypeOK, RunType
<1>6. ASSUME NEW f \in File, Send(f) PROVE TypeOK'
  <2>1. local[f].made \in Times BY <1>0
  <2>2. [run.got EXCEPT ![f] = IF f \in Raw THEN local[f].made ELSE @] \in [File -> Times]
        BY <1>0, <2>1 DEF RunType
  <2>3. run' = [run EXCEPT !.at = "sending", !.job = {f}, !.todo = run.todo \ {f},
                  !.got = [run.got EXCEPT ![f] = IF f \in Raw THEN local[f].made ELSE @]]
        BY <1>6 DEF Send
  <2>4. run' \in RunType BY <1>0, <2>2, <2>3 DEF RunType
  <2> QED BY <1>0, <1>6, <2>4, RunOnlyTyped DEF Send, Nothing
<1>7. ASSUME NEW f \in File, Store(f) PROVE TypeOK'
  <2>1. clock \in Times /\ clock' \in 1..MaxClock + 1 BY <1>7, TickTyped DEF Store
  <2>2. run.got[f] \in Times BY <1>0 DEF RunType
  <2>3. [file |-> f, made |-> run.got[f], at |-> clock] \in Record BY <2>1, <2>2 DEF Record
  <2>4. records' \subseteq Record BY <1>0, <1>7, <2>3 DEF Store
  <2>5. fate' \in FateType BY <1>7, KnownTyped DEF Store
  <2>6. [run.got EXCEPT ![f] = 0] \in [File -> Times] BY <1>0, ZeroIsATime DEF RunType
  <2>7. PICK some \in {TRUE, run.some} :
          run' = [run EXCEPT !.at = "posting", !.job = {},
                             !.got = [run.got EXCEPT ![f] = 0], !.some = some]
        BY <1>7 DEF Store
  <2>8. some \in BOOLEAN BY <1>0, Zenon DEF RunType
  <2>9. run' \in RunType BY <1>0, <2>6, <2>7, <2>8 DEF RunType
  <2> QED BY <1>7, <2>1, <2>4, <2>5, <2>9 DEF Store, TypeOK, RunType, FateType
<1>8. ASSUME NEW f \in File, PostFails(f) PROVE TypeOK'
  <2>1. fate' \in FateType BY <1>8, KnownTyped DEF PostFails
  <2>2. [run.got EXCEPT ![f] = 0] \in [File -> Times] BY <1>0, ZeroIsATime DEF RunType
  <2>3. run' = [run EXCEPT !.at = "posting", !.job = {}, !.got = [run.got EXCEPT ![f] = 0]]
        BY <1>8 DEF PostFails
  <2>4. run' \in RunType BY <1>0, <2>2, <2>3 DEF RunType
  <2> QED BY <1>0, <1>8, <2>1, <2>4, RunOnlyTyped DEF PostFails
<1>9. ASSUME NEW r \in records, Prune(r) PROVE TypeOK'
  <2>1. run' \in RunType BY <1>0, <1>9 DEF Prune, RunType
  <2>2. records' \subseteq Record BY <1>0, <1>9 DEF Prune
  <2> QED BY <1>0, <1>9, <2>1, <2>2, RunOnlyTyped DEF Prune
<1> QED BY <1>1, <1>2, <1>3, <1>4, <1>5, <1>6, <1>7, <1>8, <1>9 DEF RunStep

LEMMA InitTyped == Init => TypeOK
<1> SUFFICES ASSUME Init PROVE TypeOK OBVIOUS
<1>1. command \in [Command -> CommandType]
  <2>1. NoCommand \in CommandType BY ZeroIsATime DEF NoCommand, CommandType
  <2> QED BY <2>1 DEF Init
<1>2. tail \in [Tail -> TailType]
  <2>1. NoTail \in TailType BY ZeroIsATime DEF NoTail, TailType
  <2> QED BY <2>1 DEF Init
<1>3. run \in RunType BY NoRunTyped DEF Init
<1>4. local \in [File -> [time : Times, made : Times]] BY ZeroIsATime DEF Init
<1>5. entry \in [uploaded : Times, downloaded : Times] BY ZeroIsATime DEF Init
<1>6. clock \in 1..MaxClock + 1 BY CloudAssumption DEF Init
<1>7. fate \in FateType BY DEF Init, FateType
<1> QED BY <1>1, <1>2, <1>3, <1>4, <1>5, <1>6, <1>7
        DEF Init, TypeOK, CommandType, TailType, RunType, FateType

\* Every variable keeps its type (all of cloud_service.rs and cloud/ that the
\* module models).
THEOREM TypeCorrect == Spec => []TypeOK
<1>1. TypeOK /\ [Next]_vars => TypeOK'
  <2> SUFFICES ASSUME TypeOK, [Next]_vars PROVE TypeOK' OBVIOUS
  <2>1. CASE UNCHANGED vars BY <2>1 DEF vars, TypeOK
  <2> QED BY <2>1, TimePassesTyped, OutsideTyped, CommandTyped, TailTyped, RunTyped DEF Next
<1> QED BY <1>1, InitTyped, PTL DEF Spec

-----------------------------------------------------------------------------
(* What counts as uploaded, and what is left when all is over.             *)

\* The numbers the argument compares, as numbers.
LEMMA Numbers ==
  ASSUME TypeOK
  PROVE  /\ clock \in Nat /\ clock >= 1
         /\ \A f \in File : local[f].time \in Nat
         /\ entry.uploaded \in Nat /\ run.latest \in Nat /\ run.since \in Nat
         /\ \A t \in Tail : tail[t].since \in Nat
         /\ Slack \in Nat
  BY CloudAssumption DEF TypeOK, Times

LEMMA InitHolds == Init => IInv
<1> SUFFICES ASSUME Init PROVE IInv OBVIOUS
<1> QED BY CloudAssumption
        DEF Init, IInv, Past, Ordered, Reached, Settled, Covered, Good, Shape, Answered,
            Fresh, Excused, NoRun, NoTail, TailAt, Underway

\* A file written now is younger than anything a run or an entry speaks of.
LEMMA WriteHolds ==
  ASSUME TypeOK, IInv, Tick, NEW f \in File, NEW made, NEW what,
         what = "stored" \/ (what = "nothing" /\ playing'),
         local' = [local EXCEPT ![f] = [time |-> clock, made |-> made]],
         fate' = [fate EXCEPT ![f] = what],
         UNCHANGED <<entry, playing, tail, run>>
  PROVE  IInv'
<1>0. clock' = clock + 1 /\ clock \in Nat /\ clock >= 1 BY Numbers DEF Tick
<1>1. /\ local'[f].time = clock /\ fate'[f] = what
      /\ \A g \in File : g # f => local'[g] = local[g] /\ fate'[g] = fate[g]
      BY DEF TypeOK
<1>2. Past'
  <2>1. \A g \in File : local'[g].time < clock' BY <1>0, <1>1, Numbers DEF IInv, Past
  <2>2. \A g \in File : fate'[g] = "nothing" => local'[g].time > 0
        BY <1>0, <1>1 DEF IInv, Past
  <2>3. /\ entry'.uploaded < clock' /\ run'.latest < clock' /\ run'.since < clock'
        /\ \A t \in Tail : tail'[t].since < clock'
        BY <1>0, Numbers DEF IInv, Past
  <2> QED BY <2>1, <2>2, <2>3 DEF Past
<1>2a. Ordered'
  <2>1. ASSUME NEW n \in Nat, Reached(n), n < clock PROVE Reached(n)'
    <3>1. CASE n = 0 BY <3>1 DEF Reached
    <3>2. CASE n # 0 BY <1>0, <1>1, <2>1 DEF Reached
    <3> QED BY <3>1, <3>2
  <2> QED BY <2>1, Numbers DEF IInv, Past, Ordered
<1>3. ASSUME NEW n \in Nat, n < clock, Covered(n) PROVE Covered(n)'
  <2> SUFFICES ASSUME NEW g \in File, local'[g].time \in 1..n PROVE Good(g)'
      BY DEF Covered
  <2>1. g # f BY <1>0, <1>1, <1>3
  <2> QED BY <1>1, <1>3, <2>1 DEF Covered, Good
<1>4. Settled' BY <1>3, Numbers DEF IInv, Past, Settled
<1>5. Shape' BY DEF IInv, Shape
<1>6. ASSUME NEW g \in File, local'[g].time \in 1..run.latest
      PROVE  g # f /\ local'[g] = local[g] /\ fate'[g] = fate[g]
      BY <1>0, <1>1, <1>6, Numbers DEF IInv, Past
<1>7. Answered' BY <1>6 DEF IInv, Answered, Good, Underway
<1>8. Fresh' BY <1>6 DEF IInv, Fresh
<1>9. Excused'
  <2> SUFFICES ASSUME (~playing /\ \A t \in Tail : TailAt(t, "none"))',
                      NEW g \in File, fate'[g] = "nothing"
               PROVE  (\/ Within(g)
                       \/ run.at = "queued"
                       \/ /\ run.at \in {"posting", "sending"}
                          /\ Underway(g) /\ local[g].time \in 1..run.latest)'
      BY DEF Excused
  <2>1. g # f BY <1>1
  <2> QED BY <1>1, <2>1 DEF IInv, Excused, Within, TailAt, Underway
<1> QED BY <1>2, <1>2a, <1>4, <1>5, <1>7, <1>8, <1>9 DEF IInv

\* Nothing the argument speaks of has changed but, perhaps, that time passed,
\* a game began or another record was downloaded.
LEMMA StillHolds ==
  ASSUME TypeOK, IInv, clock' \in {clock, clock + 1}, playing => playing',
         entry'.uploaded = entry.uploaded, UNCHANGED <<local, tail, run, fate>>
  PROVE  IInv'
<1>1. Past' BY Numbers DEF IInv, Past
<1>2. Settled' /\ Shape' /\ Answered' /\ Fresh' /\ Excused'
      BY DEF IInv, Settled, Shape, Answered, Fresh, Excused, Within, Covered, Good, Underway,
             TailAt
<1>3. Ordered' BY DEF IInv, Ordered, Reached
<1> QED BY <1>1, <1>2, <1>3 DEF IInv

LEMMA OutsideHolds ==
  ASSUME TypeOK, IInv, NEW f \in File, PlaySaves(f) \/ OtherDevice(f)
  PROVE  IInv'
<1>1. CASE PlaySaves(f)
  <2>1. Tick /\ playing' BY <1>1 DEF PlaySaves
  <2> QED BY <1>1, <2>1, WriteHolds DEF PlaySaves
<1>2. CASE OtherDevice(f) BY <1>2, StillHolds DEF OtherDevice, Tick
<1> QED BY <1>1, <1>2

LEMMA TimePassesHolds == TypeOK /\ IInv /\ TimePasses => IInv'
  BY StillHolds DEF TimePasses, Tick

LEMMA CommandHolds ==
  ASSUME TypeOK, IInv, NEW c \in Command, CommandStep(c)
  PROVE  IInv'
<1>1. ASSUME CommandOnly PROVE IInv' BY <1>1, StillHolds DEF CommandOnly
<1>2. CASE Place(c)
  <2>1. PICK r \in records :
          /\ local' = [local EXCEPT ![r.file] = [time |-> clock, made |-> r.made]]
          /\ fate' = [fate EXCEPT ![r.file] = "stored"]
        BY <1>2 DEF Place
  <2>2. r.file \in File BY DEF TypeOK, Record
  <2>3. Tick /\ UNCHANGED <<entry, playing, tail, run>> BY <1>2 DEF Place
  <2> QED BY <2>1, <2>2, <2>3, WriteHolds
<1>3. CASE SaveDownloaded(c)
  <2>1. entry'.uploaded = entry.uploaded BY <1>3 DEF SaveDownloaded, TypeOK
  <2> QED BY <1>3, <2>1, StillHolds DEF SaveDownloaded
<1>4. CASE StartGame(c) BY <1>4, StillHolds DEF StartGame
<1> QED BY <1>1, <1>2, <1>3, <1>4
        DEF CommandStep, LoadInputs, SkipRestore, LockCaches, Choose, Check, RestoreFails,
            LaunchFails

-----------------------------------------------------------------------------
(* After a session.                                                        *)

LEMMA PassedOver ==
  ASSUME TypeOK, PassOver
  PROVE  \A f \in File : fate'[f] # "nothing" /\ (Good(f) => Good(f)')
  BY DEF TypeOK, PassOver, Good

LEMMA TailHolds ==
  ASSUME TypeOK, IInv, NEW t \in Tail, EndSession(t) \/ TailStep(t)
  PROVE  IInv'
<1>0. tail \in [Tail -> TailType] BY DEF TypeOK, TailType
<1>1. UNCHANGED <<clock, local, entry>>
      BY DEF EndSession, TailStep, ClearCaches, StampFails, GiveUp, Reload, Trigger, TailOnly
<1>2. ASSUME NEW s \in {"ended", "waiting"}, TailTo(t, s), UNCHANGED <<run, fate>>
      PROVE  IInv'
  <2>1. /\ tail'[t].since = tail[t].since /\ tail'[t].at = s
        /\ \A u \in Tail : u # t => tail'[u] = tail[u]
        BY <1>0, <1>2 DEF TailTo, TailType
  <2>2. \A u \in Tail : tail'[u].since = tail[u].since BY <2>1
  <2>3. Past' /\ Settled' BY <1>1, <1>2, <2>2 DEF IInv, Past, Settled, Covered, Good
  <2>4. Shape' /\ Answered' /\ Fresh'
        BY <1>1, <1>2 DEF IInv, Shape, Answered, Fresh, Good, Underway
  <2>5. Excused' BY <2>1 DEF Excused, TailAt
  <2>6. Ordered' BY <1>1, <1>2, <2>2 DEF IInv, Ordered, Reached
  <2> QED BY <2>3, <2>4, <2>5, <2>6 DEF IInv
<1>3. CASE EndSession(t) BY <1>2, <1>3 DEF EndSession
<1>4. CASE ClearCaches(t) \/ StampFails(t) BY <1>2, <1>4 DEF ClearCaches, StampFails
<1>5. ASSUME tail' = [tail EXCEPT ![t] = NoTail], PassOver, UNCHANGED run
      PROVE  IInv'
  <2>1. \A u \in Tail : tail'[u].since \in {0, tail[u].since}
        BY <1>0, <1>5 DEF NoTail
  <2>2. Past' BY <1>1, <1>5, <2>1, Numbers, PassedOver DEF IInv, Past
  <2>3. \A n \in Nat : Covered(n) => Covered(n)'
        BY <1>1, <1>5, PassedOver DEF Covered
  <2>4. Covered(0)' BY Numbers, <1>1 DEF Covered
  <2>5. Settled' BY <1>1, <1>5, <2>1, <2>3, <2>4, Numbers DEF IInv, Settled
  <2>6. Shape' /\ Fresh' BY <1>1, <1>5 DEF IInv, Shape, Fresh
  <2>7. Answered' BY <1>1, <1>5, PassedOver DEF IInv, Answered, Underway
  <2>8. Excused' BY <1>5, PassedOver DEF Excused
  <2>9. Ordered' BY <1>1, <1>5, <2>1, Numbers DEF IInv, Ordered, Reached
  <2> QED BY <2>2, <2>9, <2>5, <2>6, <2>7, <2>8 DEF IInv
<1>6. CASE GiveUp(t) BY <1>5, <1>6 DEF GiveUp
<1>7. CASE Reload(t)
  <2>1. /\ tail'[t].since = entry.uploaded /\ tail'[t].at = "reloaded"
        /\ \A u \in Tail : u # t => tail'[u] = tail[u]
        BY <1>0, <1>7 DEF Reload
  <2>2. UNCHANGED <<run, fate>> BY <1>7 DEF Reload
  <2>3. Past'
    <3>1. \A u \in Tail : tail'[u].since < clock' BY <1>1, <2>1 DEF IInv, Past
    <3> QED BY <1>1, <2>2, <3>1 DEF IInv, Past
  <2>4. Settled'
    <3>1. \A n \in Nat : Covered(n) => Covered(n)' BY <1>1, <2>2 DEF Covered, Good
    <3>2. \A u \in Tail : Covered(tail[u].since)'
          BY <2>1, <3>1, <1>1, Numbers DEF IInv, Settled
    <3> QED BY <1>1, <2>2, <3>1, <3>2, Numbers DEF IInv, Settled
  <2>5. Shape' /\ Answered' /\ Fresh'
        BY <1>1, <2>2 DEF IInv, Shape, Answered, Fresh, Good, Underway
  <2>6. Excused' BY <2>1 DEF Excused, TailAt
  <2>7. Ordered'
    <3>1. \A u \in Tail : tail'[u].since <= entry.uploaded
          BY <2>1, Numbers DEF IInv, Ordered
    <3> QED BY <1>1, <2>2, <3>1 DEF IInv, Ordered, Reached
  <2> QED BY <2>3, <2>4, <2>5, <2>6, <2>7 DEF IInv
<1>8. CASE Trigger(t)
  <2>1. CASE run.at = "idle"
    <3>1. /\ run' = [run EXCEPT !.at = "queued", !.since = tail[t].since]
          /\ tail' = [tail EXCEPT ![t] = NoTail] /\ UNCHANGED fate
          BY <1>8, <2>1 DEF Trigger
    <3>2. /\ run'.at = "queued" /\ run'.since = tail[t].since /\ run'.latest = run.latest
          /\ run'.todo = run.todo /\ run'.job = run.job /\ run'.got = run.got
          BY <3>1 DEF TypeOK
    <3>3. \A u \in Tail : tail'[u].since \in {0, tail[u].since} BY <1>0, <3>1 DEF NoTail
    <3>4. Past' BY <1>1, <3>1, <3>2, <3>3, Numbers DEF IInv, Past
    <3>5. \A n \in Nat : Covered(n) => Covered(n)' BY <1>1, <3>1 DEF Covered, Good
    <3>6. Covered(0)' BY Numbers, <1>1 DEF Covered
    <3>7. Settled' BY <1>1, <3>2, <3>3, <3>5, <3>6, Numbers DEF IInv, Settled
    <3>8. Shape' /\ Answered' /\ Fresh' BY <1>1, <2>1, <3>2 DEF IInv, Shape, Answered, Fresh
    <3>9. Excused' BY <3>2 DEF Excused
    <3>10. Ordered' BY <1>1, <3>2, <3>3, Numbers DEF IInv, Ordered, Reached
    <3> QED BY <3>4, <3>10, <3>7, <3>8, <3>9 DEF IInv
  <2>2. CASE run.at # "idle" BY <1>5, <1>8, <2>2 DEF Trigger, RunAt
  <2> QED BY <2>1, <2>2
<1> QED BY <1>3, <1>4, <1>6, <1>7, <1>8 DEF TailStep

-----------------------------------------------------------------------------
(* Upload runs.                                                            *)

\* A run that is over answers for nothing any more.
LEMMA RunOver ==
  ASSUME TypeOK, IInv, run' = NoRun, UNCHANGED <<clock, local, playing, tail>>,
         \A f \in File : Good(f) => Good(f)',
         \A f \in File : fate'[f] = "nothing" => fate[f] = "nothing",
         entry'.uploaded \in {entry.uploaded, run.latest},
         entry.uploaded <= entry'.uploaded, Covered(entry'.uploaded),
         (~playing /\ \A t \in Tail : TailAt(t, "none")) =>
             \A f \in File : fate'[f] = "nothing" =>
                 local[f].time <= entry'.uploaded + Slack
  PROVE  IInv'
<1>1. /\ run'.at = "idle" /\ run'.since = 0 /\ run'.latest = 0
      /\ run'.todo = {} /\ run'.job = {}
      BY DEF NoRun
<1>2. clock \in Nat /\ clock >= 1 BY Numbers
<1>3. Past' BY <1>1, <1>2 DEF IInv, Past
<1>4. \A n \in Nat : Covered(n) => Covered(n)' BY DEF Covered
<1>5. Covered(0)' BY Numbers DEF Covered
<1>6. Settled' BY <1>1, <1>4, <1>5, Numbers DEF IInv, Settled
<1>7. Shape' /\ Answered' /\ Fresh' /\ Excused'
      BY <1>1 DEF Shape, Answered, Fresh, Excused, Within, TailAt
<1>8. Ordered' BY <1>1, Numbers DEF IInv, Ordered, Reached
<1> QED BY <1>3, <1>6, <1>7, <1>8 DEF IInv

\* One job is over, and what became of its content is known.
LEMMA JobOver ==
  ASSUME TypeOK, IInv, NEW f \in File, RunAt("sending"), f \in run.job,
         NEW what \in {"failed", "stored"}, Known(f, run.got[f], what),
         NEW some \in BOOLEAN,
         run' = [run EXCEPT !.at = "posting", !.job = {}, !.got = [run.got EXCEPT ![f] = 0],
                            !.some = some],
         clock' \in {clock, clock + 1}, UNCHANGED <<local, entry, playing, tail>>
  PROVE  IInv'
<1>1. /\ run'.at = "posting" /\ run'.job = {} /\ run'.todo = run.todo
      /\ run'.since = run.since /\ run'.latest = run.latest
      /\ \A g \in File : g # f => run'.got[g] = run.got[g]
      BY DEF TypeOK
<1>2. run.job = {f} BY DEF IInv, Shape
<1>3. \A g \in File : Good(g) => Good(g)' BY DEF TypeOK, Known, Good
<1>4. \A g \in File : fate'[g] = "nothing" => fate[g] = "nothing" BY DEF TypeOK, Known
<1>5. local[f].time \in 1..run.latest => Good(f)'
  <2>1. local[f].time \in 1..run.latest => run.got[f] = local[f].made
        BY DEF IInv, Fresh
  <2> QED BY <2>1 DEF TypeOK, Known, Good
<1>6. Past' BY <1>1, <1>4, Numbers DEF IInv, Past
<1>7. \A n \in Nat : Covered(n) => Covered(n)' BY <1>3 DEF Covered
<1>8. Settled' BY <1>1, <1>7, Numbers DEF IInv, Settled
<1>8a. Ordered' BY <1>1 DEF IInv, Ordered, Reached, RunAt
<1>9. Shape' BY <1>1 DEF Shape
<1>1a. Answered'
  <2> SUFFICES ASSUME NEW g \in File, local[g].time \in 1..run.latest
               PROVE  Good(g)' \/ g \in run.todo
      BY <1>1 DEF Answered, Underway
  <2> QED BY <1>2, <1>3, <1>5 DEF IInv, Answered, Underway, RunAt
<1>11. Fresh'
  <2> SUFFICES ASSUME NEW g \in File, g \in run.todo, g \notin Raw,
                      local[g].time \in 1..run.latest
               PROVE  run'.got[g] = local[g].made
      BY <1>1 DEF Fresh
  <2>1. g # f => run'.got[g] = local[g].made BY <1>1 DEF IInv, Fresh
  <2>2. f \notin run.todo BY DEF IInv, Shape
  <2> QED BY <2>1, <2>2
<1>12. Excused'
  <2> SUFFICES ASSUME ~playing /\ \A t \in Tail : TailAt(t, "none"),
                      NEW g \in File, fate'[g] = "nothing"
               PROVE  Within(g) \/ (g \in run.todo /\ local[g].time \in 1..run.latest)
      BY <1>1 DEF Excused, Within, TailAt, Underway
  <2>1. Within(g) \/ (Underway(g) /\ local[g].time \in 1..run.latest)
        BY <1>4 DEF IInv, Excused, RunAt
  <2>2. CASE Within(g) BY <2>2
  <2>3. CASE Underway(g) /\ local[g].time \in 1..run.latest
    <3>1. g # f BY <1>5, <2>3 DEF Good
    <3> QED BY <1>2, <2>3, <3>1 DEF Underway
  <2> QED BY <2>1, <2>2, <2>3
<1> QED BY <1>6, <1>8, <1>8a, <1>9, <1>1a, <1>11, <1>12 DEF IInv

\* The run goes on with the same files to answer for, or fewer that were sent.
LEMMA RunOn ==
  ASSUME TypeOK, IInv, UNCHANGED <<clock, local, entry, playing, tail, fate>>,
         run'.since = run.since, run'.latest = run.latest,
         run.at \in {"posting", "sending", "pruning"},
         run'.at \in {"posting", "sending", "pruning"},
         Shape', Fresh', \A f \in File : Underway(f) <=> Underway(f)',
         run'.at = "pruning" => \A f \in File : ~Underway(f)
  PROVE  IInv'
<1>1. Past' BY DEF IInv, Past
<1>2. Settled' BY DEF IInv, Settled, Covered, Good
<1>3. Answered' BY DEF IInv, Answered, Good
<1>4. Excused' BY DEF IInv, Excused, Within, TailAt
<1>5. Ordered' BY DEF IInv, Ordered, Reached
<1> QED BY <1>1, <1>2, <1>3, <1>4, <1>5 DEF IInv

LEMMA RunHolds ==
  ASSUME TypeOK, IInv, RunStep
  PROVE  IInv'
<1>1. CASE Plan
  <2>1. PICK latest \in {local[f].time : f \in File} :
          /\ IsLatest(latest)
          /\ run' = IF Moved(run.since, latest) THEN WithJobs(latest) ELSE NoRun
        BY <1>1 DEF Plan
  <2>2. latest \in Nat /\ latest < clock BY <2>1, Numbers DEF IInv, Past
  <2>3. UNCHANGED <<clock, local, entry, playing, tail, fate>> /\ run.at = "queued"
        BY <1>1 DEF Plan, RunOnly, Nothing, RunAt
  <2>4. CASE Moved(run.since, latest)
    <3>1. run' = WithJobs(latest) BY <2>1, <2>4
    <3>2. /\ run'.at = "posting" /\ run'.latest = latest /\ run'.todo = Present
          /\ run'.since = run.since /\ run'.job = run.job
          /\ \A f \in File \ Raw : run'.got[f] = local[f].made
          BY <3>1 DEF WithJobs, TypeOK
    <3>3. run.job = {} BY <2>3 DEF IInv, Shape
    <3>4. \A f \in File : f \in Present <=> local[f].time > 0 BY DEF Present
    <3>5. \A f \in File : local[f].time > 0 => local[f].time \in 1..latest
          BY <2>1, <2>2, Numbers DEF IsLatest
    <3>6. Past' BY <2>2, <2>3, <3>2, Numbers DEF IInv, Past
    <3>7. Settled' BY <2>3, <3>2 DEF IInv, Settled, Covered, Good
    <3>8. Shape' BY <3>2, <3>3 DEF Shape
    <3>9. Answered' BY <2>2, <2>3, <3>2, <3>4, Numbers DEF Answered, Underway
    <3>10. Fresh' BY <2>3, <3>2, <3>3 DEF Fresh
    <3>11. Excused'
      <4>1. \A f \in File : fate[f] = "nothing" =>
               f \in Present /\ local[f].time \in 1..latest
            BY <3>4, <3>5 DEF IInv, Past
      <4> QED BY <2>3, <3>2, <4>1 DEF Excused, Underway
    <3>12. Ordered'
      <4>1. entry.uploaded <= latest
            BY <2>1, <2>2, Numbers DEF IInv, Ordered, Reached, IsLatest
      <4>2. Reached(latest) BY <2>1, <2>2, Numbers DEF Reached, IsLatest
      <4> QED BY <2>3, <3>2, <4>1, <4>2 DEF IInv, Ordered, Reached
    <3> QED BY <3>6, <3>7, <3>8, <3>9, <3>10, <3>11, <3>12 DEF IInv
  <2>5. CASE ~Moved(run.since, latest)
    <3>1. \A f \in File : local[f].time <= entry.uploaded + Slack
      <4>1. latest <= run.since + Slack BY <2>2, <2>5, Numbers DEF Moved
      <4>2. latest <= entry.uploaded + Slack
            BY <2>2, <4>1, Numbers DEF IInv, Ordered
      <4> QED BY <2>1, <2>2, <4>2, Numbers DEF IsLatest
    <3>2. Covered(entry.uploaded) BY DEF IInv, Settled
    <3> QED BY <2>1, <2>3, <2>5, <3>1, <3>2, Numbers, RunOver DEF Good
  <2> QED BY <2>4, <2>5
<1>2. CASE PlanFails
  <2>1. \A f \in File : fate'[f] \in {"stored", "failed"} BY <1>2 DEF PlanFails
  <2>2. UNCHANGED <<clock, local, entry, playing, tail>> /\ run' = NoRun
        BY <1>2 DEF PlanFails, RunOnly, EndRun
  <2>3. Covered(entry.uploaded) BY DEF IInv, Settled
  <2> QED BY <2>1, <2>2, <2>3, Numbers, RunOver DEF Good
<1>3. CASE ListRecords
  <2>1. /\ run'.at = "pruning" /\ run'.since = run.since /\ run'.latest = run.latest
        /\ run'.todo = run.todo /\ run'.job = run.job /\ run'.got = run.got
        BY <1>3 DEF ListRecords, TypeOK
  <2>2. run.at = "posting" /\ run.todo = {} /\ run.job = {}
        BY <1>3 DEF ListRecords, RunAt, IInv, Shape
  <2>3. UNCHANGED <<clock, local, entry, playing, tail, fate>>
        BY <1>3 DEF ListRecords, RunOnly, Nothing
  <2>4. Shape' /\ Fresh' BY <2>1, <2>2 DEF Shape, Fresh
  <2> QED BY <2>1, <2>2, <2>3, <2>4, RunOn DEF Underway
<1>4. ASSUME run.todo = {}, run.job = {}, run.at \in {"posting", "pruning"},
             UNCHANGED <<clock, local, playing, tail, fate>>, run' = NoRun,
             entry'.uploaded \in {entry.uploaded, run.latest}
      PROVE  IInv'
  <2>1. Covered(run.latest) BY <1>4 DEF Covered, IInv, Answered, Underway
  <2>2. Covered(entry.uploaded) BY DEF IInv, Settled
  <2>3. entry.uploaded <= entry'.uploaded BY <1>4, Numbers DEF IInv, Ordered
  <2>4. (~playing /\ \A t \in Tail : TailAt(t, "none")) =>
            \A f \in File : fate'[f] = "nothing" =>
                local[f].time <= entry'.uploaded + Slack
    <3>1. (~playing /\ \A t \in Tail : TailAt(t, "none")) =>
              \A f \in File : fate'[f] = "nothing" => Within(f)
          BY <1>4 DEF IInv, Excused, Underway
    <3> QED BY <1>4, <2>3, <3>1, Numbers DEF Within
  <2>5. Covered(entry'.uploaded) BY <1>4, <2>1, <2>2
  <2> QED BY <1>4, <2>3, <2>4, <2>5, RunOver DEF Good
<1>5. CASE NothingUploaded
  <2>1. run.todo = {} /\ run.job = {} /\ run.at = "posting"
        BY <1>5 DEF NothingUploaded, RunAt, IInv, Shape
  <2> QED BY <1>4, <1>5, <2>1 DEF NothingUploaded, RunOnly, Nothing, EndRun
<1>6. CASE Summarize
  <2>1. run.todo = {} /\ run.job = {} /\ run.at = "pruning"
        BY <1>6 DEF Summarize, RunAt, IInv, Shape
  <2>2. entry'.uploaded \in {entry.uploaded, run.latest} BY <1>6 DEF Summarize, TypeOK
  <2> QED BY <1>4, <1>6, <2>1, <2>2 DEF Summarize, EndRun
<1>7. ASSUME NEW f \in File, Send(f) PROVE IInv'
  <2>1. /\ run'.at = "sending" /\ run'.since = run.since /\ run'.latest = run.latest
        /\ run'.todo = run.todo \ {f} /\ run'.job = {f}
        /\ run'.got[f] = IF f \in Raw THEN local[f].made ELSE run.got[f]
        /\ \A g \in File : g # f => run'.got[g] = run.got[g]
        BY <1>7 DEF Send, TypeOK
  <2>2. run.at = "posting" /\ run.job = {} /\ f \in run.todo
        BY <1>7 DEF Send, RunAt, IInv, Shape
  <2>3. UNCHANGED <<clock, local, entry, playing, tail, fate>>
        BY <1>7 DEF Send, RunOnly, Nothing
  <2>4. Shape' BY <2>1 DEF Shape
  <2>5. Fresh'
    <3> SUFFICES ASSUME NEW g \in File,
                        (g \in run'.todo /\ g \notin Raw) \/ g \in run'.job,
                        local[g].time \in 1..run.latest
                 PROVE  run'.got[g] = local[g].made
        BY <2>1, <2>3 DEF Fresh
    <3>1. CASE g = f BY <2>1, <2>2, <3>1 DEF IInv, Fresh
    <3>2. CASE g # f BY <2>1, <3>2 DEF IInv, Fresh
    <3> QED BY <3>1, <3>2
  <2>6. \A g \in File : Underway(g) <=> Underway(g)' BY <2>1, <2>2 DEF Underway
  <2> QED BY <2>1, <2>2, <2>3, <2>4, <2>5, <2>6, RunOn
<1>8. ASSUME NEW f \in File, Store(f) PROVE IInv'
  <2>1. PICK some \in {TRUE, run.some} :
          run' = [run EXCEPT !.at = "posting", !.job = {},
                             !.got = [run.got EXCEPT ![f] = 0], !.some = some]
        BY <1>8 DEF Store
  <2>2. run \in RunType BY DEF TypeOK, RunType
  <2>3. some \in BOOLEAN BY <2>2, Zenon DEF RunType
  <2> QED BY <1>8, <2>1, <2>3, JobOver DEF Store, Tick
<1>9. ASSUME NEW f \in File, PostFails(f) PROVE IInv'
  <2>1. run' = [run EXCEPT !.at = "posting", !.job = {}, !.got = [run.got EXCEPT ![f] = 0],
                           !.some = run.some]
        BY <1>9 DEF PostFails, TypeOK
  <2>2. run \in RunType BY DEF TypeOK, RunType
  <2>3. run.some \in BOOLEAN BY <2>2, Zenon DEF RunType
  <2> QED BY <1>9, <2>1, <2>3, JobOver DEF PostFails, RunOnly
<1>1a. ASSUME NEW r \in records, Prune(r) PROVE IInv'
  <2>1. /\ run'.at = run.at /\ run'.since = run.since /\ run'.latest = run.latest
        /\ run'.todo = run.todo /\ run'.job = run.job /\ run'.got = run.got
        BY <1>1a DEF Prune, TypeOK
  <2>2. run.at = "pruning" /\ run.todo = {} /\ run.job = {}
        BY <1>1a DEF Prune, RunAt, IInv, Shape
  <2>3. UNCHANGED <<clock, local, entry, playing, tail, fate>>
        BY <1>1a DEF Prune, RunOnly
  <2>4. Shape' /\ Fresh' BY <2>1, <2>2 DEF Shape, Fresh
  <2> QED BY <2>1, <2>2, <2>3, <2>4, RunOn DEF Underway
<1> QED BY <1>1, <1>2, <1>3, <1>5, <1>6, <1>7, <1>8, <1>9, <1>1a DEF RunStep

THEOREM Inductive == Spec => []IInv
<1>1. TypeOK /\ IInv /\ [Next]_vars => IInv'
  <2> SUFFICES ASSUME TypeOK, IInv, [Next]_vars PROVE IInv' OBVIOUS
  <2>1. CASE UNCHANGED vars BY <2>1, StillHolds DEF vars
  <2> QED BY <2>1, TimePassesHolds, OutsideHolds, CommandHolds, TailHolds, RunHolds DEF Next
<1> QED BY <1>1, InitHolds, TypeCorrect, PTL DEF Spec

\* What the entry counts as uploaded is on the server or was reported to have
\* failed, however often the files change under a run that answers for them
\* (run_auto_upload, summarize_auto_cloud_upload_result).
THEOREM UploadedIsStored == Spec => []UploadedMeansStored
<1>1. IInv => UploadedMeansStored
      BY DEF IInv, Settled, Covered, Good, UploadedMeansStored
<1> QED BY <1>1, Inductive, PTL

\* When the game, the tasks after it and the run are over, a save that nobody
\* stored, reported or passed over lies within the slack of what the entry
\* counts as uploaded, and not before it (handle_session_finished,
\* auto_cloud_upload_plan).
THEOREM NothingForgotten == Spec => []SavedOrExcused
<1>1. TypeOK /\ IInv => SavedOrExcused
  <2> SUFFICES ASSUME TypeOK, IInv, ~playing, \A t \in Tail : TailAt(t, "none"),
                      RunAt("idle"), NEW f \in File, fate[f] = "nothing"
               PROVE  local[f].time \in entry.uploaded + 1 .. entry.uploaded + Slack
      BY DEF SavedOrExcused
  <2>1. local[f].time <= entry.uploaded + Slack
        BY DEF IInv, Excused, Within, RunAt
  <2>2. ~(local[f].time \in 1..entry.uploaded) /\ local[f].time > 0
        BY DEF IInv, Past, Settled, Covered, Good
  <2> QED BY <2>1, <2>2, Numbers
<1> QED BY <1>1, TypeCorrect, Inductive, PTL
-----------------------------------------------------------------------------
(* Pruning keeps the newest.                                               *)

\* What is about to go has a younger record of its file that is to stay.
Outlived ==
    \A r \in run.stale : \E q \in records :
        q \notin run.stale /\ q.file = r.file /\ q.at > r.at

LEMMA LeastNumber ==
  ASSUME NEW T \in SUBSET Nat, T # {}
  PROVE  \E x \in T : \A y \in T : x <= y
<1> DEFINE R == OpToRel(<, Nat)
<1>1. IsWellFoundedOn(R, Nat) BY NatLessThanWellFounded
<1>2. \A x, y \in T : <<y, x>> \in R <=> y < x BY DEF OpToRel
<1> HIDE DEF R
<1>3. PICK x \in T : \A y \in T : <<y, x>> \notin R BY <1>1, WFMin
<1>4. \A y \in T : ~(y < x) BY <1>2, <1>3
<1>5. \A y \in T : x <= y
  <2> TAKE y \in T
  <2>1. x \in Nat /\ y \in Nat OBVIOUS
  <2> QED BY <1>4, <2>1
<1> QED BY <1>5

LEMMA GreatestNumber ==
  ASSUME NEW n \in Nat, NEW T \in SUBSET (0..n), T # {}
  PROVE  \E x \in T : \A y \in T : y <= x
<1> DEFINE U == {k \in Nat : \A x \in T : x <= k}
<1>1. n \in U OBVIOUS
<1>2. PICK u \in U : \A v \in U : u <= v BY <1>1, LeastNumber
<1>3. u \in Nat /\ \A x \in T : x <= u OBVIOUS
<1>4. CASE u \in T BY <1>3, <1>4
<1>5. CASE u \notin T
  <2>1. \A x \in T : x \in Nat /\ x < u BY <1>3, <1>5
  <2>2. PICK x \in T : TRUE OBVIOUS
  <2>3. u # 0 BY <2>1, <2>2
  <2>4. u - 1 \in Nat /\ \A y \in T : y <= u - 1 BY <1>3, <2>1, <2>3
  <2>5. u - 1 \in U BY <2>4
  <2> QED BY <1>2, <1>3, <2>5
<1> QED BY <1>4, <1>5

\* The youngest record of a list is never beyond the newest Keep.
LEMMA StaleIsOutlived ==
  ASSUME NEW listed \in SUBSET Record, NEW r \in Stale(listed)
  PROVE  /\ r \in listed
         /\ \E q \in listed \ Stale(listed) : q.file = r.file /\ q.at > r.at
<1> DEFINE Younger(x) == {q \in listed : q.file = x.file /\ q.at > x.at}
<1>1. Keep \in Nat /\ Keep >= 1 BY CloudAssumption DEF Stale
<1>1a. Stale(listed) = {x \in listed : Cardinality(Younger(x)) >= Keep}
      BY <1>1 DEF Stale
<1>2. r \in listed /\ Cardinality(Younger(r)) >= Keep
  <2> HIDE DEF Younger
  <2> QED BY <1>1a
<1>3. Younger(r) # {}
  <2>1. SUFFICES ASSUME Younger(r) = {} PROVE FALSE OBVIOUS
  <2>2. Cardinality(Younger(r)) = 0 BY <2>1, FS_EmptySet
  <2> HIDE DEF Younger
  <2> QED BY <1>1, <1>2, <2>2
<1> DEFINE T == {q.at : q \in Younger(r)}
<1>4. T \in SUBSET (0..MaxClock) /\ T # {} BY <1>3 DEF Record, Times
<1> HIDE DEF T
<1>5. PICK x \in T : \A y \in T : y <= x BY <1>4, GreatestNumber, CloudAssumption
<1>6. PICK q \in Younger(r) : q.at = x BY <1>5 DEF T
<1>7. Younger(q) = {}
  <2> SUFFICES ASSUME NEW z \in Younger(q) PROVE FALSE OBVIOUS
  <2>1. /\ z \in listed /\ q \in listed /\ r \in listed
        /\ z.at \in Nat /\ q.at \in Nat /\ r.at \in Nat
        BY <1>2 DEF Record, Times
  <2>2. z.file = q.file /\ z.at > q.at /\ q.file = r.file /\ q.at > r.at OBVIOUS
  <2>3. z.at > r.at BY <2>1, <2>2
  <2>4. z.at \in T BY <2>1, <2>2, <2>3 DEF T
  <2> QED BY <1>5, <1>6, <2>1, <2>2, <2>4
<1>8. Cardinality(Younger(q)) = 0 BY <1>7, FS_EmptySet
<1>9. q \notin Stale(listed)
  <2>1. ~(Cardinality(Younger(q)) >= Keep) BY <1>1, <1>8
  <2> HIDE DEF Younger
  <2> QED BY <1>1a, <2>1
<1> QED BY <1>2, <1>6, <1>9

LEMMA OutlivedStays ==
  ASSUME TypeOK, Outlived, [Next]_vars
  PROVE  Outlived'
<1>1. ASSUME records \subseteq records', run'.stale \subseteq run.stale
      PROVE  Outlived'
      BY <1>1 DEF Outlived
<1>2. CASE UNCHANGED vars BY <1>1, <1>2 DEF vars
<1>3. ASSUME TimePasses \/ \E f \in File : PlaySaves(f) \/ OtherDevice(f)
      PROVE  Outlived'
      BY <1>1, <1>3 DEF TimePasses, PlaySaves, OtherDevice
<1>4. ASSUME NEW c \in Command, CommandStep(c) PROVE Outlived'
      BY <1>1, <1>4 DEF CommandStep, LoadInputs, SkipRestore, LockCaches, Check,
           RestoreFails, Place, SaveDownloaded, StartGame, LaunchFails, Choose, CommandOnly
<1>5. ASSUME NEW t \in Tail, EndSession(t) \/ TailStep(t) PROVE Outlived'
  <2>1. UNCHANGED records /\ run'.stale = run.stale
        BY <1>5 DEF EndSession, TailStep, ClearCaches, StampFails, GiveUp, Reload, Trigger,
                    TailOnly, TypeOK
  <2> QED BY <1>1, <2>1
<1>6. CASE ListRecords
  <2>1. records \in SUBSET Record /\ {} \in SUBSET Record BY DEF TypeOK
  <2>2. PICK listed \in {records, {}} : run'.stale = Stale(listed) /\ UNCHANGED records
        BY <1>6 DEF ListRecords, RunOnly, Nothing, TypeOK
  <2>3. ASSUME NEW r \in run'.stale
        PROVE  \E q \in records' : q \notin run'.stale /\ q.file = r.file /\ q.at > r.at
    <3>1. r \in Stale(listed) /\ listed \in SUBSET Record BY <2>1, <2>2
    <3>2. PICK q \in listed \ Stale(listed) : q.file = r.file /\ q.at > r.at
          BY <3>1, StaleIsOutlived
    <3> QED BY <2>2, <3>2
  <2> QED BY <2>3 DEF Outlived
<1>7. CASE Plan \/ PlanFails \/ NothingUploaded \/ Summarize
  <2>1. UNCHANGED records
        BY <1>7 DEF Plan, PlanFails, NothingUploaded, Summarize, Nothing
  <2>2. NoRun.stale = {} /\ \A latest : WithJobs(latest).stale = run.stale
        BY DEF NoRun, WithJobs, TypeOK
  <2>3. run' = NoRun \/ \E latest : run' = WithJobs(latest)
        BY <1>7 DEF Plan, PlanFails, NothingUploaded, Summarize, EndRun
  <2>4. run'.stale \in {run.stale, {}} BY <2>2, <2>3
  <2> QED BY <1>1, <2>1, <2>4
<1>8. ASSUME NEW f \in File, Send(f) \/ Store(f) \/ PostFails(f) PROVE Outlived'
  <2>1. records \subseteq records' BY <1>8 DEF Send, Store, PostFails, Nothing
  <2>2. CASE Send(f)
    <3>1. run'.stale = run.stale BY <2>2 DEF Send, TypeOK
    <3> QED BY <1>1, <2>1, <3>1
  <2>3. CASE Store(f)
    <3>1. PICK some \in {TRUE, run.some} :
             run' = [run EXCEPT !.at = "posting", !.job = {},
                                !.got = [run.got EXCEPT ![f] = 0], !.some = some]
          BY <2>3 DEF Store
    <3>2. run'.stale = run.stale BY <3>1 DEF TypeOK
    <3> QED BY <1>1, <2>1, <3>2
  <2>4. CASE PostFails(f)
    <3>1. run'.stale = run.stale BY <2>4 DEF PostFails, TypeOK
    <3> QED BY <1>1, <2>1, <3>1
  <2> QED BY <1>8, <2>2, <2>3, <2>4
<1>9. ASSUME NEW r \in records, Prune(r) PROVE Outlived'
  <2>1. run'.stale = run.stale \ {r} BY <1>9 DEF Prune, TypeOK
  <2>2. r \in run.stale /\ records \ {r} \subseteq records' BY <1>9 DEF Prune
  <2> QED BY <2>1, <2>2 DEF Outlived
<1> QED BY <1>2, <1>3, <1>4, <1>5, <1>6, <1>7, <1>8, <1>9 DEF Next, RunStep

\* However old the list is that pruning works on, the newest record of a file
\* stays (saves_to_prune).
THEOREM NewestIsKept == Spec => NewestStays
<1>1. Init => Outlived BY DEF Init, Outlived, NoRun
<1>2. TypeOK /\ Outlived /\ [Next]_vars => Outlived' BY OutlivedStays
<1>3. TypeOK /\ Outlived /\ [Next]_vars =>
          [\A f \in File : \A r \in records :
              r.file = f => \E q \in records' : q.file = f /\ q.at >= r.at]_vars
  <2> SUFFICES ASSUME TypeOK, Outlived, Next, NEW r \in records
               PROVE  \E q \in records' : q.file = r.file /\ q.at >= r.at
      OBVIOUS
  <2>1. r.at \in Nat /\ \A q \in records : q.at \in Nat BY DEF TypeOK, Record, Times
  <2>2. CASE r \in records' BY <2>1, <2>2
  <2>3. CASE r \notin records'
    <3>1. Prune(r)
      <4>1. ~TimePasses /\ ~ \E f \in File : PlaySaves(f) \/ OtherDevice(f)
            BY <2>3 DEF TimePasses, PlaySaves, OtherDevice
      <4>2. ~ \E c \in Command : CommandStep(c)
            BY <2>3 DEF CommandStep, LoadInputs, SkipRestore, LockCaches, Check,
               RestoreFails, Place, SaveDownloaded, StartGame, LaunchFails, Choose, CommandOnly
      <4>3. ~ \E t \in Tail : EndSession(t) \/ TailStep(t)
            BY <2>3 DEF EndSession, TailStep, ClearCaches, StampFails, GiveUp, Reload,
                        Trigger, TailOnly
      <4>4. ~(Plan \/ PlanFails \/ ListRecords \/ NothingUploaded \/ Summarize)
            BY <2>3 DEF Plan, PlanFails, ListRecords, NothingUploaded, Summarize, Nothing
      <4>5. ~ \E f \in File : Send(f) \/ Store(f) \/ PostFails(f)
            BY <2>3 DEF Send, Store, PostFails, Nothing
      <4>6. PICK q \in records : Prune(q) BY <4>1, <4>2, <4>3, <4>4, <4>5 DEF Next, RunStep
      <4> QED BY <2>3, <4>6 DEF Prune
    <3>2. r \in run.stale /\ records \ {r} \subseteq records' BY <3>1 DEF Prune
    <3>3. PICK q \in records : q \notin run.stale /\ q.file = r.file /\ q.at > r.at
          BY <3>2 DEF Outlived
    <3> QED BY <2>1, <3>2, <3>3
  <2> QED BY <2>2, <2>3
<1>4. Spec => [](TypeOK /\ Outlived) BY <1>1, <1>2, TypeCorrect, PTL DEF Spec
<1> QED BY <1>3, <1>4, PTL DEF Spec, NewestStays
=============================================================================
