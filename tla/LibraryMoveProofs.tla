------------------------- MODULE LibraryMoveProofs -------------------------
(* What LibraryMove keeps for any folders, strategies and bounds.           *)
(*                                                                          *)
(* MInv is inductive. Its heart is the way of a digest: TakeDigest reads it *)
(* from the old root, VerifyTree has it in the staged copy, RecordCopied    *)
(* writes it down, and from then on it is in the copy wherever that is      *)
(* (Recorded); nothing that Cleanup deletes is missing at the new root      *)
(* (Removing). TypeCorrect and GateFollowsJournal hold whatever happens.    *)
(* The other theorems assume ~RollbackBreaks: a rollback that stops halfway *)
(* is the code's known gap, and the run move_rollback shows it.             *)
EXTENDS LibraryMove, WellFoundedInduction, TLAPS

\* Which phase the engine's steps belong to, and where the library is then.
Phases ==
    /\ pc \in {"next", "digest", "copy", "copying", "verify", "copied",
               "rollback", "forget"} => journal.phase = "copy"
    /\ pc \in {"place", "placed", "registry", "switch", "scan"} => journal.phase = "commit"
    /\ pc \in {"clean", "remove", "removed"} => journal.phase = "cleanup"
    /\ journal.phase = "copy" => root = "old" /\ new = Nowhere
    /\ journal.phase = "cleanup" => root = "new"
    /\ pc = "switch" => refs = "new"
    /\ pc = "scan" => root = "new"

\* The item the engine is at.
AtItem ==
    /\ pc \in {"digest", "copy", "copying", "verify", "copied"} =>
          cur \in Items /\ Strategy[cur] = "copy"
    /\ pc \in {"place", "placed", "remove", "removed"} => cur \in Items

\* The root in use holds the library.
Complete ==
    /\ root = "old" /\ journal.phase \in {"none", "copy"} =>
          refs = "old" /\ \A i \in Items : 1 .. written[i] \subseteq old[i]
    /\ root = "new" => refs = "new" /\ \A i \in Items : Exists(new[i])

\* How far Commit has come.
Placed ==
    /\ pc = "place" => \A i \in Items : i < cur => Exists(new[i])
    /\ pc = "placed" => \A i \in Items : i <= cur => Exists(new[i])
    /\ pc \in {"registry", "switch", "scan"} => \A i \in Items : Exists(new[i])

\* Where the copy of a recorded item is.
Copy(i) == IF Exists(new[i]) THEN new[i] ELSE staging[i]

\* What Cleanup will compare a source with is in its copy, unless the copies
\* are being given up.
Recorded ==
    /\ \A i \in Items : Strategy[i] = "rename" => journal.digest[i] = Gone
    /\ ~InRollback => \A i \in Items : journal.digest[i] \subseteq Copy(i)
    /\ pc \in {"copy", "copying", "verify"} => digest \subseteq old[cur]
    /\ pc = "copied" => digest \subseteq staging[cur]

\* A copy adds nothing of its own.
FromOld ==
    journal.phase \in {"copy", "commit"} =>
        \A i \in Items : Strategy[i] = "copy" => staging[i] \subseteq old[i] \cup {0}

\* What is being deleted is at the new root.
Removing == pc = "remove" => old[cur] \subseteq {0} \cup new[cur] \cup late[cur]

MInv ==
    /\ TypeOK /\ GateHeld
    /\ Phases /\ AtItem /\ Complete /\ Placed
    /\ Recorded /\ FromOld /\ Removing /\ NothingLost

-----------------------------------------------------------------------------
(* Types.                                                                  *)

LEMMA Typed ==
  /\ Gone \in Folder /\ 1 \in 1 .. N + 1
  /\ NoJournal \in Journal /\ NoJournal.phase = "none"
  /\ \A i \in Items : NoJournal.digest[i] = Gone
  /\ Nowhere \in [Items -> Folder]
<1>1. Gone \in Folder /\ 1 \in 1 .. N + 1 BY MoveAssumption DEF Gone, Folder
<1> QED BY <1>1 DEF NoJournal, Journal, Nowhere

\* The journal keeps its type when an item gets a new state.
LEMMA StateTyped ==
  ASSUME TypeOK, NEW i, NEW s \in {"pending", "copied", "placed", "cleaned", "kept"}
  PROVE  [journal EXCEPT !.state[i] = s] \in Journal
  BY DEF TypeOK, Journal

LEMMA FoldersTyped ==
  ASSUME TypeOK, NEW i \in Items
  PROVE  /\ old[i] \in Folder /\ staging[i] \in Folder /\ new[i] \in Folder
         /\ \A some \in SUBSET old[i] : staging[i] \cup {0} \cup some \in Folder
         /\ staging[i] \cup old[i] \in Folder
         /\ LeftOf(old[i]) \subseteq Folder
         /\ \A p \in Pieces : old[i] \cup {0, p} \in Folder /\ new[i] \cup {p} \in Folder
<1>1. old[i] \in Folder /\ staging[i] \in Folder /\ new[i] \in Folder BY DEF TypeOK
<1>2. 0 \in 0 .. MaxPieces /\ Pieces \subseteq 0 .. MaxPieces
      BY MoveAssumption DEF Pieces
<1> QED BY <1>1, <1>2 DEF Folder, LeftOf

\* The next item to copy is one.
LEMMA LeastItem ==
  ASSUME ToCopy # {}
  PROVE  Min(ToCopy) \in ToCopy
<1>1. ToCopy \subseteq Nat BY DEF ToCopy, Items
<1>2. PICK x \in ToCopy : \A y \in Nat : <<y, x>> \in OpToRel(<, Nat) => y \notin ToCopy
      BY <1>1, NatLessThanWellFounded, WFMin
<1>3. \A y \in ToCopy : x <= y
  <2> SUFFICES ASSUME NEW y \in ToCopy, ~(x <= y) PROVE FALSE OBVIOUS
  <2>1. y \in Nat /\ x \in Nat BY <1>1
  <2>2. y < x BY <2>1
  <2>3. <<y, x>> \in OpToRel(<, Nat) BY <2>1, <2>2 DEF OpToRel
  <2> QED BY <1>2, <2>1, <2>3
<1> QED BY <1>3 DEF Min

LEMMA TypeKeeps ==
  ASSUME TypeOK, AtItem, Next
  PROVE  TypeOK'
<1> USE DEF At, Goto, Calm, disk, memory
<1>1. CASE EnterPhase BY <1>1, Typed DEF EnterPhase, TypeOK
<1>2. CASE NextItem
  <2>1. CASE ToCopy # {}
    <3>1. Min(ToCopy) \in 1 .. N + 1
          BY <2>1, LeastItem, MoveAssumption DEF ToCopy, Items
    <3> QED BY <1>2, <2>1, <3>1 DEF NextItem, TypeOK
  <2>2. CASE ToCopy = {}
    <3>1. journal' \in Journal BY <1>2, <2>2 DEF NextItem, TypeOK, Journal
    <3> QED BY <1>2, <2>2, <3>1 DEF NextItem, TypeOK
  <2> QED BY <2>1, <2>2
<1>3. CASE TakeDigest \/ VerifyTree BY <1>3 DEF TakeDigest, VerifyTree, TypeOK, AtItem
<1>4. CASE CopySome
  <2>1. staging' \in [Items -> Folder] BY <1>4, FoldersTyped DEF CopySome, TypeOK, AtItem
  <2> QED BY <1>4, <2>1 DEF CopySome, TypeOK
<1>5. CASE CopyRest
  <2>1. staging' \in [Items -> Folder]
        BY <1>5, FoldersTyped DEF CopyRest, TypeOK, AtItem
  <2> QED BY <1>5, <2>1 DEF CopyRest, TypeOK
<1>6. CASE RecordCopied
  <2>1. journal' \in Journal BY <1>6 DEF RecordCopied, TypeOK, Journal
  <2> QED BY <1>6, <2>1 DEF RecordCopied, TypeOK
<1>7. CASE PlaceItem
  <2>1. cur \in Items /\ Source(cur) \in Folder
        BY <1>7, FoldersTyped DEF PlaceItem, Source, AtItem
  <2>2. /\ old' \in [Items -> Folder] /\ staging' \in [Items -> Folder]
        /\ new' \in [Items -> Folder]
        BY <1>7, <2>1, Typed DEF PlaceItem, TypeOK
  <2>3. pc' = "placed" /\ pc # "off"
        BY <1>7 DEF PlaceItem
  <2> QED BY <1>7, <2>2, <2>3 DEF PlaceItem, TypeOK
<1>8. CASE RecordPlaced
  <2>1. journal' \in Journal BY <1>8 DEF RecordPlaced, TypeOK, Journal, AtItem
  <2>2. cur' \in 1 .. N + 1 BY <1>8, MoveAssumption DEF RecordPlaced, TypeOK
  <2> QED BY <1>8, <2>1, <2>2 DEF RecordPlaced, TypeOK
<1>9. CASE RewriteRegistry \/ SwitchRoot BY <1>9 DEF RewriteRegistry, SwitchRoot, TypeOK
<1>10. CASE ScanStale
  <2>1. PICK keep \in SUBSET Items :
           journal' = [journal EXCEPT !.phase = "cleanup", !.keep = @ \cup keep]
        BY <1>10 DEF ScanStale
  <2>2. journal' \in Journal BY <2>1 DEF TypeOK, Journal
  <2> QED BY <1>10, <2>2, ZenonT(40) DEF ScanStale, TypeOK
<1>11. CASE CleanItem
  <2>1. journal' \in Journal BY <1>11, StateTyped DEF CleanItem, Advance, TypeOK
  <2>2. cur' \in 1 .. N + 1 BY <1>11, MoveAssumption DEF CleanItem, Advance, TypeOK
  <2>3. pc' \in {"clean", "remove"} /\ pc # "off" BY <1>11 DEF CleanItem, Advance
  <2> QED BY <1>11, <2>1, <2>2, <2>3 DEF CleanItem, TypeOK
<1>12. CASE RemoveSource
  <2>1. old' \in [Items -> Folder]
        BY <1>12, FoldersTyped DEF RemoveSource, TypeOK, AtItem
  <2> QED BY <1>12, <2>1 DEF RemoveSource, TypeOK
<1>13. CASE RecordCleaned
  <2>1. journal' \in Journal BY <1>13, StateTyped DEF RecordCleaned, Advance, TypeOK
  <2>2. cur' \in 1 .. N + 1
        BY <1>13, MoveAssumption DEF RecordCleaned, Advance, TypeOK, AtItem, Items
  <2> QED BY <1>13, <2>1, <2>2 DEF RecordCleaned, TypeOK
<1>14. CASE Finish \/ Cancelled BY <1>14, Typed DEF Finish, Cancelled, Forget, TypeOK
<1>15. CASE RemoveStaging BY <1>15 DEF RemoveStaging, TypeOK
<1>16. CASE RemoveNewRoot BY <1>16 DEF RemoveNewRoot, TypeOK
<1>17. CASE GiveUp \/ Fail BY <1>17, Typed, ZenonT(40) DEF GiveUp, Fail, Stopped, TypeOK
<1>18. CASE Start
  <2>1. [NoJournal EXCEPT !.phase = "copy", !.created = ~newRoot] \in Journal
        BY Typed DEF Journal
  <2>2. journal' \in Journal BY <1>18, <2>1 DEF Start, TypeOK
  <2> QED BY <1>18, <2>2 DEF Start, Run, TypeOK
<1>19. CASE Resume BY <1>19 DEF Resume, Run, TypeOK
<1>20. CASE Cancel
  <2>1. cancels' \in 0 .. MaxCancels BY <1>20, MoveAssumption DEF Cancel, TypeOK
  <2>2. /\ pc' \in {pc, "rollback"} /\ actor' \in {actor, "cancel"} /\ stop' \in {stop, TRUE}
        /\ actor' = "none" <=> pc' = "off"
        BY <1>20 DEF Cancel, TypeOK
  <2>3. UNCHANGED <<disk, cur, digest, gateOpen, row, pending, written, late, crashes>>
        BY <1>20 DEF Cancel
  <2>4. pc' \in {"off", "start", "next", "digest", "copy", "copying", "verify", "copied",
                 "place", "placed", "registry", "switch", "scan", "clean", "remove",
                 "removed", "rollback", "forget"}
        BY <2>2 DEF TypeOK
  <2> QED BY <2>1, <2>2, <2>3, <2>4, ZenonT(40) DEF TypeOK
<1>21. CASE Crash
  <2>1. crashes' \in 0 .. MaxCrashes BY <1>21, MoveAssumption DEF Crash, TypeOK
  <2>2. /\ pc' \in {"off", "start"} /\ actor' \in {"none", "startup"}
        /\ actor' = "none" <=> pc' = "off"
        /\ cur' = 1 /\ digest' = Gone /\ stop' = FALSE /\ row' = "none"
        /\ gateOpen' \in BOOLEAN /\ pending' \in BOOLEAN
        BY <1>21 DEF Crash
  <2>3. UNCHANGED <<disk, written, late, cancels>> BY <1>21 DEF Crash
  <2> QED BY <2>1, <2>2, <2>3, Typed DEF TypeOK
<1>22. ASSUME NEW i \in Items, Write(i) PROVE TypeOK'
  <2>1. written' \in [Items -> Pieces] /\ written[i] + 1 \in Pieces
        BY <1>22, MoveAssumption DEF Write, TypeOK, Pieces
  <2>2. old' \in [Items -> Folder] /\ new' \in [Items -> Folder]
        BY <1>22, <2>1, FoldersTyped, ZenonT(40) DEF Write, TypeOK
  <2>3. late' \in [Items -> SUBSET Pieces] BY <1>22, <2>1 DEF Write, TypeOK
  <2> QED BY <1>22, <2>1, <2>2, <2>3 DEF Write, TypeOK
<1> QED BY <1>1, <1>2, <1>3, <1>4, <1>5, <1>6, <1>7, <1>8, <1>9, <1>10, <1>11, <1>12,
           <1>13,
           <1>14, <1>15, <1>16, <1>17, <1>18, <1>19, <1>20, <1>21, <1>22 DEF Next,
                                                                             Engine

-----------------------------------------------------------------------------
(* What each step does to the rest of the invariant.                       *)

\* The library, where nothing of it has changed.
LEMMA LibraryRests ==
  ASSUME MInv, UNCHANGED <<old, staging, new, root, refs, written, late>>
  PROVE  /\ NothingLost'
         /\ journal'.phase = journal.phase => Complete' /\ FromOld'
         /\ journal'.digest = journal.digest /\ ~InRollback =>
               \A i \in Items : journal'.digest[i] \subseteq Copy(i)'
  BY DEF MInv, NothingLost, Kept, Complete, FromOld, Recorded, Copy, Exists, Gone

LEMMA EnterPhaseKeeps ==
  ASSUME MInv, TypeOK', EnterPhase
  PROVE  MInv'
<1>1. UNCHANGED <<disk, digest, gateOpen, written, late>> /\ cur' = 1
      BY DEF EnterPhase, Calm
<1>2. GateHeld' /\ Phases' /\ AtItem'
      BY <1>1, MoveAssumption
         DEF EnterPhase, At, Goto, disk, MInv, GateHeld, Phases, AtItem, Items
<1>3. Placed' /\ Removing'
      BY <1>1 DEF EnterPhase, Goto, Placed, Removing, Items
<1>4. NothingLost' /\ Complete' /\ FromOld' BY <1>1, LibraryRests DEF disk
<1>5. Recorded'
      BY <1>1 DEF EnterPhase, At, Goto, disk, MInv, Recorded, Copy, InRollback
<1> QED BY <1>2, <1>3, <1>4, <1>5 DEF MInv

LEMMA NextItemKeeps ==
  ASSUME MInv, TypeOK', NextItem
  PROVE  MInv'
<1>1. /\ UNCHANGED <<old, staging, new, newRoot, root, refs, digest, gateOpen, written, late>>
      /\ pc = "next" /\ pc' \in {"digest", "start"} /\ journal.phase = "copy"
      BY DEF NextItem, Calm, At, Goto, MInv, Phases
<1>2. /\ journal'.digest = journal.digest
      /\ journal'.phase = IF pc' = "digest" THEN "copy" ELSE "commit"
      BY <1>1 DEF NextItem, Goto, MInv, TypeOK, Journal
<1>3. AtItem'
      BY <1>1, LeastItem DEF NextItem, Goto, AtItem, ToCopy
<1>4. GateHeld' /\ Phases' /\ Placed' /\ Removing'
      BY <1>1, <1>2 DEF MInv, GateHeld, Phases, Placed, Removing, At
<1>5. Complete' /\ FromOld'
      BY <1>1, <1>2 DEF MInv, Complete, FromOld, Phases
<1>6. Recorded'
      BY <1>1, <1>2 DEF MInv, Recorded, Copy, InRollback
<1> QED BY <1>1, <1>3, <1>4, <1>5, <1>6, LibraryRests DEF MInv

LEMMA CopyKeeps ==
  ASSUME MInv, TypeOK', CopySome \/ CopyRest
  PROVE  MInv'
<1>1. /\ UNCHANGED <<old, new, newRoot, root, refs, journal, cur, digest, gateOpen, written, late>>
      /\ pc \in {"copy", "copying"} /\ pc' \in {"copying", "verify", "rollback"}
      /\ journal.phase = "copy" /\ cur \in Items
      BY DEF CopySome, CopyRest, Calm, At, Goto, MInv, Phases, AtItem
<1>2. /\ \A i \in Items : staging[i] \subseteq staging'[i]
      /\ \A i \in Items : staging'[i] \subseteq staging[i] \cup {0} \cup old[i]
      BY <1>1 DEF CopySome, CopyRest, MInv, TypeOK
<1>3. GateHeld' /\ Phases' /\ AtItem' /\ Placed' /\ Removing'
      BY <1>1 DEF MInv, GateHeld, Phases, AtItem, Placed, Removing, At
<1>4. Complete' /\ NothingLost' BY <1>1 DEF MInv, Complete, NothingLost, Kept
<1>5. FromOld'
  <2> SUFFICES ASSUME NEW i \in Items, Strategy[i] = "copy"
               PROVE  staging'[i] \subseteq old[i] \cup {0}
      BY <1>1 DEF FromOld
  <2>1. staging[i] \subseteq old[i] \cup {0} BY <1>1 DEF MInv, FromOld
  <2> QED BY <1>2, <2>1
<1>6. Recorded'
  <2>1. \A i \in Items : Copy(i) \subseteq Copy(i)' BY <1>1, <1>2 DEF Copy
  <2> QED BY <1>1, <2>1 DEF MInv, Recorded, InRollback
<1> QED BY <1>3, <1>4, <1>5, <1>6 DEF MInv

LEMMA RecordCopiedKeeps ==
  ASSUME MInv, TypeOK', RecordCopied
  PROVE  MInv'
<1>1. /\ UNCHANGED <<old, staging, new, newRoot, root, refs, cur, digest, gateOpen, written, late>>
      /\ pc = "copied" /\ pc' = "next" /\ journal.phase = "copy"
      /\ cur \in Items /\ Strategy[cur] = "copy" /\ digest \subseteq staging[cur]
      BY DEF RecordCopied, Calm, At, Goto, MInv, Phases, AtItem, Recorded
<1>2. /\ journal'.phase = "copy" /\ journal'.digest[cur] = digest
      /\ \A i \in Items : i # cur => journal'.digest[i] = journal.digest[i]
      BY <1>1 DEF RecordCopied, MInv, TypeOK, Journal
<1>3. GateHeld' /\ Phases' /\ AtItem' /\ Placed' /\ Removing'
      BY <1>1, <1>2 DEF MInv, GateHeld, Phases, AtItem, Placed, Removing, At
<1>4. Recorded'
  <2>1. Copy(cur) = staging[cur] BY <1>1 DEF MInv, Phases, Nowhere, Copy, Exists
  <2>2. \A i \in Items : Copy(i)' = Copy(i) BY <1>1 DEF Copy
  <2> QED BY <1>1, <1>2, <2>1, <2>2 DEF MInv, Recorded, InRollback
<1> QED BY <1>1, <1>2, <1>3, <1>4, LibraryRests DEF MInv

LEMMA PlaceItemKeeps ==
  ASSUME MInv, TypeOK', PlaceItem
  PROVE  MInv'
<1>1. /\ UNCHANGED <<newRoot, root, refs, journal, cur, digest, gateOpen, written, late>>
      /\ pc = "place" /\ pc' = "placed" /\ journal.phase = "commit" /\ cur \in Items
      /\ Exists(Source(cur)) # Exists(new[cur])
      BY DEF PlaceItem, Calm, At, Goto, MInv, Phases, AtItem
<1>2. CASE UNCHANGED <<old, staging, new>> /\ Exists(new[cur])
  <2>1. GateHeld' /\ Phases' /\ AtItem' /\ Removing'
        BY <1>1 DEF MInv, GateHeld, Phases, AtItem, Removing, At
  <2>2. Placed'
    <3>1. \A i \in Items : i <= cur => i < cur \/ i = cur BY <1>1 DEF Items
    <3> QED BY <1>1, <1>2, <3>1 DEF MInv, Placed
  <2>3. Recorded' BY <1>1, <1>2 DEF MInv, Recorded, Copy, InRollback
  <2> QED BY <1>1, <1>2, <2>1, <2>2, <2>3, LibraryRests DEF MInv
<1>3. CASE new[cur] = Gone
  <2>1. /\ Exists(Source(cur)) /\ new' = [new EXCEPT ![cur] = Source(cur)]
        /\ \/ /\ Strategy[cur] = "copy" /\ Source(cur) = staging[cur]
              /\ staging' = [staging EXCEPT ![cur] = Gone] /\ old' = old
           \/ /\ Strategy[cur] = "rename" /\ Source(cur) = old[cur]
              /\ old' = [old EXCEPT ![cur] = Gone] /\ staging' = staging
        BY <1>1, <1>3, MoveAssumption DEF PlaceItem, Exists, Source
  <2>2. /\ new'[cur] = Source(cur) /\ Exists(new'[cur])
        /\ \A i \in Items : i # cur => new'[i] = new[i] /\ staging'[i] = staging[i] /\ old'[i] = old[i]
        BY <1>1, <2>1 DEF MInv, TypeOK
  <2>3. GateHeld' /\ Phases' /\ AtItem' /\ Removing'
        BY <1>1 DEF MInv, GateHeld, Phases, AtItem, Removing, At
  <2>4. Placed'
    <3>1. \A i \in Items : i <= cur => i < cur \/ i = cur BY <1>1 DEF Items
    <3> QED BY <1>1, <2>2, <3>1 DEF MInv, Placed
  <2>5. Complete' BY <1>1, <2>2 DEF MInv, Complete
  <2>6. FromOld'
    <3> SUFFICES ASSUME NEW i \in Items, Strategy[i] = "copy"
                 PROVE  staging'[i] \subseteq old'[i] \cup {0}
        BY DEF FromOld
    <3>1. CASE i = cur BY <1>1, <2>1, <3>1 DEF MInv, TypeOK, Gone
    <3>2. CASE i # cur BY <1>1, <2>2, <3>2 DEF MInv, FromOld
    <3> QED BY <3>1, <3>2
  <2>7. Recorded'
    <3>1. \A i \in Items : i # cur => Copy(i)' = Copy(i) BY <2>2 DEF Copy
    <3>2. Copy(cur)' = Source(cur) /\ Copy(cur) = staging[cur]
          BY <1>1, <1>3, <2>2 DEF Copy, Exists
    <3>3. journal.digest[cur] \subseteq Source(cur)
      <4>1. CASE Strategy[cur] = "copy"
            BY <1>1, <2>1, <3>2, <4>1 DEF MInv, Recorded, InRollback
      <4>2. CASE Strategy[cur] = "rename" BY <1>1, <4>2 DEF MInv, Recorded, Gone
      <4> QED BY <2>1, <4>1, <4>2
    <3> QED BY <1>1, <3>1, <3>2, <3>3 DEF MInv, Recorded, InRollback
  <2>8. NothingLost'
    <3> SUFFICES ASSUME NEW i \in Items PROVE Kept(i) \subseteq old'[i] \cup new'[i]
        BY <1>1 DEF NothingLost, Kept
    <3>1. Kept(i) \subseteq old[i] \cup new[i] BY DEF MInv, NothingLost
    <3>2. CASE i # cur BY <2>2, <3>1, <3>2
    <3>3. CASE i = cur BY <1>3, <2>1, <2>2, <3>1, <3>3 DEF Gone, MInv, TypeOK
    <3> QED BY <3>2, <3>3
  <2> QED BY <2>3, <2>4, <2>5, <2>6, <2>7, <2>8 DEF MInv
<1> QED BY <1>2, <1>3 DEF PlaceItem, Exists

\* A new state of an item leaves the rest of the journal as it was.
LEMMA StateOnly ==
  ASSUME MInv, NEW i, NEW s,
         journal' = [journal EXCEPT !.state[i] = s]
  PROVE  journal'.phase = journal.phase /\ journal'.digest = journal.digest
  BY DEF MInv, TypeOK, Journal

LEMMA RecordPlacedKeeps ==
  ASSUME MInv, TypeOK', RecordPlaced
  PROVE  MInv'
<1>1. /\ UNCHANGED <<old, staging, new, newRoot, root, refs, digest, gateOpen, written, late>>
      /\ pc = "placed" /\ journal.phase = "commit" /\ cur \in Items
      /\ \/ pc' = "place" /\ cur < N /\ cur' = cur + 1
         \/ pc' = "registry" /\ ~(cur < N)
      BY DEF RecordPlaced, Calm, At, Goto, MInv, Phases, AtItem
<1>2. journal'.phase = "commit" /\ journal'.digest = journal.digest
      BY <1>1 DEF RecordPlaced, MInv, TypeOK, Journal
<1>3. \A i \in Items : i <= cur => Exists(new[i]) BY <1>1 DEF MInv, Placed
<1>4. Placed'
  <2>1. \A i \in Items : (cur < N /\ i < cur + 1) \/ ~(cur < N) => i <= cur
        BY <1>1, MoveAssumption DEF Items
  <2> QED BY <1>1, <1>3, <2>1 DEF Placed
<1>5. AtItem' BY <1>1, MoveAssumption DEF AtItem, Items
<1>6. GateHeld' /\ Phases' /\ Removing'
      BY <1>1, <1>2 DEF MInv, GateHeld, Phases, Removing, At
<1>7. Recorded' BY <1>1, <1>2 DEF MInv, Recorded, Copy, InRollback
<1> QED BY <1>1, <1>2, <1>4, <1>5, <1>6, <1>7, LibraryRests DEF MInv

LEMMA CleanItemKeeps ==
  ASSUME MInv, TypeOK', CleanItem
  PROVE  MInv'
<1>1. /\ UNCHANGED <<old, staging, new, newRoot, root, refs, digest, gateOpen, written, late>>
      /\ pc = "clean" /\ pc' \in {"clean", "remove"} /\ journal.phase = "cleanup" /\ root = "new"
      BY DEF CleanItem, Advance, Calm, At, Goto, MInv, Phases
<1>2. journal'.phase = "cleanup" /\ journal'.digest = journal.digest
      BY <1>1, StateOnly DEF CleanItem, Advance
<1>3. pc' = "remove" => /\ cur \in Items /\ cur' = cur /\ journal.digest[cur] = old[cur]
      BY <1>1, MoveAssumption DEF CleanItem, Advance, At, Goto, MInv, TypeOK, Items
<1>4. GateHeld' /\ Phases' /\ Placed'
      BY <1>1, <1>2 DEF MInv, GateHeld, Phases, Placed, At
<1>5. AtItem' BY <1>1, <1>3 DEF AtItem
<1>6. Recorded' BY <1>1, <1>2 DEF MInv, Recorded, Copy, InRollback
<1>7. Removing'
  <2> SUFFICES ASSUME pc' = "remove" PROVE old[cur] \subseteq new[cur]
      BY <1>1, <1>3 DEF Removing
  <2>1. cur \in Items /\ Exists(new[cur]) BY <1>1, <1>3 DEF MInv, Complete
  <2> QED BY <1>1, <1>3, <2>1 DEF MInv, Recorded, Copy, InRollback
<1> QED BY <1>1, <1>2, <1>4, <1>5, <1>6, <1>7, LibraryRests DEF MInv

LEMMA RemoveSourceKeeps ==
  ASSUME MInv, TypeOK', RemoveSource
  PROVE  MInv'
<1>1. /\ UNCHANGED <<staging, new, newRoot, root, refs, journal, cur, digest, gateOpen, written, late>>
      /\ pc = "remove" /\ pc' \in {"remove", "removed"} /\ journal.phase = "cleanup" /\ root = "new"
      /\ cur \in Items
      BY DEF RemoveSource, Calm, At, Goto, MInv, Phases, AtItem
<1>2. /\ old'[cur] \subseteq old[cur]
      /\ \A i \in Items : i # cur => old'[i] = old[i]
      BY <1>1 DEF RemoveSource, LeftOf, MInv, TypeOK
<1>3. GateHeld' /\ Phases' /\ AtItem' /\ Placed' /\ Complete' /\ FromOld'
      BY <1>1 DEF MInv, GateHeld, Phases, AtItem, Placed, Complete, FromOld, At
<1>4. Recorded' BY <1>1 DEF MInv, Recorded, Copy, InRollback
<1>5. old[cur] \subseteq {0} \cup new[cur] \cup late[cur] BY <1>1 DEF MInv, Removing
<1>6. Removing' BY <1>1, <1>2, <1>5 DEF Removing
<1>7. NothingLost'
  <2> SUFFICES ASSUME NEW i \in Items PROVE Kept(i) \subseteq old'[i] \cup new[i]
      BY <1>1 DEF NothingLost, Kept
  <2>1. Kept(i) \subseteq old[i] \cup new[i] BY DEF MInv, NothingLost
  <2>2. 0 \notin Kept(i) /\ Kept(i) \cap late[i] = {} BY DEF Kept
  <2>3. CASE i = cur BY <1>5, <2>1, <2>2, <2>3
  <2>4. CASE i # cur BY <1>2, <2>1, <2>4
  <2> QED BY <2>3, <2>4
<1> QED BY <1>3, <1>4, <1>6, <1>7 DEF MInv

LEMMA StartKeeps ==
  ASSUME MInv, TypeOK', Start
  PROVE  MInv'
<1>1. /\ UNCHANGED <<old, staging, new, root, refs, cur, digest, written, late>>
      /\ pc = "off" /\ root = "old" /\ journal.phase = "none" /\ staging = Nowhere /\ new = Nowhere
      BY DEF Start, At
<1>2. CASE UNCHANGED <<journal, pc, gateOpen>>
  <2>1. GateHeld' /\ Phases' /\ AtItem' /\ Placed' /\ Removing'
        BY <1>1, <1>2 DEF MInv, GateHeld, Phases, AtItem, Placed, Removing, At
  <2>2. Recorded' BY <1>1, <1>2 DEF MInv, Recorded, Copy, InRollback
  <2> QED BY <1>1, <1>2, <2>1, <2>2, LibraryRests DEF MInv
<1>3. CASE journal' = [NoJournal EXCEPT !.phase = "copy", !.created = ~newRoot] /\ Run
  <2>1. journal'.phase = "copy" /\ \A i \in Items : journal'.digest[i] = Gone
        BY <1>3 DEF NoJournal
  <2>2. pc' = "start" /\ gateOpen' = FALSE BY <1>3 DEF Run, Goto
  <2>3. GateHeld' /\ Phases' /\ AtItem' /\ Placed' /\ Removing'
        BY <1>1, <2>1, <2>2 DEF MInv, GateHeld, Phases, AtItem, Placed, Removing, At
  <2>4. Recorded' BY <2>1, <2>2 DEF Recorded, Gone
  <2>5. Complete' BY <1>1, <2>1 DEF MInv, Complete
  <2>6. FromOld' BY <1>1 DEF FromOld, Nowhere, Gone
  <2> QED BY <1>1, <2>3, <2>4, <2>5, <2>6, LibraryRests DEF MInv
<1> QED BY <1>2, <1>3 DEF Start

LEMMA WriteKeeps ==
  ASSUME MInv, TypeOK', NEW i \in Items, Write(i)
  PROVE  MInv'
<1>1. UNCHANGED <<staging, newRoot, root, refs, journal, memory>> BY DEF Write
<1>2. /\ \A j \in Items : old[j] \subseteq old'[j] /\ new[j] \subseteq new'[j]
      /\ \A j \in Items : j # i => /\ old'[j] = old[j] /\ new'[j] = new[j]
                                   /\ written'[j] = written[j] /\ late'[j] = late[j]
      /\ late[i] \subseteq late'[i]
      /\ written'[i] = written[i] + 1
      /\ \A j \in Items : Exists(new'[j]) <=> Exists(new[j])
      /\ \/ /\ old'[i] = old[i] \cup {0, written[i] + 1} /\ new' = new
            /\ pc = "remove" /\ cur = i => written[i] + 1 \in late'[i]
         \/ /\ root = "new" /\ new'[i] = new[i] \cup {written[i] + 1} /\ old' = old /\ late' = late
      BY DEF Write, MInv, TypeOK, Exists, Gone, At
<1>3. 1 .. written'[i] \subseteq 1 .. written[i] \cup {written[i] + 1}
      BY <1>2, MoveAssumption DEF MInv, TypeOK, Pieces
<1>4. GateHeld' /\ Phases' /\ AtItem' /\ Placed'
  <2>1. root = "old" => new' = new BY <1>2
  <2> QED BY <1>1, <1>2, <2>1 DEF memory, MInv, GateHeld, Phases, AtItem, Placed, At
<1>5. Complete'
  <2>1. ASSUME root = "old", journal.phase \in {"none", "copy"}, NEW j \in Items
        PROVE  1 .. written'[j] \subseteq old'[j]
    <3>1. 1 .. written[j] \subseteq old[j] BY <2>1 DEF MInv, Complete
    <3>2. CASE j = i BY <1>2, <1>3, <2>1, <3>1, <3>2
    <3>3. CASE j # i BY <1>2, <3>1, <3>3
    <3> QED BY <3>2, <3>3
  <2> QED BY <1>1, <1>2, <2>1 DEF MInv, Complete
<1>6. Recorded'
  <2>1. \A j \in Items : Copy(j) \subseteq Copy(j)' BY <1>1, <1>2 DEF Copy
  <2>2. pc \in {"copy", "copying", "verify"} => cur \in Items BY DEF MInv, AtItem
  <2> QED BY <1>1, <1>2, <2>1, <2>2 DEF memory, MInv, Recorded, InRollback
<1>7. FromOld'
  <2> SUFFICES ASSUME journal.phase \in {"copy", "commit"}, NEW j \in Items, Strategy[j] = "copy"
               PROVE  staging[j] \subseteq old'[j] \cup {0}
      BY <1>1 DEF FromOld
  <2>1. staging[j] \subseteq old[j] \cup {0} BY DEF MInv, FromOld
  <2> QED BY <1>2, <2>1
<1>8. Removing'
  <2> SUFFICES ASSUME pc = "remove" PROVE old'[cur] \subseteq {0} \cup new'[cur] \cup late'[cur]
      BY <1>1 DEF memory, Removing
  <2>1. cur \in Items /\ old[cur] \subseteq {0} \cup new[cur] \cup late[cur]
        BY DEF MInv, AtItem, Removing
  <2>2. CASE cur = i BY <1>2, <2>1, <2>2
  <2>3. CASE cur # i BY <1>2, <2>1, <2>3
  <2> QED BY <2>2, <2>3
<1>9. NothingLost'
  <2> SUFFICES ASSUME NEW j \in Items
               PROVE  (1 .. written'[j]) \ late'[j] \subseteq old'[j] \cup new'[j]
      BY DEF NothingLost, Kept
  <2>1. (1 .. written[j]) \ late[j] \subseteq old[j] \cup new[j]
        BY DEF MInv, NothingLost, Kept
  <2>2. CASE j = i
    <3>1. written[i] + 1 \in old'[i] \cup new'[i] BY <1>2
    <3> QED BY <1>2, <1>3, <2>1, <2>2, <3>1
  <2>3. CASE j # i BY <1>2, <2>1, <2>3
  <2> QED BY <2>2, <2>3
<1> QED BY <1>4, <1>5, <1>6, <1>7, <1>8, <1>9 DEF MInv

LEMMA DigestKeeps ==
  ASSUME MInv, TypeOK', TakeDigest \/ VerifyTree
  PROVE  MInv'
<1>1. UNCHANGED <<disk, cur, gateOpen, written, late>>
      BY DEF TakeDigest, VerifyTree, Calm
<1>2. \/ pc = "digest" /\ pc' = "copy" /\ digest' = old[cur]
      \/ pc = "verify" /\ pc' = "copied" /\ digest' = digest /\ old[cur] \subseteq staging[cur]
      BY DEF TakeDigest, VerifyTree, At, Goto
<1>3. GateHeld' /\ Phases' /\ AtItem' /\ Placed' /\ Removing'
      BY <1>1, <1>2 DEF disk, MInv, GateHeld, Phases, AtItem, Placed, Removing, At
<1>4. Recorded' BY <1>1, <1>2 DEF disk, MInv, Recorded, Copy, InRollback
<1> QED BY <1>1, <1>3, <1>4, LibraryRests DEF disk, MInv

LEMMA SwitchKeeps ==
  ASSUME MInv, TypeOK', RewriteRegistry \/ SwitchRoot
  PROVE  MInv'
<1>1. /\ UNCHANGED <<old, staging, new, newRoot, journal, cur, digest, gateOpen, written, late>>
      /\ pc \in {"registry", "switch"} /\ pc' \in {"switch", "scan"}
      /\ journal.phase = "commit" /\ \A i \in Items : Exists(new[i])
      BY DEF RewriteRegistry, SwitchRoot, Calm, At, Goto, MInv, Phases, Placed
<1>2. refs' = "new" /\ root' \in {root, "new"} /\ (pc' = "scan" => root' = "new")
      BY <1>1 DEF RewriteRegistry, SwitchRoot, Goto, MInv, Phases, At
<1>3. GateHeld' /\ Phases' /\ AtItem' /\ Placed' /\ Removing'
      BY <1>1, <1>2 DEF MInv, GateHeld, Phases, AtItem, Placed, Removing, At
<1>4. Complete' /\ FromOld' /\ NothingLost'
      BY <1>1, <1>2 DEF MInv, Complete, FromOld, NothingLost, Kept
<1>5. Recorded' BY <1>1 DEF MInv, Recorded, Copy, InRollback
<1> QED BY <1>3, <1>4, <1>5 DEF MInv

LEMMA ScanStaleKeeps ==
  ASSUME MInv, TypeOK', ScanStale
  PROVE  MInv'
<1>1. /\ UNCHANGED <<old, staging, new, newRoot, root, refs, digest, gateOpen, written, late>>
      /\ pc = "scan" /\ pc' \in {"off", "start"} /\ journal.phase = "commit" /\ root = "new"
      BY DEF ScanStale, At, Goto, MInv, Phases
<1>2. journal'.phase = "cleanup" /\ journal'.digest = journal.digest
      BY DEF ScanStale, MInv, TypeOK, Journal
<1>3. GateHeld' /\ Phases' /\ AtItem' /\ Placed' /\ Removing'
      BY <1>1, <1>2 DEF MInv, GateHeld, Phases, AtItem, Placed, Removing, At
<1>4. Complete' /\ FromOld' BY <1>1, <1>2 DEF MInv, Complete, FromOld
<1>5. Recorded' BY <1>1, <1>2 DEF MInv, Recorded, Copy, InRollback
<1> QED BY <1>1, <1>3, <1>4, <1>5, LibraryRests DEF MInv

LEMMA RecordCleanedKeeps ==
  ASSUME MInv, TypeOK', RecordCleaned
  PROVE  MInv'
<1>1. /\ UNCHANGED <<old, staging, new, newRoot, root, refs, digest, gateOpen, written, late>>
      /\ pc = "removed" /\ pc' = "clean"
      BY DEF RecordCleaned, Calm, At, Goto
<1>2. journal'.phase = journal.phase /\ journal'.digest = journal.digest
      BY StateOnly DEF RecordCleaned, Advance
<1>3. GateHeld' /\ Phases' /\ AtItem' /\ Placed' /\ Removing'
      BY <1>1, <1>2 DEF MInv, GateHeld, Phases, AtItem, Placed, Removing, At
<1>4. Recorded' BY <1>1, <1>2 DEF MInv, Recorded, Copy, InRollback
<1> QED BY <1>1, <1>2, <1>3, <1>4, LibraryRests DEF MInv

LEMMA ForgetKeeps ==
  ASSUME MInv, TypeOK', Finish \/ Cancelled
  PROVE  MInv'
<1>1. /\ UNCHANGED <<old, staging, new, newRoot, root, refs, written, late>>
      /\ pc' = "off" /\ gateOpen' = TRUE /\ journal' = NoJournal
      /\ journal.phase \in {"copy", "cleanup"}
      BY DEF Finish, Cancelled, Forget, At, Goto, MInv, Phases
<1>2. journal'.phase = "none" /\ \A i \in Items : journal'.digest[i] = Gone
      BY <1>1, Typed
<1>3. GateHeld' /\ Phases' /\ AtItem' /\ Placed' /\ Removing'
      BY <1>1, <1>2 DEF GateHeld, Phases, AtItem, Placed, Removing, At
<1>4. Complete' /\ FromOld' BY <1>1, <1>2 DEF MInv, Complete, FromOld, Phases
<1>5. Recorded' BY <1>1, <1>2 DEF Recorded, Gone
<1> QED BY <1>1, <1>3, <1>4, <1>5, LibraryRests DEF MInv

\* The copies may go one by one, the originals do not.
LEMMA RollbackKeeps ==
  ASSUME MInv, TypeOK', RemoveStaging \/ RemoveNewRoot
  PROVE  MInv'
<1>1. /\ UNCHANGED <<old, new, root, refs, journal, cur, digest, gateOpen, written, late>>
      /\ pc \in {"rollback", "forget"} /\ pc' \in {"rollback", "forget"}
      /\ \A i \in Items : staging'[i] \subseteq staging[i]
      BY DEF RemoveStaging, RemoveNewRoot, LeftOf, Calm, At, Goto, memory
<1>2. GateHeld' /\ Phases' /\ AtItem' /\ Placed' /\ Removing'
      BY <1>1 DEF MInv, GateHeld, Phases, AtItem, Placed, Removing, At
<1>3. Complete' /\ NothingLost' BY <1>1 DEF MInv, Complete, NothingLost, Kept
<1>4. FromOld'
  <2> SUFFICES ASSUME journal.phase \in {"copy", "commit"}, NEW i \in Items, Strategy[i] = "copy"
               PROVE  staging'[i] \subseteq old[i] \cup {0}
      BY <1>1 DEF FromOld
  <2>1. staging[i] \subseteq old[i] \cup {0} BY DEF MInv, FromOld
  <2> QED BY <1>1, <2>1
<1>5. Recorded' BY <1>1 DEF MInv, Recorded, InRollback
<1> QED BY <1>2, <1>3, <1>4, <1>5 DEF MInv

\* Whatever stops the engine or starts it leaves the disk alone; a rollback,
\* though, runs to its end.
LEMMA OutsideKeeps ==
  ASSUME MInv, TypeOK', ~RollbackBreaks, GiveUp \/ Fail \/ Resume \/ Cancel \/ Crash
  PROVE  MInv'
<1>1. UNCHANGED <<disk, written, late>>
      BY DEF GiveUp, Fail, Stopped, Resume, Run, Cancel, Crash
<1>2. /\ pc' \in {"off", "start", "rollback"} \/ UNCHANGED <<pc, cur, digest>>
      /\ pc' = "rollback" => pc = "rollback" \/ journal.phase = "copy"
      /\ pc' = "start" => journal.phase # "none"
      /\ pc \in {"rollback", "forget"} => pc' = pc
      /\ gateOpen' <=> journal.phase = "none"
      BY
         DEF GiveUp, Fail, Stopped, Resume, Run, Cancel, Crash, At, Goto, InRollback,
             MInv,
             GateHeld, TypeOK, disk
<1>3. GateHeld' /\ Phases' /\ AtItem' /\ Placed' /\ Removing'
      BY <1>1, <1>2 DEF disk, MInv, GateHeld, Phases, AtItem, Placed, Removing, At
<1>4. Recorded' BY <1>1, <1>2 DEF disk, MInv, Recorded, Copy, InRollback
<1> QED BY <1>1, <1>3, <1>4, LibraryRests DEF disk, MInv

LEMMA MInvKeeps ==
  ASSUME MInv, ~RollbackBreaks, [Next]_vars
  PROVE  MInv'
<1>1. CASE UNCHANGED vars
      BY <1>1
         DEF vars, MInv, TypeOK, GateHeld, Phases, AtItem, Complete, Placed, Recorded,
             FromOld,
         Removing, NothingLost, Kept, Copy, InRollback, At
<1>2. CASE Next
  <2>1. TypeOK' BY <1>2, TypeKeeps DEF MInv
  <2> QED BY <1>2, <2>1, EnterPhaseKeeps, NextItemKeeps, DigestKeeps, CopyKeeps,
             RecordCopiedKeeps,
             PlaceItemKeeps, RecordPlacedKeeps, SwitchKeeps, ScanStaleKeeps,
             CleanItemKeeps,
             RemoveSourceKeeps, RecordCleanedKeeps, ForgetKeeps, RollbackKeeps,
             OutsideKeeps,
             StartKeeps, WriteKeeps DEF Next, Engine
<1> QED BY <1>1, <1>2

LEMMA InitHolds == Init => MInv
<1> SUFFICES ASSUME Init PROVE MInv OBVIOUS
<1>1. /\ journal.phase = "none" /\ \A i \in Items : journal.digest[i] = Gone
      /\ pc = "off" /\ root = "old" /\ refs = "old" /\ gateOpen = TRUE
      /\ \A i \in Items : old[i] = {0, 1} /\ written[i] = 1
      BY Typed DEF Init
<1>2. TypeOK
  <2>1. {0, 1} \in Folder /\ 1 \in Pieces BY MoveAssumption DEF Folder, Pieces
  <2>2. /\ old \in [Items -> Folder] /\ staging \in [Items -> Folder] /\ new \in [Items -> Folder]
        /\ written \in [Items -> Pieces] /\ late \in [Items -> SUBSET Pieces]
        BY <2>1, Typed DEF Init, Nowhere, Gone
  <2>3. cancels \in 0 .. MaxCancels /\ crashes \in 0 .. MaxCrashes
        BY MoveAssumption DEF Init
  <2> QED BY <2>2, <2>3, Typed DEF Init, TypeOK, At
<1>3. GateHeld /\ Phases /\ AtItem /\ Placed /\ Removing
      BY <1>1 DEF GateHeld, Phases, AtItem, Placed, Removing, At
<1>4. \A i \in Items : 1 .. written[i] \subseteq old[i] BY <1>1
<1>5. Complete BY <1>1, <1>4 DEF Complete
<1>6. NothingLost BY <1>4 DEF NothingLost, Kept
<1>7. Recorded /\ FromOld BY <1>1 DEF Recorded, FromOld, Gone
<1> QED BY <1>2, <1>3, <1>5, <1>6, <1>7 DEF MInv

LEMMA MoveInvariant ==
  ASSUME ~RollbackBreaks
  PROVE  Spec => []MInv
<1>1. MInv /\ [Next]_vars => MInv' BY MInvKeeps
<1> QED BY <1>1, InitHolds, PTL DEF Spec

-----------------------------------------------------------------------------
(* The theorems.                                                           *)

\* What holds of the gate needs nothing of the disk, and no rollback that
\* runs to its end.
LEMMA GateKeeps ==
  ASSUME TypeOK, AtItem, GateHeld, [Next]_vars
  PROVE  (TypeOK /\ AtItem /\ GateHeld)'
<1>1. CASE UNCHANGED vars BY <1>1 DEF vars, TypeOK, AtItem, GateHeld, At
<1>2. CASE Next
  <2>1. TypeOK' BY <1>2, TypeKeeps
  <2>2. AtItem'
    <3>1. NextItem => AtItem' BY LeastItem DEF NextItem, Goto, AtItem, ToCopy
    <3>2. RecordPlaced \/ CleanItem => AtItem'
          BY MoveAssumption
             DEF RecordPlaced, CleanItem, Advance, At, Goto, TypeOK, AtItem, Items
    <3>3. EnterPhase => AtItem'
          BY MoveAssumption DEF EnterPhase, At, Goto, AtItem, Items
    <3>4. (\E i \in Items : Write(i)) => AtItem' BY DEF Write, memory, AtItem
    <3> QED BY <1>2, <3>1, <3>2, <3>3, <3>4
        DEF Next, Engine, TakeDigest, CopySome, CopyRest, VerifyTree, RecordCopied,
            PlaceItem,
            RewriteRegistry, SwitchRoot, ScanStale, RemoveSource, RecordCleaned,
            Finish, RemoveStaging,
            RemoveNewRoot, Cancelled, Forget, GiveUp, Fail, Stopped, Start, Resume,
            Run, Cancel, Crash,
            At, Goto, memory, AtItem
  <2>3. GateHeld'
    <3>1. CASE NextItem \/ RecordCopied \/ RecordPlaced \/ ScanStale \/ CleanItem \/ RecordCleaned
      <4>1. journal'.phase = "none" <=> journal.phase = "none"
            BY <3>1
               DEF NextItem, RecordCopied, RecordPlaced, ScanStale, CleanItem,
                   RecordCleaned,
               Advance, TypeOK, Journal, GateHeld, At
      <4>2. gateOpen' = gateOpen /\ pc # "off"
            BY <3>1
               DEF NextItem, RecordCopied, RecordPlaced, ScanStale, CleanItem,
                   RecordCleaned,
               Calm, At
      <4> QED BY <4>1, <4>2 DEF At, GateHeld
    <3>2. CASE Finish \/ Cancelled
          BY <3>2, Typed DEF Finish, Cancelled, Forget, Goto, At, GateHeld
    <3>3. CASE Start
      <4>1. [NoJournal EXCEPT !.phase = "copy", !.created = ~newRoot].phase = "copy"
            BY DEF NoJournal
      <4> QED BY <3>3, <4>1 DEF Start, Run, GateHeld, At
    <3>4. ASSUME NEW i \in Items, Write(i) PROVE GateHeld'
          BY <3>4 DEF Write, memory, GateHeld, At
    <3>5. CASE \/ TakeDigest \/ CopySome \/ CopyRest \/ VerifyTree \/ PlaceItem
               \/ RewriteRegistry \/ SwitchRoot \/ RemoveSource \/ RemoveStaging
               \/ RemoveNewRoot \/ EnterPhase
      <4>1. UNCHANGED <<journal, gateOpen>> /\ pc # "off"
            BY <3>5
               DEF EnterPhase, TakeDigest, CopySome, CopyRest, VerifyTree, PlaceItem,
               RewriteRegistry, SwitchRoot, RemoveSource, RemoveStaging,
               RemoveNewRoot, At, Calm,
               memory, disk
      <4> QED BY <4>1 DEF At, GateHeld
    <3>6. CASE GiveUp \/ Fail \/ Resume \/ Cancel \/ Crash
          BY <3>6
             DEF GiveUp, Fail, Stopped, Resume, Run, Cancel, Crash, At, Goto, disk,
                 GateHeld,
             TypeOK
    <3> QED BY <1>2, <3>1, <3>2, <3>3, <3>4, <3>5, <3>6 DEF Next, Engine
  <2> QED BY <2>1, <2>2, <2>3
<1> QED BY <1>1, <1>2

LEMMA GateAlways == Spec => [](TypeOK /\ AtItem /\ GateHeld)
<1>1. Init => TypeOK /\ AtItem /\ GateHeld BY InitHolds DEF MInv
<1> QED BY <1>1, GateKeeps, PTL DEF Spec

\* Every variable keeps its type.
THEOREM TypeCorrect == Spec => []TypeOK
  BY GateAlways, PTL

\* The gate is closed exactly while there is a journal, whatever fails or
\* crashes, rollbacks included (library_move_service.rs:22).
THEOREM GateFollowsJournal == Spec => []GateHeld
  BY GateAlways, PTL

\* No piece is ever lost, if a rollback that starts runs to its end.
THEOREM NoPieceIsLost ==
  ASSUME ~RollbackBreaks
  PROVE  Spec => []NothingLost
<1>1. MInv => NothingLost BY DEF MInv
<1> QED BY <1>1, MoveInvariant, PTL

\* The root in use holds the library, and what Cleanup deletes is at the new
\* root (relocate.rs:15).
THEOREM RootInUseIsWhole ==
  ASSUME ~RollbackBreaks
  PROVE  Spec => []LibraryIsWhole
<1>1. MInv => LibraryIsWhole
  <2> SUFFICES ASSUME MInv PROVE LibraryIsWhole OBVIOUS
  <2>1. ASSUME journal.phase = "cleanup", NEW i \in Items
        PROVE  root = "new" /\ journal.digest[i] \subseteq new[i]
    <3>1. root = "new" /\ ~InRollback BY <2>1 DEF MInv, Phases, InRollback
    <3> QED BY <3>1 DEF MInv, Complete, Recorded, Copy
  <2>2. journal.phase = "cleanup" => root = "new" BY DEF MInv, Phases
  <2> QED BY <2>1, <2>2 DEF MInv, Complete, LibraryIsWhole
<1> QED BY <1>1, MoveInvariant, PTL

-----------------------------------------------------------------------------
(* The move implements SafeMove.                                           *)

\* Safe's content of a folder, and of the library.
Has(i) == ((old[i] \cup new[i]) \ {0}) \cup late[i]
Content == [i \in Items |-> Has(i)]

\* No step of the engine changes what there is.
LEMMA ContentRests ==
  ASSUME MInv, Next, ~ \E i \in Items : Write(i)
  PROVE  Content' = Content
<1>1. CASE UNCHANGED <<old, new, late>> BY <1>1 DEF Content, Has
<1>2. CASE PlaceItem
  <2>1. /\ UNCHANGED late /\ cur \in Items
        /\ Strategy[cur] = "copy" => staging[cur] \subseteq old[cur] \cup {0}
        BY <1>2 DEF PlaceItem, Calm, At, MInv, Phases, AtItem, FromOld
  <2>2. CASE UNCHANGED <<old, new>> BY <1>1, <2>1, <2>2
  <2>3. CASE ~ UNCHANGED <<old, new>>
    <3>1. /\ new[cur] = Gone /\ new' = [new EXCEPT ![cur] = Source(cur)]
          /\ \/ Source(cur) = staging[cur] /\ Strategy[cur] = "copy" /\ old' = old
             \/ Source(cur) = old[cur] /\ old' = [old EXCEPT ![cur] = Gone]
          BY <1>2, <2>3 DEF PlaceItem, Exists, Source
    <3>2. \A i \in Items : Has(i)' = Has(i)
      <4> SUFFICES ASSUME NEW i \in Items PROVE Has(i)' = Has(i) OBVIOUS
      <4>1. CASE i = cur BY <2>1, <3>1, <4>1 DEF MInv, TypeOK, Has, Gone
      <4>2. CASE i # cur BY <2>1, <3>1, <4>2 DEF MInv, TypeOK, Has
      <4> QED BY <4>1, <4>2
    <3> QED BY <3>2 DEF Content
  <2> QED BY <2>2, <2>3
<1>3. CASE RemoveSource
  <2>1. /\ UNCHANGED <<new, late>> /\ cur \in Items
        /\ old[cur] \subseteq {0} \cup new[cur] \cup late[cur]
        /\ old'[cur] \subseteq old[cur]
        /\ \A i \in Items : i # cur => old'[i] = old[i]
        BY <1>3 DEF RemoveSource, LeftOf, Calm, At, MInv, TypeOK, AtItem, Removing
  <2>2. \A i \in Items : Has(i)' = Has(i)
    <3> SUFFICES ASSUME NEW i \in Items PROVE Has(i)' = Has(i) OBVIOUS
    <3>1. CASE i = cur BY <2>1, <3>1 DEF Has
    <3>2. CASE i # cur BY <2>1, <3>2 DEF Has
    <3> QED BY <3>1, <3>2
  <2> QED BY <2>2 DEF Content
<1> QED BY <1>1, <1>2, <1>3
    DEF Next, Engine, EnterPhase, NextItem, TakeDigest, CopySome, CopyRest,
        VerifyTree, RecordCopied,
        RecordPlaced, RewriteRegistry, SwitchRoot, ScanStale, CleanItem,
        RecordCleaned, Finish,
        RemoveStaging, RemoveNewRoot, Cancelled, Forget, GiveUp, Fail, Stopped, Start,
        Resume, Cancel,
        Crash, Calm, disk

\* Whoever writes adds one piece.
LEMMA WriteAdds ==
  ASSUME MInv, NEW i \in Items, Write(i)
  PROVE  \E p \in Pieces : Content' = [Content EXCEPT ![i] = @ \cup {p}]
<1> DEFINE p == written[i] + 1
<1>1. p \in Pieces /\ p # 0 BY MoveAssumption DEF Write, MInv, TypeOK, Pieces
<1>2. Has(i)' = Has(i) \cup {p}
  <2> HIDE DEF p
  <2>1. \/ old' = [old EXCEPT ![i] = @ \cup {0, p}] /\ new' = new
           /\ (late' = late \/ late' = [late EXCEPT ![i] = @ \cup {p}])
        \/ new' = [new EXCEPT ![i] = @ \cup {p}] /\ UNCHANGED <<old, late>>
        BY DEF Write, p
  <2> QED BY <1>1, <2>1 DEF Has, MInv, TypeOK
<1>3. \A j \in Items : j # i => Has(j)' = Has(j) BY DEF Write, Has, MInv, TypeOK
<1>4. Content' = [Content EXCEPT ![i] = @ \cup {p}]
  <2> HIDE DEF p
  <2> QED BY <1>2, <1>3 DEF Content
<1> QED BY <1>1, <1>4

\* The library changes place once per move, and a move ends in one place.
LEMMA PlaceMoves ==
  ASSUME MInv, Next, root' # root \/ ~(journal'.phase = "none" <=> journal.phase = "none")
  PROVE  /\ ~ \E i \in Items : Write(i)
         /\ \/ journal.phase = "none" /\ root = "old" /\ journal'.phase # "none" /\ root' = root
            \/ journal.phase # "none" /\ root' = "new" /\ journal'.phase # "none"
            \/ journal.phase # "none" /\ journal'.phase = "none" /\ root' = root
<1>1. ~ \E i \in Items : Write(i) BY DEF Write
<1>2. CASE NextItem \/ RecordCopied \/ RecordPlaced \/ ScanStale \/ CleanItem \/ RecordCleaned
  <2>1. (journal'.phase = "none" <=> journal.phase = "none") /\ root' = root
        BY <1>2
           DEF NextItem, RecordCopied, RecordPlaced, ScanStale, CleanItem,
               RecordCleaned,
           Advance, MInv, TypeOK, Journal, GateHeld, At, disk
  <2> QED BY <2>1
<1>3. CASE Finish \/ Cancelled
  <2>1. journal'.phase = "none" /\ root' = root
        BY <1>3, Typed DEF Finish, Cancelled, Forget
  <2> QED BY <1>1, <2>1
<1>4. CASE SwitchRoot
  <2>1. journal.phase = "commit" BY <1>4 DEF SwitchRoot, At, MInv, Phases
  <2> QED BY <1>1, <1>4, <2>1 DEF SwitchRoot
<1>5. CASE Start
  <2>1. journal.phase = "none" /\ root = "old" /\ root' = root BY <1>5 DEF Start
  <2> QED BY <1>1, <2>1
<1> QED BY <1>1, <1>2, <1>3, <1>4, <1>5
    DEF Next, Engine, EnterPhase, TakeDigest, CopySome, CopyRest, VerifyTree, PlaceItem,
        RewriteRegistry, RemoveSource, RemoveStaging, RemoveNewRoot, GiveUp, Fail,
        Stopped, Resume,
        Cancel, Crash, Calm, disk

\* A library move does what SafeMove promises, if rollbacks run to their end.
THEOREM MoveIsSafe ==
  ASSUME ~RollbackBreaks
  PROVE  Spec => ImplementsSafeMove
<1>1. Init => Safe!Init
  <2> SUFFICES ASSUME Init PROVE Safe!Init OBVIOUS
  <2>1. journal.phase = "none" /\ root = "old" BY Typed DEF Init
  <2>2. \A i \in Items : old[i] = {0, 1} /\ new[i] = {} /\ late[i] = {}
        BY DEF Init, Nowhere, Gone
  <2>3. \A i \in Items : ((old[i] \cup new[i]) \ {0}) \cup late[i] \in SUBSET Pieces
        BY <2>2, MoveAssumption DEF Pieces
  <2> QED BY <2>1, <2>3 DEF Safe!Init
<1>2. MInv /\ [Next]_vars => [Safe!Next]_<<Content, root, journal.phase # "none">>
  <2> SUFFICES ASSUME MInv, Next
               PROVE  [Safe!Next]_<<Content, root, journal.phase # "none">>
      BY DEF vars, Content, Has
  <2>1. ASSUME NEW i \in Items, Write(i) PROVE Safe!Next
    <3>1. UNCHANGED <<root, journal>> BY <2>1 DEF Write
    <3>2. \E p \in Pieces : Content' = [Content EXCEPT ![i] = @ \cup {p}]
          BY <2>1, WriteAdds
    <3> QED BY <3>1, <3>2 DEF Safe!Next, Safe!Write, Content, Has
  <2>2. CASE ~ \E i \in Items : Write(i)
    <3>1. Content' = Content BY <2>2, ContentRests
    <3>2. CASE root' # root \/ ~(journal'.phase = "none" <=> journal.phase = "none")
      <4>1. root \in {"old", "new"} BY DEF MInv, TypeOK
      <4> QED BY <3>1, <3>2, <4>1, PlaceMoves
              DEF Safe!Next, Safe!Begin, Safe!Switch, Safe!Finish, Safe!GiveUp,
                  Content, Has
    <3> QED BY <3>1, <3>2
  <2> QED BY <2>1, <2>2
<1> QED BY <1>1, <1>2, MoveInvariant, PTL
           DEF Spec, ImplementsSafeMove, Safe!Spec, Content, Has
=============================================================================
