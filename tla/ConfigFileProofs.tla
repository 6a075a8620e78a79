-------------------------- MODULE ConfigFileProofs --------------------------
(***************************************************************************)
(* Proofs about ConfigFile, for any writers, whichever of them take the    *)
(* lock and any number of saves.  The inductive invariant is CInv: two     *)
(* saves overlap only if one of them goes past the lock (RivalsOverlap),   *)
(* so whoever is at work and no rival is at work alone since it began; the *)
(* temporary file is its own then, and its config the file's plus one      *)
(* change (SavesAlone).  Of rivals nothing is assumed and little is known. *)
(***************************************************************************)
EXTENDS ConfigFile, TLAPS

\* A torn file is no version of the config.
LEMMA TornIsNoVersion == Torn \notin Version
<1>1. SUFFICES ASSUME Torn \in Version PROVE FALSE
  OBVIOUS
<1>2. PICK w \in Writers : TRUE
  BY WritersAssumption
<1>3. Torn[w] = -1 /\ Torn[w] \in 0 .. MaxSaves
  BY <1>1, <1>2 DEF Torn, Version
<1> QED
  BY <1>3

\* A change of one writer's field makes a version of a version.
LEMMA OneMoreChange ==
    ASSUME NEW v \in Version, NEW w \in Writers, v[w] < MaxSaves
    PROVE  [v EXCEPT ![w] = @ + 1] \in Version
<1>1. v[w] \in 0 .. MaxSaves
  BY DEF Version
<1>2. v[w] + 1 \in 0 .. MaxSaves
  BY <1>1, WritersAssumption
<1> QED
  BY <1>2 DEF Version

Place == {"idle", "load", "create", "write", "sync", "rename"}

LEMMA GotoMoves ==
    ASSUME TypeOK, NEW w \in Writers, NEW at \in Place, Goto(w, at)
    PROVE  /\ pc' \in [Writers -> Place] /\ pc'[w] = at
           /\ \A o \in Writers : o # w => pc'[o] = pc[o]
BY DEF TypeOK, Goto, Place

LEMMA InitCInv == Init => CInv
<1> SUFFICES ASSUME Init PROVE CInv
  OBVIOUS
<1> USE DEF Init
<1>1. Empty \in Version /\ "first" \in Inode /\ None # "first"
  BY WritersAssumption DEF Empty, Version, Inode, None
<1>2. Busy = {}
  BY DEF Busy, At
<1>3. TypeOK
  BY <1>1, <1>2 DEF TypeOK
<1>4. LockedQueue /\ RivalsOverlap
  BY WritersAssumption DEF LockedQueue, RivalsOverlap, At
<1>5. HandlesMatch
  BY <1>1 DEF HandlesMatch
<1> QED
  BY <1>2, <1>3, <1>4, <1>5 DEF CInv, SavesAlone

-----------------------------------------------------------------------------
(* What every step keeps, rivals or not.                                   *)

\* The steps of a save before its end leave the history and the lock alone.
Middle(w) == LoadAndChange(w) \/ CreateTmp(w) \/ WriteTmp(w) \/ SyncTmp(w)

LEMMA MiddleMoves ==
    ASSUME TypeOK, NEW w \in Writers, Middle(w)
    PROVE  /\ lock' = lock /\ rivals' = rivals /\ past' = past /\ saved' = saved
           /\ config' = config
           /\ pc[w] # "idle" /\ pc'[w] # "idle" /\ pc' \in [Writers -> Place]
           /\ \A o \in Writers : o # w => pc'[o] = pc[o]
           /\ Busy' = Busy
<1>1. /\ lock' = lock /\ rivals' = rivals /\ past' = past /\ saved' = saved
      /\ config' = config /\ pc[w] # "idle"
  BY DEF Middle, LoadAndChange, CreateTmp, WriteTmp, SyncTmp, At
<1>2. PICK at \in {"create", "write", "sync", "rename"} : Goto(w, at)
  BY DEF Middle, LoadAndChange, CreateTmp, WriteTmp, SyncTmp
<1>3. at \in Place /\ at # "idle"
  BY DEF Place
<1>4. /\ pc' \in [Writers -> Place] /\ pc'[w] = at
      /\ \A o \in Writers : o # w => pc'[o] = pc[o]
  BY <1>2, <1>3, GotoMoves
<1>5. Busy' = Busy
  BY <1>1, <1>3, <1>4 DEF Busy, At
<1> QED
  BY <1>1, <1>3, <1>4, <1>5

LEMMA BeginMoves ==
    ASSUME TypeOK, NEW w \in Writers, Begin(w)
    PROVE  /\ pc[w] = "idle" /\ pc'[w] = "load" /\ pc' \in [Writers -> Place]
           /\ \A o \in Writers : o # w => pc'[o] = pc[o]
           /\ Busy' = Busy \cup {w}
<1>1. "load" \in Place
  BY DEF Place
<1> QED
  BY <1>1, GotoMoves DEF Begin, Busy, At

LEMMA FinishMoves ==
    ASSUME TypeOK, NEW w \in Writers, ~At(w, "idle"), Finish(w)
    PROVE  /\ pc[w] # "idle" /\ pc'[w] = "idle" /\ pc' \in [Writers -> Place]
           /\ \A o \in Writers : o # w => pc'[o] = pc[o]
           /\ Busy' = Busy \ {w} /\ rivals' = rivals \ {w}
           /\ mem' \in [Writers -> Version]
           /\ lock' = IF lock = w THEN NoWriter ELSE lock
<1>1. "idle" \in Place /\ Empty \in Version
  BY WritersAssumption DEF Place, Empty, Version
<1>2. mem' \in [Writers -> Version]
  BY <1>1 DEF Finish, TypeOK
<1> QED
  BY <1>1, <1>2, GotoMoves DEF Finish, Busy, At

LEMMA Stopped ==
    ASSUME TypeOK, NobodyWorks
    PROVE  /\ Busy' = {} /\ rivals' = {} /\ lock' = NoWriter
           /\ pc' \in [Writers -> Place] /\ mem' \in [Writers -> Version]
           /\ handle' \in [Writers -> Inode \cup {None}]
           /\ LockedQueue' /\ RivalsOverlap' /\ SavesAlone'
           /\ \A w \in Writers : pc'[w] = "idle" /\ handle'[w] = None
<1>1. Empty \in Version /\ "idle" \in Place
  BY WritersAssumption DEF Empty, Version, Place
<1>2. Busy' = {}
  BY DEF NobodyWorks, Busy, At
<1> QED
  BY <1>1, <1>2, WritersAssumption
     DEF NobodyWorks, LockedQueue, RivalsOverlap, SavesAlone, At

LEMMA OldTextsTyped ==
    ASSUME TypeOK
    PROVE  OldTexts \subseteq Version \cup {Torn}
BY DEF TypeOK, OldTexts

LEMMA TypeStays ==
    ASSUME TypeOK, HandlesMatch, Next
    PROVE  TypeOK'
<1> USE DEF Place
<1>1. ASSUME NEW w \in Writers, Begin(w) PROVE TypeOK'
  BY <1>1, BeginMoves DEF Begin, Meets, TypeOK
<1>2. ASSUME NEW w \in Writers, Middle(w), mem' \in [Writers -> Version],
             disk' \in [Inode -> Version \cup {Torn}], synced' \subseteq Inode,
             tmp' \in Inode \cup {None}, handle' \in [Writers -> Inode \cup {None}]
      PROVE  TypeOK'
  BY <1>2, MiddleMoves DEF TypeOK
<1>3. ASSUME NEW w \in Writers, LoadAndChange(w) PROVE TypeOK'
  <2>1. disk[config] \in Version
    BY <1>3 DEF LoadAndChange, TypeOK
  <2>2. [disk[config] EXCEPT ![w] = @ + 1] \in Version
    BY <1>3, <2>1, OneMoreChange DEF LoadAndChange
  <2>3. mem' \in [Writers -> Version]
    BY <1>3, <2>2 DEF LoadAndChange, TypeOK
  <2> QED
    BY <1>2, <1>3, <2>3 DEF LoadAndChange, TypeOK, Middle
<1>4. ASSUME NEW w \in Writers, CreateTmp(w) PROVE TypeOK'
  <2>1. PICK i \in Inode :
          /\ tmp' = i /\ handle' = [handle EXCEPT ![w] = i]
          /\ disk' = [disk EXCEPT ![i] = Torn] /\ synced' = synced \ {i}
    BY <1>4 DEF CreateTmp, TypeOK, Unused, Inode
  <2> QED
    BY <1>2, <1>4, <2>1 DEF CreateTmp, TypeOK, Middle
<1>5. ASSUME NEW w \in Writers, WriteTmp(w) PROVE TypeOK'
  <2>1. handle[w] \in Inode /\ mem[w] \in Version
    BY <1>5 DEF WriteTmp, HandlesMatch, TypeOK, At
  <2>2. disk' \in [Inode -> Version \cup {Torn}]
    BY <1>5, <2>1 DEF WriteTmp, TypeOK
  <2> QED
    BY <1>2, <1>5, <2>2 DEF WriteTmp, TypeOK, Middle
<1>6. ASSUME NEW w \in Writers, SyncTmp(w) PROVE TypeOK'
  <2>1. handle[w] \in Inode
    BY <1>6 DEF SyncTmp, HandlesMatch, TypeOK, At
  <2> QED
    BY <1>2, <1>6, <2>1 DEF SyncTmp, TypeOK, Middle
<1>7. ASSUME NEW w \in Writers, Rename(w) PROVE TypeOK'
  <2>1. ~At(w, "idle") /\ Finish(w)
    BY <1>7 DEF Rename, At
  <2>2. mem[w][w] \in 0 .. MaxSaves
    BY DEF TypeOK, Version
  <2>3. saved' \in Version
    BY <1>7, <2>2 DEF Rename, TypeOK, Version
  <2>4. disk' \in [Inode -> Version \cup {Torn}]
    BY <1>7 DEF Rename, TypeOK
  <2> QED
    BY <1>7, <2>1, <2>3, <2>4, FinishMoves, OldTextsTyped DEF Rename, TypeOK
<1>8. ASSUME NEW w \in Writers, Fail(w) PROVE TypeOK'
  BY <1>8, FinishMoves DEF Fail, TypeOK
<1>9. CASE Flush
  BY <1>9 DEF Flush, TypeOK, Busy, At
<1>10. CASE Crash
  BY <1>10, Stopped DEF Crash, TypeOK
<1>11. CASE PowerFails
  <2>1. PICK text \in Version \cup {Torn} :
          disk' = [i \in Inode |-> IF i = config THEN text ELSE Torn]
    BY <1>11 DEF PowerFails, TypeOK
  <2>2. disk' \in [Inode -> Version \cup {Torn}]
    BY <2>1
  <2> QED
    BY <1>11, <2>2, Stopped DEF PowerFails, TypeOK
<1> QED
  BY <1>1, <1>3, <1>4, <1>5, <1>6, <1>7, <1>8, <1>9, <1>10, <1>11 DEF Next, Step

\* The lock keeps the writers that take it apart, whatever the others do.
LEMMA QueueStays ==
    ASSUME TypeOK, LockedQueue, Next
    PROVE  LockedQueue'
<1> USE WritersAssumption DEF LockedQueue, At
<1>1. ASSUME NEW w \in Writers, Begin(w) PROVE LockedQueue'
  <2>1. w \in Locked => lock = NoWriter /\ lock' = w
    BY <1>1 DEF Begin
  <2>2. w \notin Locked => lock' = lock
    BY <1>1 DEF Begin
  <2> QED
    BY <1>1, <2>1, <2>2, BeginMoves
<1>2. ASSUME NEW w \in Writers, Middle(w) PROVE LockedQueue'
  BY <1>2, MiddleMoves
<1>3. ASSUME NEW w \in Writers, Rename(w) \/ Fail(w) PROVE LockedQueue'
  <2>1. ~At(w, "idle") /\ Finish(w)
    BY <1>3 DEF Rename, Fail
  <2> QED
    BY <2>1, FinishMoves
<1>4. CASE Flush
  BY <1>4 DEF Flush
<1>5. CASE Crash \/ PowerFails
  BY <1>5, Stopped DEF Crash, PowerFails
<1> QED
  BY <1>1, <1>2, <1>3, <1>4, <1>5 DEF Next, Step, Middle

LEMMA RivalsStay ==
    ASSUME TypeOK, LockedQueue, RivalsOverlap, Next
    PROVE  RivalsOverlap'
<1> USE DEF RivalsOverlap, At
<1>1. ASSUME NEW w \in Writers, Begin(w) PROVE RivalsOverlap'
  <2>1. ASSUME NEW o \in Writers, o # w, pc[o] # "idle"
        PROVE  w \in rivals' /\ o \in rivals'
    <3>1. ~(w \in Locked /\ o \in Locked)
      BY <1>1, <2>1, WritersAssumption DEF Begin, LockedQueue
    <3>2. o \in Busy
      BY <2>1 DEF Busy
    <3>3. Meets(w) = Busy \cup {w}
      BY <3>1, <3>2 DEF Meets
    <3> QED
      BY <1>1, <3>2, <3>3 DEF Begin
  <2>2. rivals \subseteq rivals'
    BY <1>1 DEF Begin
  <2> QED
    BY <1>1, <2>1, <2>2, BeginMoves
<1>2. ASSUME NEW w \in Writers, Middle(w) PROVE RivalsOverlap'
  BY <1>2, MiddleMoves
<1>3. ASSUME NEW w \in Writers, Rename(w) \/ Fail(w) PROVE RivalsOverlap'
  <2>1. ~At(w, "idle") /\ Finish(w)
    BY <1>3 DEF Rename, Fail
  <2> QED
    BY <2>1, FinishMoves
<1>4. CASE Flush
  BY <1>4 DEF Flush
<1>5. CASE Crash \/ PowerFails
  BY <1>5, Stopped DEF Crash, PowerFails
<1> QED
  BY <1>1, <1>2, <1>3, <1>4, <1>5 DEF Next, Step, Middle

LEMMA HandlesStay ==
    ASSUME TypeOK, HandlesMatch, Next
    PROVE  HandlesMatch'
<1>0. \A i \in Inode : i # None
  BY WritersAssumption DEF Inode, None
<1> USE DEF HandlesMatch, At
<1>1. ASSUME NEW w \in Writers, Begin(w) PROVE HandlesMatch'
  BY <1>1, BeginMoves DEF Begin
<1>2. ASSUME NEW w \in Writers, LoadAndChange(w) PROVE HandlesMatch'
  <2>1. pc[w] = "load" /\ pc'[w] = "create"
    BY <1>2 DEF LoadAndChange, Goto, TypeOK
  <2> QED
    BY <1>2, <2>1, MiddleMoves DEF LoadAndChange, Middle
<1>3. ASSUME NEW w \in Writers, CreateTmp(w) PROVE HandlesMatch'
  <2>1. pc'[w] = "write"
    BY <1>3 DEF CreateTmp, Goto, TypeOK
  <2>2. PICK i \in Inode :
          i # config /\ tmp' = i /\ handle' = [handle EXCEPT ![w] = i]
    BY <1>3 DEF CreateTmp, TypeOK, Unused
  <2>3. handle'[w] = i /\ \A o \in Writers : o # w => handle'[o] = handle[o]
    BY <2>2 DEF TypeOK
  <2> QED
    BY <1>0, <1>3, <2>1, <2>2, <2>3, MiddleMoves DEF Middle
<1>4. ASSUME NEW w \in Writers, WriteTmp(w) PROVE HandlesMatch'
  <2>1. pc[w] = "write" /\ pc'[w] = "sync"
    BY <1>4 DEF WriteTmp, Goto, TypeOK
  <2> QED
    BY <1>4, <2>1, MiddleMoves DEF WriteTmp, Middle
<1>5. ASSUME NEW w \in Writers, SyncTmp(w) PROVE HandlesMatch'
  <2>1. pc'[w] = "rename"
    BY <1>5 DEF SyncTmp, Goto, TypeOK
  <2>2. handle'[w] = None /\ \A o \in Writers : o # w => handle'[o] = handle[o]
    BY <1>5 DEF SyncTmp, TypeOK
  <2> QED
    BY <1>5, <2>1, <2>2, MiddleMoves DEF SyncTmp, Middle
<1>6. ASSUME NEW w \in Writers, Rename(w) PROVE HandlesMatch'
  <2>1. pc[w] = "rename" /\ Finish(w)
    BY <1>6 DEF Rename
  <2>2. tmp' # config'
    BY <1>0, <1>6 DEF Rename, TypeOK
  <2> QED
    BY <1>6, <2>1, <2>2, FinishMoves DEF Rename
<1>7. ASSUME NEW w \in Writers, Fail(w) PROVE HandlesMatch'
  <2>1. handle'[w] = None /\ \A o \in Writers : o # w => handle'[o] = handle[o]
    BY <1>7 DEF Fail, TypeOK
  <2> QED
    BY <1>7, <2>1, FinishMoves DEF Fail
<1>8. CASE Flush
  BY <1>8 DEF Flush
<1>9. CASE Crash
  BY <1>9, Stopped DEF Crash
<1>10. CASE PowerFails
  BY <1>0, <1>10, Stopped DEF PowerFails, TypeOK
<1> QED
  BY <1>1, <1>2, <1>3, <1>4, <1>5, <1>6, <1>7, <1>8, <1>9, <1>10 DEF Next, Step

-----------------------------------------------------------------------------
(* The writer that is at work alone.                                       *)

\* Whoever shares the time with another is a rival.
LEMMA AtWorkAlone ==
    ASSUME TypeOK, RivalsOverlap, HandlesMatch, NEW w \in Busy \ rivals
    PROVE  \A o \in Writers : o # w => pc[o] = "idle" /\ handle[o] = None
BY DEF RivalsOverlap, HandlesMatch, Busy, At, TypeOK

\* So of a step in the middle of a save only the one that takes it matters.
LEMMA OnlyTheActor ==
    ASSUME TypeOK, RivalsOverlap, NEW w \in Writers, Middle(w),
           w \notin rivals => TmpIsItsOwn(w)' /\ SavesOntoTheFile(w)'
    PROVE  SavesAlone'
<1> SUFFICES ASSUME NEW v \in Busy' \ rivals' PROVE TmpIsItsOwn(v)' /\ SavesOntoTheFile(v)'
  BY DEF SavesAlone
<1>1. v \in Busy /\ v \notin rivals /\ v \in Writers /\ pc[w] # "idle"
  BY MiddleMoves DEF Busy
<1>2. v = w
  BY <1>1 DEF RivalsOverlap, Busy, At
<1> QED
  BY <1>1, <1>2

LEMMA AloneStays ==
    ASSUME CInv, Next
    PROVE  SavesAlone'
<1> USE DEF CInv, At
<1>0. ASSUME NEW w \in Writers, w \notin rivals, pc[w] # "idle"
      PROVE  TmpIsItsOwn(w) /\ SavesOntoTheFile(w)
  BY <1>0 DEF SavesAlone, Busy
<1>i. \A i \in Inode : i # None
  BY WritersAssumption DEF Inode, None
<1>1. ASSUME NEW w \in Writers, Begin(w) PROVE SavesAlone'
  <2> SUFFICES ASSUME NEW v \in Busy' \ rivals'
               PROVE  TmpIsItsOwn(v)' /\ SavesOntoTheFile(v)'
    BY DEF SavesAlone
  <2>1. CASE v = w
    BY <1>1, <2>1, BeginMoves DEF TmpIsItsOwn, SavesOntoTheFile
  <2>2. CASE v # w
    <3>1. v \in Busy /\ v \notin rivals /\ v \in Writers
      BY <1>1, <2>2, BeginMoves DEF Begin, Busy
    <3>2. TmpIsItsOwn(v) /\ SavesOntoTheFile(v)
      BY <3>1 DEF SavesAlone
    <3>3. pc'[v] = pc[v]
      BY <1>1, <2>2, <3>1, BeginMoves
    <3> QED
      BY <1>1, <3>2, <3>3 DEF Begin, TmpIsItsOwn, SavesOntoTheFile
  <2> QED
    BY <2>1, <2>2
<1>2. ASSUME NEW w \in Writers, LoadAndChange(w) PROVE SavesAlone'
  <2>1. pc'[w] = "create" /\ mem'[w] = [disk[config] EXCEPT ![w] = @ + 1]
    BY <1>2 DEF LoadAndChange, Goto, TypeOK
  <2>2. TmpIsItsOwn(w)' /\ SavesOntoTheFile(w)'
    BY <1>2, <2>1 DEF LoadAndChange, TmpIsItsOwn, SavesOntoTheFile
  <2> QED
    BY <1>2, <2>2, OnlyTheActor DEF Middle
<1>3. ASSUME NEW w \in Writers, CreateTmp(w) PROVE SavesAlone'
  <2>1. PICK i \in Inode :
          /\ i # config /\ tmp' = i /\ handle' = [handle EXCEPT ![w] = i]
          /\ disk' = [disk EXCEPT ![i] = Torn]
    BY <1>3 DEF CreateTmp, TypeOK, Unused, HandlesMatch
  <2>2. pc'[w] = "write" /\ handle'[w] = i /\ disk'[i] = Torn
        /\ disk'[config] = disk[config] /\ config' = config /\ mem' = mem
    BY <1>3, <2>1 DEF CreateTmp, Goto, TypeOK
  <2>3. TmpIsItsOwn(w)'
    BY <1>i, <2>1, <2>2 DEF TmpIsItsOwn
  <2>4. w \notin rivals => SavesOntoTheFile(w)'
    BY <1>0, <1>3, <2>2 DEF CreateTmp, SavesOntoTheFile
  <2> QED
    BY <1>3, <2>3, <2>4, OnlyTheActor DEF Middle
<1>4. ASSUME NEW w \in Writers, WriteTmp(w) PROVE SavesAlone'
  <2>1. pc[w] = "write" /\ pc'[w] = "sync"
    BY <1>4 DEF WriteTmp, Goto, TypeOK
  <2>2. ASSUME w \notin rivals PROVE TmpIsItsOwn(w)' /\ SavesOntoTheFile(w)'
    <3>1. handle[w] = tmp /\ tmp # None /\ tmp \in Inode /\ disk[tmp] = Torn /\ tmp # config
      BY <1>0, <2>1, <2>2 DEF TmpIsItsOwn, TypeOK, HandlesMatch
    <3>2. disk' = [disk EXCEPT ![tmp] = mem[w]]
      BY <1>4, <3>1 DEF WriteTmp
    <3>3. disk'[tmp] = mem[w] /\ disk'[config] = disk[config]
      BY <3>1, <3>2 DEF TypeOK
    <3>4. UNCHANGED <<config, tmp, mem, handle>>
      BY <1>4 DEF WriteTmp
    <3> QED
      BY <1>0, <2>1, <2>2, <3>1, <3>3, <3>4 DEF TmpIsItsOwn, SavesOntoTheFile
  <2> QED
    BY <1>4, <2>2, OnlyTheActor DEF Middle
<1>5. ASSUME NEW w \in Writers, SyncTmp(w) PROVE SavesAlone'
  <2>1. pc[w] = "sync" /\ pc'[w] = "rename"
    BY <1>5 DEF SyncTmp, Goto, TypeOK
  <2>2. ASSUME w \notin rivals PROVE TmpIsItsOwn(w)' /\ SavesOntoTheFile(w)'
    <3>1. /\ handle[w] = tmp /\ tmp # None /\ disk[tmp] = mem[w]
          /\ disk[config] # Torn /\ mem[w] = [disk[config] EXCEPT ![w] = @ + 1]
      BY <1>0, <2>1, <2>2 DEF TmpIsItsOwn, SavesOntoTheFile
    <3>2. tmp \in synced' /\ UNCHANGED <<disk, config, tmp, mem>>
      BY <1>5, <3>1 DEF SyncTmp
    <3> QED
      BY <2>1, <3>1, <3>2 DEF TmpIsItsOwn, SavesOntoTheFile
  <2> QED
    BY <1>5, <2>2, OnlyTheActor DEF Middle
<1>6. ASSUME NEW w \in Writers, Rename(w) \/ Fail(w) PROVE SavesAlone'
  <2>1. ~At(w, "idle") /\ Finish(w)
    BY <1>6 DEF Rename, Fail
  <2>2. Busy' \ rivals' = {}
    <3> SUFFICES ASSUME NEW v \in Busy' \ rivals' PROVE FALSE
      OBVIOUS
    <3>1. v \in Busy /\ v # w /\ v \notin rivals /\ v \in Writers
      BY <2>1, FinishMoves DEF Busy
    <3> QED
      BY <2>1, <3>1 DEF RivalsOverlap, Busy
  <2> QED
    BY <2>2 DEF SavesAlone
<1>7. CASE Flush
  BY <1>7 DEF Flush, SavesAlone, Busy, TmpIsItsOwn, SavesOntoTheFile
<1>8. CASE Crash \/ PowerFails
  BY <1>8, Stopped DEF Crash, PowerFails
<1> QED
  BY <1>1, <1>2, <1>3, <1>4, <1>5, <1>6, <1>7, <1>8 DEF Next, Step

-----------------------------------------------------------------------------
(* The theorems.                                                           *)

LEMMA NextCInv == CInv /\ [Next]_vars => CInv'
<1> SUFFICES ASSUME CInv, [Next]_vars PROVE CInv'
  OBVIOUS
<1>1. CASE Next
  BY <1>1, TypeStays, QueueStays, RivalsStay, HandlesStay, AloneStays DEF CInv
<1>2. CASE UNCHANGED vars
  BY <1>2 DEF vars, CInv, TypeOK, LockedQueue, RivalsOverlap, HandlesMatch, SavesAlone,
             TmpIsItsOwn, SavesOntoTheFile, Busy, At
<1> QED
  BY <1>1, <1>2

\* The lock discipline and all it brings, in every state, whoever goes past
\* the lock.
THEOREM ConfigInvariant == Spec => []CInv
BY InitCInv, NextCInv, PTL DEF Spec

\* What the lock gives with no assumption about the other writers: whoever
\* takes it and is at work holds it, so two calls of modify_config never
\* overlap, whatever fails, panics or crashes.
THEOREM LockedWritersQueue == Spec => []LockedQueue
<1>1. CInv => LockedQueue
  BY DEF CInv
<1> QED
  BY <1>1, ConfigInvariant, PTL

\* What a rename does to a whole file when nobody is a rival: the file becomes
\* the old one plus one change, fsynced, and only the old one may be back.
LEMMA RenameAlone ==
    ASSUME CInv, rivals = {}, FileIsWhole, NEW w \in Writers, Rename(w)
    PROVE  /\ (disk[config])' = [disk[config] EXCEPT ![w] = @ + 1]
           /\ (disk[config])' \in Version /\ config' \in synced'
           /\ saved' = [saved EXCEPT ![w] = disk[config][w] + 1]
           /\ past' = past \cup {disk[config]}
<1> USE DEF CInv, Rename, At
<1>1. w \in Busy \ rivals
  BY DEF Busy
<1>2. /\ tmp \in Inode /\ tmp # config /\ tmp \in synced /\ disk[tmp] = mem[w]
      /\ mem[w] = [disk[config] EXCEPT ![w] = @ + 1]
  BY <1>1 DEF SavesAlone, TmpIsItsOwn, SavesOntoTheFile, TypeOK, HandlesMatch
<1>3. disk'[tmp] = mem[w] /\ config' = tmp /\ tmp \in synced'
  BY <1>2 DEF TypeOK
<1>4. mem[w] \in Version
  BY DEF TypeOK
<1>5. mem[w][w] = disk[config][w] + 1
  <2>1. disk[config] \in Version
    BY DEF FileIsWhole, TypeOK
  <2> QED
    BY <1>2, <2>1 DEF Version
<1>6. \A o \in Writers : handle[o] = None
  BY <1>1, AtWorkAlone DEF HandlesMatch
<1>7. config # None /\ config \in synced
  BY WritersAssumption DEF TypeOK, Inode, None, FileIsWhole
<1>8. OldTexts = {disk[config]}
  BY <1>6, <1>7 DEF OldTexts
<1> QED
  BY <1>2, <1>3, <1>4, <1>5, <1>8

\* Any other step of a save leaves a whole file alone when nobody is a rival.
LEMMA OthersAlone ==
    ASSUME CInv, rivals = {}, FileIsWhole, NEW w \in Writers,
           Begin(w) \/ Middle(w) \/ Fail(w)
    PROVE  /\ (disk[config])' = disk[config] /\ config' \in synced'
           /\ saved' = saved /\ past' = past
<1> USE DEF CInv, FileIsWhole, At
<1>1. CASE Begin(w)
  BY <1>1 DEF Begin
<1>2. CASE LoadAndChange(w)
  BY <1>2 DEF LoadAndChange
<1>3. CASE CreateTmp(w)
  <2>1. PICK i \in Inode :
          /\ i # config /\ disk' = [disk EXCEPT ![i] = Torn] /\ synced' = synced \ {i}
    BY <1>3 DEF CreateTmp, TypeOK, Unused, HandlesMatch
  <2> QED
    BY <1>3, <2>1 DEF CreateTmp, TypeOK
<1>4. CASE WriteTmp(w)
  <2>1. handle[w] = tmp /\ tmp # config
    BY <1>4 DEF WriteTmp, SavesAlone, TmpIsItsOwn, Busy, HandlesMatch
  <2> QED
    BY <1>4, <2>1 DEF WriteTmp, TypeOK
<1>5. CASE SyncTmp(w)
  BY <1>5 DEF SyncTmp
<1>6. CASE Fail(w)
  BY <1>6 DEF Fail
<1> QED
  BY <1>1, <1>2, <1>3, <1>4, <1>5, <1>6 DEF Middle

LEMMA FallsAlone ==
    ASSUME CInv, FileIsWhole, PowerFails
    PROVE  /\ (disk[config])' \in past \cup {disk[config]} /\ config' \in synced'
           /\ past' = {} /\ saved' = saved
BY DEF CInv, FileIsWhole, PowerFails, TypeOK

\* A whole config stays whole, also behind a power failure, while no writer
\* that goes past the lock overlaps a save.
THEOREM WholeWithoutRivals == Spec => OnlyRivalsTear
<1>1. CInv /\ [Next]_vars => [FileIsWhole /\ ~FileIsWhole' => rivals # {}]_vars
  <2> SUFFICES ASSUME CInv, Next, FileIsWhole, rivals = {} PROVE FileIsWhole'
    BY DEF vars
  <2>1. ASSUME NEW w \in Writers, Rename(w) PROVE FileIsWhole'
    BY <2>1, RenameAlone, TornIsNoVersion DEF FileIsWhole
  <2>2. ASSUME NEW w \in Writers, Begin(w) \/ Middle(w) \/ Fail(w) PROVE FileIsWhole'
    BY <2>2, OthersAlone DEF FileIsWhole
  <2>3. CASE Flush
    BY <2>3 DEF Flush, FileIsWhole
  <2>4. CASE Crash
    BY <2>4 DEF Crash, FileIsWhole
  <2>5. CASE PowerFails
    BY <2>5, FallsAlone DEF FileIsWhole
  <2> QED
    BY <2>1, <2>2, <2>3, <2>4, <2>5 DEF Next, Step, Middle
<1> QED
  BY <1>1, ConfigInvariant, PTL DEF Spec, OnlyRivalsTear

\* Load, change and save with lock, temporary file, fsync and rename are one
\* change of AtomicConfig, and any other step, a failure or a crash among them,
\* is none or one of its power failures, while no writer that goes past the
\* lock overlaps a save.
THEOREM AtomicWithoutRivals == Spec => SavesAreAtomic
<1>1. CInv /\ [Next]_vars =>
          [rivals = {} /\ FileIsWhole => [Atomic!Next]_<<disk[config], saved, past>>]_vars
  <2> SUFFICES ASSUME CInv, Next, rivals = {}, FileIsWhole
               PROVE  [Atomic!Next]_<<disk[config], saved, past>>
    BY DEF vars
  <2>1. ASSUME NEW w \in Writers, Rename(w) PROVE Atomic!Next
    <3>1. /\ (disk[config])' = [disk[config] EXCEPT ![w] = @ + 1]
          /\ (disk[config])' \in Version
          /\ saved' = [saved EXCEPT ![w] = disk[config][w] + 1]
          /\ past' = past \cup {disk[config]}
      BY <2>1, RenameAlone
    <3>2. disk[config] \in Version
      BY DEF CInv, TypeOK, FileIsWhole
    <3>3. disk[config][w] \in Int /\ disk[config][w] + 1 \in 0 .. MaxSaves
      BY <3>1, <3>2 DEF Version
    <3>4. disk[config][w] < MaxSaves
      BY <3>3, WritersAssumption
    <3>5. Atomic!Change(w)
      BY <3>1, <3>4 DEF Atomic!Change
    <3> QED
      BY <3>5 DEF Atomic!Next
  <2>2. ASSUME NEW w \in Writers, Begin(w) \/ Middle(w) \/ Fail(w)
        PROVE  UNCHANGED <<disk[config], saved, past>>
    BY <2>2, OthersAlone
  <2>3. CASE Flush
    BY <2>3 DEF Flush, Atomic!Next, Atomic!Settle
  <2>4. CASE Crash
    BY <2>4 DEF Crash
  <2>5. CASE PowerFails
    BY <2>5, FallsAlone DEF Atomic!Next, Atomic!Fall
  <2> QED
    BY <2>1, <2>2, <2>3, <2>4, <2>5 DEF Next, Step, Middle
<1> QED
  BY <1>1, ConfigInvariant, PTL DEF Spec, SavesAreAtomic
=============================================================================
