------------------------ MODULE InstallServiceProofs ------------------------
(***************************************************************************)
(* Proofs about InstallQueue and InstallService, for every set of jobs,    *)
(* every bound on ids and every history length.                            *)
(*                                                                         *)
(* The queue: first what the sequence operations do to a queue in          *)
(* increasing order, then what an operation does to the rows and the       *)
(* inductive invariant QInv, one lemma per group of operations, and the    *)
(* history: ranks among the ended rows, and what a prune drops.            *)
(*                                                                         *)
(* The service: every step of a task or of a user call is one operation of *)
(* the queue or leaves it alone (ServiceStepsQueue), so QInv carries over. *)
(* On top of it comes what ties the tasks, the stash, the flags and the    *)
(* calls to the queue: SInv.  Last, OneRow: a step changes one row at      *)
(* most.  It gives that an ended row stays as it is, and that the service  *)
(* implements InstallPipeline.                                             *)
(***************************************************************************)
EXTENDS InstallService, SequenceTheorems, FiniteSetTheorems, TLAPS

Increasing(s) == \A i, j \in DOMAIN s : i < j => s[i] < s[j]

\* The elements of a sequence are in the set it ranges over.
LEMMA RangeInSet == ASSUME NEW S, NEW s \in Seq(S) PROVE Range(s) \subseteq S
<1> SUFFICES ASSUME NEW x \in Range(s) PROVE x \in S
  OBVIOUS
<1>1. PICK i \in 1 .. Len(s) : x = s[i]
  BY LenProperties DEF Range
<1> QED
  BY <1>1, ElementOfSeq

\* RemoveAt closes the gap.
LEMMA RemoveAtProperties ==
    ASSUME NEW S, NEW s \in Seq(S), NEW pos \in 1 .. Len(s)
    PROVE  /\ RemoveAt(s, pos) \in Seq(S)
           /\ Len(RemoveAt(s, pos)) = Len(s) - 1
           /\ \A i \in 1 .. Len(s) - 1 :
                 RemoveAt(s, pos)[i] = s[IF i < pos THEN i ELSE i + 1]
<1> DEFINE a == SubSeq(s, 1, pos - 1)
           b == SubSeq(s, pos + 1, Len(s))
<1>1. /\ a \in Seq(S) /\ Len(a) = pos - 1
      /\ \A i \in 1 .. pos - 1 : a[i] = s[i]
  <2>1. \A i \in 1 .. pos - 1 : s[i] \in S
    BY ElementOfSeq
  <2> QED
    BY <2>1, SubSeqProperties
<1>2. /\ b \in Seq(S) /\ Len(b) = Len(s) - pos
      /\ \A i \in 1 .. Len(s) - pos : b[i] = s[pos + i]
  <2>1. \A i \in pos + 1 .. Len(s) : s[i] \in S
    BY ElementOfSeq
  <2>2. /\ b \in Seq(S)
        /\ Len(b) = IF pos + 1 <= Len(s) THEN Len(s) - (pos + 1) + 1 ELSE 0
        /\ \A i \in 1 .. Len(s) - (pos + 1) + 1 : b[i] = s[pos + 1 + i - 1]
    <3> HIDE DEF b
    <3> QED
      BY <2>1, SubSeqProperties DEF b
  <2> HIDE DEF b
  <2> QED
    BY <2>2
<1> HIDE DEF a, b
<1>3. /\ a \o b \in Seq(S)
      /\ Len(a \o b) = Len(a) + Len(b)
      /\ \A i \in 1 .. Len(a) + Len(b) :
            (a \o b)[i] = IF i <= Len(a) THEN a[i] ELSE b[i - Len(a)]
  BY <1>1, <1>2, ConcatProperties
<1>4. RemoveAt(s, pos) = a \o b
  BY DEF RemoveAt, a, b
<1>5. Len(a) + Len(b) = Len(s) - 1 /\ Len(s) \in Nat
  BY <1>1, <1>2
<1>6. ASSUME NEW i \in 1 .. Len(s) - 1
      PROVE  (a \o b)[i] = s[IF i < pos THEN i ELSE i + 1]
  <2>1. CASE i < pos
    <3>1. i <= Len(a) /\ i \in 1 .. pos - 1
      BY <1>1, <2>1
    <3> QED
      BY <1>1, <1>3, <1>5, <2>1, <3>1
  <2>2. CASE ~(i < pos)
    <3>1. ~(i <= Len(a)) /\ i - Len(a) \in 1 .. Len(s) - pos
      BY <1>1, <1>5, <2>2
    <3>2. b[i - Len(a)] = s[pos + (i - Len(a))]
      BY <1>2, <3>1
    <3>3. pos + (i - Len(a)) = i + 1
      BY <1>1
    <3> QED
      BY <1>3, <1>5, <2>2, <3>1, <3>2, <3>3
  <2> QED
    BY <2>1, <2>2
<1> QED
  BY <1>3, <1>4, <1>5, <1>6

\* Taking an id out of an increasing queue removes exactly that id and keeps
\* the order.
LEMMA RemoveFirstIncreasing ==
    ASSUME NEW S, S \subseteq Int, NEW s \in Seq(S), NEW e \in S, Increasing(s)
    PROVE  /\ RemoveFirst(s, e) \in Seq(S)
           /\ Increasing(RemoveFirst(s, e))
           /\ Range(RemoveFirst(s, e)) = Range(s) \ {e}
<1>1. CASE ~\E i \in 1 .. Len(s) : s[i] = e
  <2>1. RemoveFirst(s, e) = s
    BY <1>1 DEF RemoveFirst
  <2>2. Range(s) = Range(s) \ {e}
    BY <1>1 DEF Range
  <2> QED
    BY <2>1, <2>2
<1>2. CASE \E i \in 1 .. Len(s) : s[i] = e
  <2>1. PICK pos \in 1 .. Len(s) : s[pos] = e
    BY <1>2
  <2>2. {i \in 1 .. Len(s) : s[i] = e} = {pos}
    BY <2>1 DEF Increasing
  <2>3. SelectInSeq(s, LAMBDA v : v = e) = pos
    BY <2>2 DEF SelectInSeq, Min
  <2> DEFINE t == RemoveAt(s, pos)
  <2>4. RemoveFirst(s, e) = t
    BY <1>2, <2>3 DEF RemoveFirst
  <2>5. /\ t \in Seq(S)
        /\ Len(t) = Len(s) - 1
        /\ \A i \in 1 .. Len(s) - 1 : t[i] = s[IF i < pos THEN i ELSE i + 1]
    BY RemoveAtProperties
  <2> HIDE DEF t
  <2>6. Increasing(t)
    <3>1. DOMAIN t = 1 .. Len(s) - 1 /\ DOMAIN s = 1 .. Len(s) /\ Len(s) \in Nat
      BY <2>5, LenProperties
    <3>2. SUFFICES ASSUME NEW i \in 1 .. Len(s) - 1, NEW j \in 1 .. Len(s) - 1, i < j
                   PROVE  t[i] < t[j]
      BY <3>1 DEF Increasing
    <3> DEFINE k(n) == IF n < pos THEN n ELSE n + 1
    <3>3. k(i) \in DOMAIN s /\ k(j) \in DOMAIN s /\ k(i) < k(j)
      BY <3>1, <3>2
    <3>4. s[k(i)] < s[k(j)]
      BY <3>3 DEF Increasing
    <3> QED
      BY <2>5, <3>4
  <2>7. Range(t) \subseteq Range(s) \ {e}
    BY <2>1, <2>2, <2>5, SMTT(40) DEF Range
  <2>8. ASSUME NEW x \in Range(s) \ {e} PROVE x \in Range(t)
    <3>1. PICK k \in 1 .. Len(s) : s[k] = x
      BY DEF Range
    <3>2. k # pos
      BY <2>1, <3>1
    <3> DEFINE n == IF k < pos THEN k ELSE k - 1
    <3>3. /\ Len(s) \in Nat /\ n \in 1 .. Len(s) - 1
          /\ (IF n < pos THEN n ELSE n + 1) = k
      BY <3>2, LenProperties
    <3> HIDE DEF n
    <3>4. t[n] = x
      BY <2>5, <3>1, <3>3
    <3>5. n \in DOMAIN t
      BY <2>5, <3>3, LenProperties
    <3> QED
      BY <3>4, <3>5 DEF Range
  <2> QED
    BY <2>4, <2>5, <2>6, <2>7, <2>8
<1> QED
  BY <1>1, <1>2

\* A larger id at the back keeps the order.
LEMMA AppendIncreasing ==
    ASSUME NEW S, S \subseteq Int, NEW s \in Seq(S), NEW e \in S, Increasing(s),
           \A x \in Range(s) : x < e
    PROVE  /\ Append(s, e) \in Seq(S)
           /\ Increasing(Append(s, e))
           /\ \A x : x \in Range(Append(s, e)) <=> x \in Range(s) \/ x = e
<1> DEFINE t == Append(s, e)
<1>1. /\ t \in Seq(S) /\ Len(t) = Len(s) + 1 /\ t[Len(s) + 1] = e
      /\ \A i \in 1 .. Len(s) : t[i] = s[i]
  BY AppendProperties
<1> HIDE DEF t
<1>2. Increasing(t)
  BY <1>1 DEF Increasing, Range
<1>3. \A x : x \in Range(t) <=> x \in Range(s) \/ x = e
  BY <1>1 DEF Range
<1> QED
  BY <1>1, <1>2, <1>3 DEF t

\* Popping the front keeps the order and removes exactly the front.
LEMMA TailIncreasing ==
    ASSUME NEW S, S \subseteq Int, NEW s \in Seq(S), s # << >>, Increasing(s)
    PROVE  /\ Head(s) \in Range(s)
           /\ Tail(s) \in Seq(S)
           /\ Increasing(Tail(s))
           /\ Range(Tail(s)) = Range(s) \ {Head(s)}
<1> DEFINE t == Tail(s)
<1>1. /\ t \in Seq(S) /\ Len(t) = Len(s) - 1 /\ Len(s) >= 1 /\ Head(s) = s[1]
      /\ \A i \in 1 .. Len(t) : t[i] = s[i + 1]
  BY HeadTailProperties, EmptySeq
<1> HIDE DEF t
<1>0. DOMAIN t = 1 .. Len(s) - 1 /\ DOMAIN s = 1 .. Len(s) /\ Len(s) \in Nat
  BY <1>1, LenProperties
<1>2. Increasing(t)
  <2>1. SUFFICES ASSUME NEW i \in 1 .. Len(s) - 1, NEW j \in 1 .. Len(s) - 1, i < j
                 PROVE  t[i] < t[j]
    BY <1>0 DEF Increasing
  <2>2. i + 1 \in DOMAIN s /\ j + 1 \in DOMAIN s /\ i + 1 < j + 1
    BY <1>0, <2>1
  <2>3. s[i + 1] < s[j + 1]
    BY <2>2 DEF Increasing
  <2> QED
    BY <1>1, <2>3
<1>3. Head(s) \in Range(s)
  BY <1>0, <1>1 DEF Range
<1>4. Range(t) \subseteq Range(s) \ {Head(s)}
  <2>1. SUFFICES ASSUME NEW i \in 1 .. Len(s) - 1 PROVE t[i] \in Range(s) \ {Head(s)}
    BY <1>0 DEF Range
  <2>2. t[i] = s[i + 1] /\ i + 1 \in DOMAIN s /\ 1 \in DOMAIN s
    BY <1>0, <1>1
  <2>3. 1 < i + 1
    BY <1>0
  <2>4. s[1] < s[i + 1]
    BY <2>2, <2>3 DEF Increasing
  <2>5. s[1] \in Int /\ s[i + 1] \in Int
    BY <1>0, <2>2, ElementOfSeq
  <2> QED
    BY <1>1, <2>2, <2>4, <2>5 DEF Range
<1>5. ASSUME NEW x \in Range(s) \ {Head(s)} PROVE x \in Range(t)
  <2>1. PICK k \in 1 .. Len(s) : s[k] = x
    BY DEF Range
  <2>2. k - 1 \in 1 .. Len(t) /\ t[k - 1] = x
    BY <1>1, <2>1
  <2> QED
    BY <1>1, <2>2 DEF Range
<1> QED
  BY <1>1, <1>2, <1>3, <1>4, <1>5 DEF t

-----------------------------------------------------------------------------
(* What an operation does to the rows.                                     *)

\* Pruning only drops ended rows and changes none.
LEMMA PruneProperties ==
    ASSUME NEW rows
    PROVE  /\ DOMAIN Prune(rows) \subseteq DOMAIN rows
           /\ \A id \in DOMAIN Prune(rows) : Prune(rows)[id] = rows[id]
           /\ \A id \in DOMAIN rows \ DOMAIN Prune(rows) : rows[id].status \in Terminal
  BY DEF Prune, Restrict

\* A new status for one row, and the pruning after it, seen from every row.
LEMMA StatusThenPrune ==
    ASSUME QTypeOK, NEW id \in DOMAIN entry, NEW status \in Live \cup Terminal,
           entry' = Prune(SetStatus(id, status))
    PROVE  /\ DOMAIN entry' \subseteq DOMAIN entry
           /\ \A o \in DOMAIN entry' :
                 /\ entry'[o] \in Entry
                 /\ entry'[o].job = entry[o].job
                 /\ entry'[o].status = IF o = id THEN status ELSE entry[o].status
           /\ \A o \in DOMAIN entry \ DOMAIN entry' :
                 (IF o = id THEN status ELSE entry[o].status) \in Terminal
<1> DEFINE rows == [entry EXCEPT ![id].status = status]
<1>1. entry' = Prune(rows)
  BY DEF SetStatus
<1>2. /\ DOMAIN rows = DOMAIN entry
      /\ \A o \in DOMAIN rows :
            /\ rows[o] \in Entry
            /\ rows[o].job = entry[o].job
            /\ rows[o].status = IF o = id THEN status ELSE entry[o].status
  BY DEF QTypeOK, Entry
<1> HIDE DEF rows
<1> QED
  BY <1>1, <1>2, PruneProperties

\* A new status for one row, not pruned.
LEMMA StatusOnly ==
    ASSUME QTypeOK, NEW id \in DOMAIN entry, NEW status \in Live \cup Terminal,
           entry' = SetStatus(id, status)
    PROVE  /\ DOMAIN entry' = DOMAIN entry
           /\ \A o \in DOMAIN entry' :
                 /\ entry'[o] \in Entry
                 /\ entry'[o].job = entry[o].job
                 /\ entry'[o].status = IF o = id THEN status ELSE entry[o].status
  BY DEF QTypeOK, Entry, SetStatus

\* A pushed row is the only new one.
LEMMA PushProperties ==
    ASSUME QTypeOK, NEW job \in Jobs \cup {ExternalJob, MoveJob},
           NEW status \in Live, Push(job, status)
    PROVE  /\ nextId' = nextId + 1 /\ nextId' \in 1 .. MaxId
           /\ nextId' \notin DOMAIN entry
           /\ DOMAIN entry' = DOMAIN entry \cup {nextId'}
           /\ DOMAIN entry' \subseteq 1 .. nextId'
           /\ \A o \in DOMAIN entry' : entry'[o] \in Entry
           /\ entry'[nextId'] = [job |-> job, status |-> status]
           /\ \A o \in DOMAIN entry : entry'[o] = entry[o]
<1>1. nextId \in 0 .. MaxId /\ MaxId \in Nat /\ nextId < MaxId /\ nextId' = nextId + 1
  BY BoundsAssumption DEF QTypeOK, Push
<1>2. nextId' \in 1 .. MaxId /\ nextId + 1 \notin DOMAIN entry
  BY <1>1 DEF QTypeOK
<1>3. [job |-> job, status |-> status] \in Entry
  BY DEF Entry
<1> QED
  BY <1>1, <1>2, <1>3 DEF Push, QTypeOK

-----------------------------------------------------------------------------
(* The inductive invariant.  Types alone are not inductive (a popped id    *)
(* must have a row), SlotsMatchRows needs the order of the FIFO (an id that *)
(* waited twice would stay behind when it is popped), and OneAtATime needs  *)
(* that a row cannot own both slots.                                        *)

QInv == QTypeOK /\ OneAtATime /\ SlotsMatchRows /\ Increasing(waiting)

LEMMA QInitInv == QInit => QInv
<1> SUFFICES ASSUME QInit PROVE QInv
  OBVIOUS
<1>1. DOMAIN entry = {} /\ waiting = << >> /\ DOMAIN waiting = {}
  BY DEF QInit
<1> QED
  BY <1>1, BoundsAssumption
  DEF QInit, QInv, QTypeOK, OneAtATime, SlotsMatchRows, Increasing, Range,
      WaitingIds, NoId

\* A row that is no install: the rows and slots of the installs stay as they
\* are.  Covers the rows of transfers and of the library move.
LEMMA OtherJobs == ExternalJob \notin Jobs /\ MoveJob \notin Jobs
  BY KeysAssumption DEF ExternalJob, MoveJob

LEMMA AdmitKeeps == QInv /\ QAdmit => QInv'
<1> SUFFICES ASSUME QInv, NEW job \in Jobs,
                    AdmitDuplicate(job) \/ AdmitStart(job) \/ AdmitQueued(job)
             PROVE  QInv'
  BY DEF QAdmit
<1> USE DEF QInv
<1>1. CASE AdmitDuplicate(job)
  BY <1>1 DEF AdmitDuplicate, queueVars, QTypeOK, OneAtATime, SlotsMatchRows,
              WaitingIds, Increasing, Downloading
<1>2. CASE AdmitStart(job)
  <2>1. /\ Push(job, "Downloading") /\ "Downloading" \in Live
        /\ download = NoId /\ finalize = NoId
        /\ download' = nextId + 1 /\ finalize' = finalize /\ waiting' = waiting
    BY <1>2 DEF AdmitStart, SlotsFree, Live
  <2>2. /\ nextId' = nextId + 1 /\ nextId' \in 1 .. MaxId
        /\ nextId' \notin DOMAIN entry
        /\ DOMAIN entry' = DOMAIN entry \cup {nextId'}
        /\ DOMAIN entry' \subseteq 1 .. nextId'
        /\ \A o \in DOMAIN entry' : entry'[o] \in Entry
        /\ entry'[nextId'] = [job |-> job, status |-> "Downloading"]
        /\ \A o \in DOMAIN entry : entry'[o] = entry[o]
    BY <2>1, PushProperties
  <2>3. QTypeOK'
    BY <2>1, <2>2 DEF QTypeOK, Ids, NoId
  <2>4. OneAtATime'
    BY <2>1 DEF OneAtATime
  <2>5. SlotsMatchRows'
    <3>1. nextId' \notin WaitingIds /\ nextId' # NoId
      BY <2>2 DEF SlotsMatchRows, NoId
    <3>2. WaitingIds' = WaitingIds
      BY <2>1 DEF WaitingIds
    <3> QED
      BY <2>1, <2>2, <3>1, <3>2 DEF SlotsMatchRows, Downloading, NoId
  <2>6. Increasing(waiting')
    BY <2>1
  <2> QED
    BY <2>3, <2>4, <2>5, <2>6
<1>3. CASE AdmitQueued(job)
  <2>1. /\ Push(job, "Queued") /\ "Queued" \in Live
        /\ download' = download /\ finalize' = finalize
        /\ waiting' = Append(waiting, nextId + 1)
    BY <1>3 DEF AdmitQueued, Live
  <2>2. /\ nextId' = nextId + 1 /\ nextId' \in 1 .. MaxId
        /\ nextId' \notin DOMAIN entry
        /\ DOMAIN entry' = DOMAIN entry \cup {nextId'}
        /\ DOMAIN entry' \subseteq 1 .. nextId'
        /\ \A o \in DOMAIN entry' : entry'[o] \in Entry
        /\ entry'[nextId'] = [job |-> job, status |-> "Queued"]
        /\ \A o \in DOMAIN entry : entry'[o] = entry[o]
    BY <2>1, PushProperties
  <2>3. /\ waiting' \in Seq(Ids)
        /\ Increasing(waiting')
        /\ WaitingIds' = WaitingIds \cup {nextId'}
    <3>1. /\ Ids \subseteq Int /\ nextId + 1 \in Ids
          /\ waiting \in Seq(Ids) /\ Increasing(waiting)
      BY <2>2 DEF Ids, QTypeOK
    <3>2. \A x \in Range(waiting) : x < nextId + 1
      <4> SUFFICES ASSUME NEW x \in Range(waiting) PROVE x < nextId + 1
        OBVIOUS
      <4>1. x \in WaitingIds /\ x # NoId
        <5>1. x \in Ids /\ x \in WaitingIds
          BY <3>1, RangeInSet, Zenon DEF WaitingIds
        <5> QED
          BY <5>1 DEF Ids, NoId
      <4>2. x \in 1 .. nextId
        BY <4>1 DEF SlotsMatchRows, QTypeOK
      <4> QED
        BY <4>2 DEF QTypeOK
    <3> DEFINE new == nextId + 1
    <3>3. new \in Ids /\ \A x \in Range(waiting) : x < new
      BY <3>1, <3>2
    <3> HIDE DEF new
    <3>4. /\ Append(waiting, new) \in Seq(Ids)
          /\ Increasing(Append(waiting, new))
          /\ \A x : x \in Range(Append(waiting, new)) <=> x \in Range(waiting) \/ x = new
      BY <3>1, <3>3, AppendIncreasing
    <3> QED
      BY <2>1, <2>2, <3>4 DEF WaitingIds, new
  <2>4. QTypeOK'
    BY <2>1, <2>2, <2>3 DEF QTypeOK
  <2>5. OneAtATime'
    BY <2>1 DEF OneAtATime
  <2>6. SlotsMatchRows'
    <3>1. nextId' # download /\ nextId' # finalize /\ nextId' \notin WaitingIds
      BY <2>2 DEF SlotsMatchRows, NoId
    <3> QED
      BY <2>1, <2>2, <2>3, <3>1 DEF SlotsMatchRows, Downloading, NoId
  <2> QED
    BY <2>3, <2>4, <2>5, <2>6
<1> QED
  BY <1>1, <1>2, <1>3

\* The FIFO's ids are rows, none of them a slot owner.
LEMMA WaitingApart ==
    ASSUME QInv
    PROVE  /\ WaitingIds \subseteq DOMAIN entry \cap Ids
           /\ \A id \in WaitingIds :
                 /\ entry[id].job \in Jobs /\ entry[id].status = "Queued"
                 /\ id # download /\ id # finalize /\ id # NoId
<1>1. WaitingIds \subseteq Ids
  BY RangeInSet, Zenon DEF QInv, QTypeOK, WaitingIds
<1>2. NoId \notin WaitingIds
  BY <1>1 DEF Ids, NoId
<1>3. WaitingIds \subseteq DOMAIN entry
  BY <1>2 DEF QInv, SlotsMatchRows
<1> QED
  BY <1>1, <1>2, <1>3 DEF QInv, SlotsMatchRows, Downloading

\* A row that is no install changes its status.
LEMMA RowKeeps == QInv /\ QRow => QInv'
<1> SUFFICES ASSUME QInv, QRow PROVE QInv'
  OBVIOUS
<1>1. ASSUME NEW job \in {ExternalJob, MoveJob}, NEW status \in Live, Push(job, status),
             UNCHANGED <<download, finalize, waiting>>
      PROVE  QInv'
  <2>1. job \notin Jobs /\ job \in Jobs \cup {ExternalJob, MoveJob}
    BY OtherJobs
  <2>2. /\ nextId' = nextId + 1 /\ nextId' \in 1 .. MaxId
        /\ nextId' \notin DOMAIN entry
        /\ DOMAIN entry' = DOMAIN entry \cup {nextId'}
        /\ DOMAIN entry' \subseteq 1 .. nextId'
        /\ \A o \in DOMAIN entry' : entry'[o] \in Entry
        /\ entry'[nextId'] = [job |-> job, status |-> status]
        /\ \A o \in DOMAIN entry : entry'[o] = entry[o]
    BY <1>1, <2>1, PushProperties DEF QInv
  <2>3. QTypeOK'
    BY <1>1, <2>2 DEF QInv, QTypeOK
  <2>4. OneAtATime' /\ Increasing(waiting')
    BY <1>1 DEF QInv, OneAtATime
  <2>5. SlotsMatchRows'
    <3>1. nextId' \notin {download, finalize} \cup WaitingIds
      BY <2>2 DEF QInv, SlotsMatchRows, NoId
    <3>2. WaitingIds' = WaitingIds
      BY <1>1 DEF WaitingIds
    <3> QED
      BY <1>1, <2>1, <2>2, <3>1, <3>2 DEF QInv, SlotsMatchRows, Downloading
  <2> QED
    BY <2>3, <2>4, <2>5 DEF QInv
<1>2. ASSUME NEW id \in DOMAIN entry, entry[id].job \notin Jobs,
             DOMAIN entry' \subseteq DOMAIN entry,
             \A o \in DOMAIN entry' :
                /\ entry'[o] \in Entry
                /\ entry'[o].job = entry[o].job
                /\ o # id => entry'[o].status = entry[o].status,
             \A o \in DOMAIN entry \ DOMAIN entry' : o # id => IsTerminal(o),
             UNCHANGED <<nextId, download, finalize, waiting>>
      PROVE  QInv'
  <2>1. QTypeOK'
    BY <1>2 DEF QInv, QTypeOK
  <2>2. OneAtATime' /\ Increasing(waiting')
    BY <1>2 DEF QInv, OneAtATime
  <2>3. ASSUME NEW o \in DOMAIN entry \ DOMAIN entry'
        PROVE  o \notin {download, finalize} \cup WaitingIds
    <3>1. CASE o = id
      BY <1>2, <3>1 DEF QInv, SlotsMatchRows
    <3>2. CASE o # id
      BY <1>2, <2>3, <3>2 DEF QInv, SlotsMatchRows, IsTerminal, Terminal, Downloading
    <3> QED
      BY <3>1, <3>2
  <2>4. WaitingIds' = WaitingIds
    BY <1>2 DEF WaitingIds
  <2>5. SlotsMatchRows'
    BY <1>2, <2>3, <2>4 DEF QInv, SlotsMatchRows, Downloading
  <2> QED
    BY <2>1, <2>2, <2>5 DEF QInv
<1>3. ASSUME NEW id \in DOMAIN entry, entry[id].job \notin Jobs,
             NEW status \in Live \cup Terminal,
             \/ entry' = Prune(SetStatus(id, status)) /\ status \in Terminal
             \/ entry' = SetStatus(id, status),
             UNCHANGED <<nextId, download, finalize, waiting>>
      PROVE  QInv'
  <2>1. CASE entry' = Prune(SetStatus(id, status)) /\ status \in Terminal
    <3>1. /\ DOMAIN entry' \subseteq DOMAIN entry
          /\ \A o \in DOMAIN entry' :
                /\ entry'[o] \in Entry
                /\ entry'[o].job = entry[o].job
                /\ entry'[o].status = IF o = id THEN status ELSE entry[o].status
          /\ \A o \in DOMAIN entry \ DOMAIN entry' :
                (IF o = id THEN status ELSE entry[o].status) \in Terminal
      BY <2>1, StatusThenPrune DEF QInv
    <3> QED
      BY <1>2, <1>3, <3>1 DEF IsTerminal
  <2>2. CASE entry' = SetStatus(id, status)
    <3>1. /\ DOMAIN entry' = DOMAIN entry
          /\ \A o \in DOMAIN entry' :
                /\ entry'[o] \in Entry
                /\ entry'[o].job = entry[o].job
                /\ entry'[o].status = IF o = id THEN status ELSE entry[o].status
      BY <2>2, StatusOnly DEF QInv
    <3> QED
      BY <1>2, <1>3, <3>1
  <2> QED
    BY <1>3, <2>1, <2>2
<1>4. CASE UNCHANGED queueVars
  BY <1>4 DEF queueVars, QInv, QTypeOK, OneAtATime, SlotsMatchRows, WaitingIds,
              Increasing, Downloading
<1>5. CASE AdmitExternal
  BY <1>1, <1>5 DEF AdmitExternal, Live
<1>6. CASE AdmitLibraryMove
  BY <1>1, <1>6 DEF AdmitLibraryMove, Live
<1>7. ASSUME NEW id \in Ids, NEW status \in Terminal, EndLibraryMove(id, status)
      PROVE  QInv'
  <2>1. CASE id \in DOMAIN entry /\ entry[id].job = MoveJob
    BY <1>3, <1>7, <2>1, OtherJobs DEF EndLibraryMove
  <2>2. CASE ~(id \in DOMAIN entry /\ entry[id].job = MoveJob)
    BY <1>4, <1>7, <2>2 DEF EndLibraryMove, queueVars
  <2> QED
    BY <2>1, <2>2
<1>8. ASSUME NEW id \in Ids, NEW status \in {"Completed", "Failed"},
             FinishExternal(id, status)
      PROVE  QInv'
  <2>1. CASE id \in DOMAIN entry /\ entry[id].job = ExternalJob
    BY <1>3, <1>8, <2>1, OtherJobs DEF FinishExternal, Terminal
  <2>2. CASE ~(id \in DOMAIN entry /\ entry[id].job = ExternalJob)
    BY <1>4, <1>8, <2>2 DEF FinishExternal, queueVars
  <2> QED
    BY <2>1, <2>2
<1>9. ASSUME NEW id \in Ids, NEW status \in {"Downloading", "Installing"},
             SetLibraryMoveCopying(id, status)
      PROVE  QInv'
  <2>1. CASE id \in DOMAIN entry /\ entry[id].job = MoveJob /\ IsLive(id)
    BY <1>3, <1>9, <2>1, OtherJobs DEF SetLibraryMoveCopying, Live
  <2>2. CASE ~(id \in DOMAIN entry /\ entry[id].job = MoveJob /\ IsLive(id))
    BY <1>4, <1>9, <2>2 DEF SetLibraryMoveCopying, queueVars
  <2> QED
    BY <2>1, <2>2
<1> QED
  BY <1>5, <1>6, <1>7, <1>8, <1>9 DEF QRow

\* A waiting row leaves the FIFO and ends.
LEMMA WaitingRowEnds ==
    ASSUME QInv, NEW id \in WaitingIds, NEW status \in Terminal,
           waiting' \in Seq(Ids), Increasing(waiting'),
           WaitingIds' = WaitingIds \ {id},
           entry' = Prune(SetStatus(id, status)),
           UNCHANGED <<nextId, download, finalize>>
    PROVE  QInv'
<1>1. id \in DOMAIN entry /\ id # download /\ id # finalize /\ entry[id].job \in Jobs
  BY WaitingApart
<1>2. /\ DOMAIN entry' \subseteq DOMAIN entry
      /\ \A o \in DOMAIN entry' :
            /\ entry'[o] \in Entry
            /\ entry'[o].job = entry[o].job
            /\ entry'[o].status = IF o = id THEN status ELSE entry[o].status
      /\ \A o \in DOMAIN entry \ DOMAIN entry' :
            (IF o = id THEN status ELSE entry[o].status) \in Terminal
  BY <1>1, StatusThenPrune DEF QInv
<1>3. QTypeOK' /\ OneAtATime'
  BY <1>2 DEF QInv, QTypeOK, OneAtATime
<1>4. \A o \in WaitingIds' : o \in DOMAIN entry'
  BY <1>2, WaitingApart DEF Terminal
<1>5. \A o \in {download, finalize} \ {NoId} : o \in DOMAIN entry'
  <2> SUFFICES ASSUME NEW o \in {download, finalize} \ {NoId} PROVE o \in DOMAIN entry'
    OBVIOUS
  <2>1. o \in DOMAIN entry /\ o # id /\ entry[o].status \notin Terminal
    BY <1>1 DEF QInv, SlotsMatchRows, Downloading, Terminal
  <2> QED
    BY <1>2, <2>1
<1>6. ASSUME NEW o \in DOMAIN entry'
      PROVE  (IF entry[o].job \in Jobs
              THEN /\ Downloading(o) <=> download = o
                   /\ entry[o].status = "Installing" <=> finalize = o
                   /\ entry[o].status = "Queued" <=> o \in WaitingIds
              ELSE o \notin {download, finalize} \cup WaitingIds)'
  <2>1. CASE o = id
    BY <1>1, <1>2, <2>1 DEF Downloading, Terminal
  <2>2. CASE o # id
    BY <1>2, <2>2 DEF QInv, SlotsMatchRows, Downloading
  <2> QED
    BY <2>1, <2>2
<1>7. SlotsMatchRows'
  BY <1>4, <1>5, <1>6 DEF SlotsMatchRows
<1> QED
  BY <1>3, <1>7 DEF QInv

\* A slot is freed, handed over or filled from the front of the FIFO.
LEMMA SlotKeeps == QInv /\ QSlot => QInv'
<1> SUFFICES ASSUME QInv, QSlot PROVE QInv'
  OBVIOUS
<1> USE DEF QInv
<1>1. ASSUME NEW id \in Ids, NEW result \in {"ok", "cancelled", "failed"},
             NEW skip \in BOOLEAN, DownloadFinished(id, result, skip)
      PROVE  QInv'
  <2>1. CASE download # id
    BY <1>1, <2>1 DEF DownloadFinished, queueVars, QTypeOK, OneAtATime,
                      SlotsMatchRows, WaitingIds, Increasing, Downloading
  <2>2. CASE download = id
    <3> DEFINE status == CASE result = "ok" /\ skip -> "Completed"
                           [] result = "ok"         -> "Installing"
                           [] result = "cancelled"  -> "Cancelled"
                           [] OTHER                 -> "Failed"
    <3>1. status \in {"Completed", "Installing", "Cancelled", "Failed"}
      OBVIOUS
    <3>2. /\ download' = NoId
          /\ entry' = Prune(SetStatus(id, status))
          /\ finalize' = IF status = "Installing" /\ id \in DOMAIN entry
                         THEN id ELSE finalize
          /\ nextId' = nextId /\ waiting' = waiting
      BY <1>1, <2>2 DEF DownloadFinished
    <3> HIDE DEF status
    <3>3. /\ id # NoId /\ id \in DOMAIN entry /\ finalize = NoId
          /\ id \notin WaitingIds /\ entry[id].job \in Jobs
      <4>1. id # NoId
        BY DEF Ids, NoId
      <4>2. id \in DOMAIN entry /\ finalize = NoId
        BY <2>2, <4>1 DEF SlotsMatchRows, OneAtATime
      <4> QED
        BY <2>2, <4>1, <4>2, WaitingApart DEF SlotsMatchRows
    <3>4. /\ DOMAIN entry' \subseteq DOMAIN entry
          /\ \A o \in DOMAIN entry' :
                /\ entry'[o] \in Entry
                /\ entry'[o].job = entry[o].job
                /\ entry'[o].status = IF o = id THEN status ELSE entry[o].status
          /\ \A o \in DOMAIN entry \ DOMAIN entry' :
                (IF o = id THEN status ELSE entry[o].status) \in Terminal
      BY <3>1, <3>2, <3>3, StatusThenPrune DEF Live, Terminal
    <3>5. QTypeOK'
      BY <3>2, <3>4 DEF QTypeOK
    <3>6. OneAtATime' /\ Increasing(waiting')
      BY <3>2 DEF OneAtATime
    <3>7. WaitingIds' = WaitingIds
      BY <3>2 DEF WaitingIds
    <3>8. \A o \in WaitingIds : o \in DOMAIN entry'
      BY <3>3, <3>4, WaitingApart DEF Terminal
    <3>9. status = "Installing" => id \in DOMAIN entry'
      BY <3>3, <3>4 DEF Terminal
    <3>10. SlotsMatchRows'
      <4>1. (({download, finalize} \cup WaitingIds) \ {NoId} \subseteq DOMAIN entry)'
        BY <3>2, <3>3, <3>7, <3>8, <3>9
      <4>2. ASSUME NEW o \in DOMAIN entry'
            PROVE  (IF entry[o].job \in Jobs
                    THEN /\ Downloading(o) <=> download = o
                         /\ entry[o].status = "Installing" <=> finalize = o
                         /\ entry[o].status = "Queued" <=> o \in WaitingIds
                    ELSE o \notin {download, finalize} \cup WaitingIds)'
        <5>0. o \in DOMAIN entry /\ o # NoId
          BY <3>4 DEF QTypeOK, NoId
        <5>1. CASE o = id
          BY <2>2, <3>1, <3>2, <3>3, <3>4, <3>7, <5>0, <5>1 DEF Downloading
        <5>2. CASE o # id
          BY <2>2, <3>2, <3>3, <3>4, <3>7, <5>0, <5>2 DEF SlotsMatchRows, Downloading
        <5> QED
          BY <5>1, <5>2
      <4> QED
        BY <4>1, <4>2 DEF SlotsMatchRows
    <3> QED
      BY <3>5, <3>6, <3>10
  <2> QED
    BY <2>1, <2>2
<1>2. ASSUME NEW id \in Ids, NEW result \in {"ok", "failed"},
             FinalizeFinished(id, result)
      PROVE  QInv'
  <2>1. CASE finalize # id
    BY <1>2, <2>1 DEF FinalizeFinished, queueVars, QTypeOK, OneAtATime,
                      SlotsMatchRows, WaitingIds, Increasing, Downloading
  <2>2. CASE finalize = id
    <3>1. PICK status \in {"Completed", "Failed"} :
             /\ finalize' = NoId
             /\ entry' = Prune(SetStatus(id, status))
             /\ nextId' = nextId /\ download' = download /\ waiting' = waiting
      BY <1>2, <2>2 DEF FinalizeFinished
    <3>2. /\ id # NoId /\ id \in DOMAIN entry /\ download = NoId
          /\ id \notin WaitingIds /\ entry[id].job \in Jobs
      <4>1. id # NoId
        BY DEF Ids, NoId
      <4>2. id \in DOMAIN entry /\ download = NoId
        BY <2>2, <4>1 DEF SlotsMatchRows, OneAtATime
      <4> QED
        BY <2>2, <4>1, <4>2, WaitingApart DEF SlotsMatchRows
    <3>3. /\ DOMAIN entry' \subseteq DOMAIN entry
          /\ \A o \in DOMAIN entry' :
                /\ entry'[o] \in Entry
                /\ entry'[o].job = entry[o].job
                /\ entry'[o].status = IF o = id THEN status ELSE entry[o].status
          /\ \A o \in DOMAIN entry \ DOMAIN entry' :
                (IF o = id THEN status ELSE entry[o].status) \in Terminal
      BY <3>1, <3>2, StatusThenPrune DEF Live, Terminal
    <3>4. QTypeOK'
      BY <3>1, <3>3 DEF QTypeOK
    <3>5. OneAtATime' /\ Increasing(waiting')
      BY <3>1 DEF OneAtATime
    <3>6. WaitingIds' = WaitingIds
      BY <3>1 DEF WaitingIds
    <3>7. \A o \in WaitingIds : o \in DOMAIN entry'
      BY <3>2, <3>3, WaitingApart DEF Terminal
    <3>8. ASSUME NEW o \in DOMAIN entry'
          PROVE  (IF entry[o].job \in Jobs
                  THEN /\ Downloading(o) <=> download = o
                       /\ entry[o].status = "Installing" <=> finalize = o
                       /\ entry[o].status = "Queued" <=> o \in WaitingIds
                  ELSE o \notin {download, finalize} \cup WaitingIds)'
      <4>0. o \in DOMAIN entry /\ o # NoId
        BY <3>3 DEF QTypeOK, NoId
      <4>1. CASE o = id
        BY <2>2, <3>1, <3>2, <3>3, <3>6, <4>0, <4>1 DEF Downloading
      <4>2. CASE o # id
        BY <2>2, <3>1, <3>2, <3>3, <3>6, <4>0, <4>2 DEF SlotsMatchRows, Downloading
      <4> QED
        BY <4>1, <4>2
    <3>9. SlotsMatchRows'
      BY <3>1, <3>2, <3>6, <3>7, <3>8 DEF SlotsMatchRows
    <3> QED
      BY <3>4, <3>5, <3>9
  <2> QED
    BY <2>1, <2>2
<1>3. ASSUME Ready PROVE /\ Head(waiting) \in WaitingIds
                         /\ waiting # << >>
                         /\ download = NoId /\ finalize = NoId
                         /\ Tail(waiting) \in Seq(Ids)
                         /\ Increasing(Tail(waiting))
                         /\ Range(Tail(waiting)) = WaitingIds \ {Head(waiting)}
  <2>1. Ids \subseteq Int /\ waiting \in Seq(Ids) /\ waiting # << >>
    BY <1>3 DEF Ids, QTypeOK, Ready
  <2> QED
    BY <1>3, <2>1, TailIncreasing DEF Ready, SlotsFree, WaitingIds
<1>4. CASE NextReady
  <2> DEFINE id == Head(waiting)
  <2>1. /\ download = NoId /\ finalize = NoId /\ id \in WaitingIds
        /\ waiting' = Tail(waiting)
        /\ entry' = SetStatus(id, "Downloading")
        /\ download' = id /\ finalize' = finalize /\ nextId' = nextId
    BY <1>3, <1>4 DEF NextReady
  <2>2. waiting' \in Seq(Ids) /\ Increasing(waiting') /\ WaitingIds' = WaitingIds \ {id}
    BY <1>3, <1>4 DEF NextReady, WaitingIds
  <2> HIDE DEF id
  <2>3. id \in DOMAIN entry /\ id \in Ids /\ id # NoId /\ entry[id].job \in Jobs
    BY <2>1, WaitingApart
  <2>4. /\ DOMAIN entry' = DOMAIN entry
        /\ \A o \in DOMAIN entry' :
              /\ entry'[o] \in Entry
              /\ entry'[o].job = entry[o].job
              /\ entry'[o].status = IF o = id THEN "Downloading" ELSE entry[o].status
    BY <2>1, <2>3, StatusOnly DEF Live
  <2>5. QTypeOK'
    BY <2>1, <2>2, <2>3, <2>4 DEF QTypeOK
  <2>6. OneAtATime'
    BY <2>1 DEF OneAtATime
  <2>7. ASSUME NEW o \in DOMAIN entry'
        PROVE  (IF entry[o].job \in Jobs
                THEN /\ Downloading(o) <=> download = o
                     /\ entry[o].status = "Installing" <=> finalize = o
                     /\ entry[o].status = "Queued" <=> o \in WaitingIds
                ELSE o \notin {download, finalize} \cup WaitingIds)'
    <3>0. o \in DOMAIN entry /\ o # NoId
      BY <2>4 DEF QTypeOK, NoId
    <3>1. CASE o = id
      BY <2>1, <2>2, <2>3, <2>4, <3>0, <3>1 DEF Downloading
    <3>2. CASE o # id
      BY <2>1, <2>2, <2>4, <3>0, <3>2 DEF SlotsMatchRows, Downloading
    <3> QED
      BY <3>1, <3>2
  <2>8. SlotsMatchRows'
    BY <2>1, <2>2, <2>3, <2>4, <2>7 DEF SlotsMatchRows
  <2> QED
    BY <2>2, <2>5, <2>6, <2>8
<1>5. CASE NextReadyLost
  <2> DEFINE id == Head(waiting)
  <2>1. /\ download = NoId /\ finalize = NoId /\ id \in WaitingIds
        /\ waiting' = Tail(waiting)
        /\ entry' = Prune(SetStatus(id, "Failed"))
        /\ download' = download /\ finalize' = finalize /\ nextId' = nextId
    BY <1>3, <1>5 DEF NextReadyLost
  <2>2. waiting' \in Seq(Ids) /\ Increasing(waiting') /\ WaitingIds' = WaitingIds \ {id}
    BY <1>3, <1>5 DEF NextReadyLost, WaitingIds
  <2> HIDE DEF id
  <2> QED
    BY <2>1, <2>2, WaitingRowEnds DEF Terminal
<1> QED
  BY <1>1, <1>2, <1>4, <1>5 DEF QSlot

\* Any id taken out of the FIFO, waiting or not.
LEMMA Unqueue ==
    ASSUME QInv, NEW id \in Ids
    PROVE  /\ RemoveFirst(waiting, id) \in Seq(Ids)
           /\ Increasing(RemoveFirst(waiting, id))
           /\ Range(RemoveFirst(waiting, id)) = WaitingIds \ {id}
<1>1. Ids \subseteq Int /\ waiting \in Seq(Ids) /\ Increasing(waiting)
  BY DEF QInv, QTypeOK, Ids
<1> QED
  <2> DEFINE t == RemoveFirst(waiting, id)
  <2>1. /\ t \in Seq(Ids) /\ Increasing(t)
        /\ Range(t) = Range(waiting) \ {id}
    BY <1>1, RemoveFirstIncreasing, ZenonT(40)
  <2> QED
    BY <2>1, ZenonT(40) DEF WaitingIds

\* Cancel and dismiss, with any id.
LEMMA UserKeeps == QInv /\ QUser => QInv'
<1> SUFFICES ASSUME QInv, NEW id \in Ids,
                    CancelActive(id) \/ CancelQueued(id) \/ Dismiss(id)
             PROVE  QInv'
  BY DEF QUser
<1>0. id # NoId
  BY DEF Ids, NoId
<1>1. CASE CancelActive(id)
  <2>1. /\ download = id /\ entry' = SetStatus(id, "Cancelling")
        /\ nextId' = nextId /\ download' = download /\ finalize' = finalize
        /\ waiting' = waiting /\ WaitingIds' = WaitingIds
    BY <1>1 DEF CancelActive, WaitingIds
  <2>2. id \in DOMAIN entry /\ finalize # id /\ entry[id].job \in Jobs
    BY <1>0, <2>1 DEF QInv, SlotsMatchRows, OneAtATime
  <2>3. /\ DOMAIN entry' = DOMAIN entry
        /\ \A o \in DOMAIN entry' :
              /\ entry'[o] \in Entry
              /\ entry'[o].job = entry[o].job
              /\ entry'[o].status = IF o = id THEN "Cancelling" ELSE entry[o].status
    BY <2>1, <2>2, StatusOnly DEF QInv, Live
  <2>4. QTypeOK' /\ OneAtATime' /\ Increasing(waiting')
    BY <2>1, <2>3 DEF QInv, QTypeOK, OneAtATime
  <2>5. SlotsMatchRows'
    BY <2>1, <2>2, <2>3, WaitingApart DEF QInv, SlotsMatchRows, Downloading
  <2> QED
    BY <2>4, <2>5 DEF QInv
<1>2. CASE CancelQueued(id)
  BY <1>2, Unqueue, WaitingRowEnds DEF CancelQueued, Terminal, WaitingIds
<1>3. CASE Dismiss(id)
  <2>1. /\ id \in DOMAIN entry /\ id # download /\ id # finalize
        /\ waiting' \in Seq(Ids) /\ Increasing(waiting')
        /\ WaitingIds' = WaitingIds \ {id}
        /\ nextId' = nextId /\ download' = download /\ finalize' = finalize
    BY <1>3, Unqueue DEF Dismiss, Dismissable, WaitingIds
  <2>2. /\ DOMAIN entry' = DOMAIN entry \ {id}
        /\ \A o \in DOMAIN entry' : entry'[o] = entry[o]
    BY <1>3 DEF Dismiss, Restrict
  <2>3. QTypeOK' /\ OneAtATime'
    BY <2>1, <2>2 DEF QInv, QTypeOK, OneAtATime
  <2>4. SlotsMatchRows'
    BY <2>1, <2>2 DEF QInv, SlotsMatchRows, Downloading
  <2> QED
    BY <2>1, <2>3, <2>4 DEF QInv
<1> QED
  BY <1>1, <1>2, <1>3

-----------------------------------------------------------------------------
(* The results.                                                            *)

LEMMA QStepKeeps == QInv /\ [QNext]_queueVars => QInv'
<1>1. QInv /\ UNCHANGED queueVars => QInv'
  BY DEF queueVars, QInv, QTypeOK, OneAtATime, SlotsMatchRows, WaitingIds,
         Increasing, Downloading
<1> QED
  BY <1>1, AdmitKeeps, RowKeeps, SlotKeeps, UserKeeps DEF QNext

\* The invariant holds in every state of the queue, whoever calls it and with
\* which ids.
THEOREM QueueInvariant == QSpec => []QInv
  BY QInitInv, QStepKeeps, PTL DEF QSpec

\* Every field of QueueState keeps its type.
THEOREM QueueTypes == QSpec => []QTypeOK
  BY QueueInvariant, PTL DEF QInv

\* Never two installs at a time (queue.rs:157, 503).
THEOREM AtMostOneInstall == QSpec => []OneAtATime
  BY QueueInvariant, PTL DEF QInv

\* Rows, slots and FIFO always agree (queue.rs:539-560, the comment on dismiss).
THEOREM SlotsAndRowsAgree == QSpec => []SlotsMatchRows
  BY QueueInvariant, PTL DEF QInv

\* The FIFO is in the order of admission (mod.rs:2772).
THEOREM FirstComeFirstServed == QSpec => []WaitingInOrder
<1>1. QInv => WaitingInOrder
  BY DEF QInv, Increasing, WaitingInOrder
<1> QED
  BY <1>1, QueueInvariant, PTL

-----------------------------------------------------------------------------
(* No duplicate work.  Admission compares with the slots and the FIFO, not *)
(* with the rows: QInv is what makes the two the same.                     *)

\* No install row becomes live.
NoNewWork ==
    \A id \in DOMAIN entry' :
        entry'[id].job \in Jobs /\ entry'[id].status \in Live =>
            id \in DOMAIN entry /\ entry[id].job = entry'[id].job /\ IsLive(id)

LEMMA NoNewWorkKeeps == NoDuplicateWork /\ NoNewWork => NoDuplicateWork'
<1> SUFFICES ASSUME NoDuplicateWork, NoNewWork,
                    NEW a \in DOMAIN entry', NEW b \in DOMAIN entry', a # b,
                    entry'[a].job \in Jobs, entry'[b].job \in Jobs,
                    entry'[a].status \in Live, entry'[b].status \in Live
             PROVE  entry'[a].job.key # entry'[b].job.key
  BY DEF NoDuplicateWork, IsLive
<1>1. /\ a \in DOMAIN entry /\ entry[a].job = entry'[a].job /\ IsLive(a)
      /\ b \in DOMAIN entry /\ entry[b].job = entry'[b].job /\ IsLive(b)
  BY DEF NoNewWork
<1> QED
  BY <1>1 DEF NoDuplicateWork

\* Whatever changes the status of a live row, or drops rows, adds no work.
LEMMA StatusAddsNoWork ==
    ASSUME QInv, NEW id, NEW status \in Live \cup Terminal,
           id \in DOMAIN entry => IsLive(id) \/ entry[id].job \notin Jobs
                                             \/ status \in Terminal,
           \/ entry' = Prune(SetStatus(id, status))
           \/ entry' = SetStatus(id, status)
    PROVE  NoNewWork
<1>0. \A s \in Live : s \notin Terminal
  BY DEF Live, Terminal
<1>1. CASE id \in DOMAIN entry
  <2>1. CASE entry' = Prune(SetStatus(id, status))
    <3>1. /\ DOMAIN entry' \subseteq DOMAIN entry
          /\ \A o \in DOMAIN entry' :
                /\ entry'[o].job = entry[o].job
                /\ entry'[o].status = IF o = id THEN status ELSE entry[o].status
      BY <1>1, <2>1, StatusThenPrune DEF QInv
    <3> QED
      BY <1>0, <1>1, <3>1 DEF NoNewWork, IsLive
  <2>2. CASE entry' = SetStatus(id, status)
    <3>1. /\ DOMAIN entry' = DOMAIN entry
          /\ \A o \in DOMAIN entry' :
                /\ entry'[o].job = entry[o].job
                /\ entry'[o].status = IF o = id THEN status ELSE entry[o].status
      BY <1>1, <2>2, StatusOnly DEF QInv
    <3> QED
      BY <1>0, <1>1, <3>1 DEF NoNewWork, IsLive
  <2> QED
    BY <2>1, <2>2
<1>2. CASE id \notin DOMAIN entry
  <2>1. SetStatus(id, status) = entry
    BY <1>2 DEF SetStatus
  <2> QED
    BY <2>1, PruneProperties DEF NoNewWork, IsLive
<1> QED
  BY <1>1, <1>2

\* A slot owner is a live row.
LEMMA OwnersAreLive ==
    QInv => \A id \in DOMAIN entry : id \in {download, finalize} => IsLive(id)
  BY DEF QInv, SlotsMatchRows, Downloading, IsLive, Live

LEMMA RowAddsNoWork == QInv /\ QRow => NoNewWork
<1> SUFFICES ASSUME QInv, QRow PROVE NoNewWork
  OBVIOUS
<1>0. entry' = entry => NoNewWork
  BY DEF NoNewWork, IsLive
<1>1. ASSUME NEW job \in {ExternalJob, MoveJob}, NEW status \in Live, Push(job, status)
      PROVE  NoNewWork
  <2>1. job \notin Jobs /\ job \in Jobs \cup {ExternalJob, MoveJob}
    BY OtherJobs
  <2>2. /\ DOMAIN entry' = DOMAIN entry \cup {nextId'}
        /\ entry'[nextId'] = [job |-> job, status |-> status]
        /\ \A o \in DOMAIN entry : entry'[o] = entry[o]
    BY <1>1, <2>1, PushProperties DEF QInv
  <2> QED
    BY <2>1, <2>2 DEF NoNewWork, IsLive
<1>2. CASE AdmitExternal \/ AdmitLibraryMove
  BY <1>1, <1>2 DEF AdmitExternal, AdmitLibraryMove, Live
<1>3. ASSUME NEW id \in Ids, NEW status \in Terminal, EndLibraryMove(id, status)
      PROVE  NoNewWork
  BY <1>0, <1>3, StatusAddsNoWork DEF EndLibraryMove
<1>4. ASSUME NEW id \in Ids, NEW status \in {"Completed", "Failed"},
             FinishExternal(id, status)
      PROVE  NoNewWork
  BY <1>0, <1>4, StatusAddsNoWork DEF FinishExternal, Terminal
<1>5. ASSUME NEW id \in Ids, NEW status \in {"Downloading", "Installing"},
             SetLibraryMoveCopying(id, status)
      PROVE  NoNewWork
  BY <1>0, <1>5, StatusAddsNoWork DEF SetLibraryMoveCopying, Live
<1> QED
  BY <1>2, <1>3, <1>4, <1>5 DEF QRow

LEMMA SlotAddsNoWork == QInv /\ QSlot => NoNewWork
<1> SUFFICES ASSUME QInv, QSlot PROVE NoNewWork
  OBVIOUS
<1>0. entry' = entry => NoNewWork
  BY DEF NoNewWork, IsLive
<1>1. ASSUME NEW id \in Ids, NEW result \in {"ok", "cancelled", "failed"},
             NEW skip \in BOOLEAN, DownloadFinished(id, result, skip)
      PROVE  NoNewWork
  <2>1. CASE download # id
    BY <1>0, <1>1, <2>1 DEF DownloadFinished, queueVars
  <2>2. CASE download = id
    <3>1. PICK status \in {"Completed", "Installing", "Cancelled", "Failed"} :
             entry' = Prune(SetStatus(id, status))
      BY <1>1, <2>2 DEF DownloadFinished
    <3> QED
      BY <2>2, <3>1, OwnersAreLive, StatusAddsNoWork DEF Live, Terminal
  <2> QED
    BY <2>1, <2>2
<1>2. ASSUME NEW id \in Ids, NEW result \in {"ok", "failed"},
             FinalizeFinished(id, result)
      PROVE  NoNewWork
  <2>1. CASE finalize # id
    BY <1>0, <1>2, <2>1 DEF FinalizeFinished, queueVars
  <2>2. CASE finalize = id
    <3>1. PICK status \in {"Completed", "Failed"} :
             entry' = Prune(SetStatus(id, status))
      BY <1>2, <2>2 DEF FinalizeFinished
    <3> QED
      BY <3>1, StatusAddsNoWork DEF Terminal
  <2> QED
    BY <2>1, <2>2
<1>3. CASE NextReady \/ NextReadyLost
  <2>1. waiting \in Seq(Ids) /\ waiting # << >> /\ Ids \subseteq Int /\ Increasing(waiting)
    BY <1>3 DEF NextReady, NextReadyLost, Ready, QInv, QTypeOK, Ids
  <2>2. Head(waiting) \in WaitingIds
    BY <2>1, TailIncreasing DEF WaitingIds
  <2>3. IsLive(Head(waiting))
    BY <2>2, WaitingApart DEF IsLive, Live
  <2> QED
    BY <1>3, <2>3, StatusAddsNoWork DEF NextReady, NextReadyLost, Live, Terminal
<1> QED
  BY <1>1, <1>2, <1>3 DEF QSlot

LEMMA UserAddsNoWork == QInv /\ QUser => NoNewWork
<1> SUFFICES ASSUME QInv, NEW id \in Ids,
                    CancelActive(id) \/ CancelQueued(id) \/ Dismiss(id)
             PROVE  NoNewWork
  BY DEF QUser
<1>1. CASE CancelActive(id)
  BY <1>1, OwnersAreLive, StatusAddsNoWork DEF CancelActive, Live
<1>2. CASE CancelQueued(id)
  BY <1>2, StatusAddsNoWork DEF CancelQueued, Terminal
<1>3. CASE Dismiss(id)
  BY <1>3 DEF Dismiss, Restrict, NoNewWork, IsLive
<1> QED
  BY <1>1, <1>2, <1>3

LEMMA AdmitAddsNoDuplicate == QInv /\ NoDuplicateWork /\ QAdmit => NoDuplicateWork'
<1> SUFFICES ASSUME QInv, NoDuplicateWork, NEW job \in Jobs,
                    AdmitDuplicate(job) \/ AdmitStart(job) \/ AdmitQueued(job)
             PROVE  NoDuplicateWork'
  BY DEF QAdmit
<1>1. CASE AdmitDuplicate(job)
  BY <1>1 DEF AdmitDuplicate, queueVars, NoDuplicateWork, IsLive
<1>2. CASE AdmitStart(job) \/ AdmitQueued(job)
  <2>1. PICK status \in Live : Push(job, status)
    BY <1>2 DEF AdmitStart, AdmitQueued, Live
  <2>2. /\ nextId' \notin DOMAIN entry
        /\ DOMAIN entry' = DOMAIN entry \cup {nextId'}
        /\ entry'[nextId'] = [job |-> job, status |-> status]
        /\ \A o \in DOMAIN entry : entry'[o] = entry[o]
    BY <2>1, PushProperties DEF QInv
  <2>3. ASSUME NEW o \in DOMAIN entry, entry[o].job \in Jobs, IsLive(o)
        PROVE  entry[o].job.key # job.key
    <3>1. o \in ({download, finalize} \cup WaitingIds) \cap DOMAIN entry
      BY <2>3 DEF QInv, SlotsMatchRows, Downloading, IsLive, Live
    <3> QED
      BY <1>2, <3>1 DEF AdmitStart, AdmitQueued, HasPending
  <2> QED
    BY <2>2, <2>3 DEF NoDuplicateWork, IsLive
<1> QED
  BY <1>1, <1>2

\* Two live installs never share a key: the dedupe of `admit` (queue.rs:182)
\* is enough.
THEOREM NoDuplicates == QSpec => []NoDuplicateWork
<1>1. QInit => NoDuplicateWork
  <2> SUFFICES ASSUME QInit PROVE NoDuplicateWork
    OBVIOUS
  <2>1. DOMAIN entry = {}
    BY DEF QInit
  <2> QED
    BY <2>1 DEF NoDuplicateWork
<1>2. QInv /\ NoDuplicateWork /\ [QNext]_queueVars => NoDuplicateWork'
  <2>1. UNCHANGED queueVars => NoNewWork
    BY DEF queueVars, NoNewWork, IsLive
  <2> QED
    BY <2>1, NoNewWorkKeeps, RowAddsNoWork, SlotAddsNoWork, UserAddsNoWork,
       AdmitAddsNoDuplicate DEF QNext
<1> QED
  BY <1>1, <1>2, QueueInvariant, PTL DEF QSpec

-----------------------------------------------------------------------------
(* Pruning counts the ended rows.  It drops those of the lowest ranks.      *)

\* How many of S are smaller: the place of an id among the ended rows.
Rank(S, id) == Cardinality({o \in S : o < id})

\* Ranks are 0 .. n - 1, in the order of the ids.
LEMMA RankOrder ==
    ASSUME NEW S, IsFiniteSet(S), S \subseteq Nat
    PROVE  /\ Cardinality(S) \in Nat
           /\ \A a \in S : Rank(S, a) \in 0 .. Cardinality(S) - 1
           /\ \A a, b \in S : a < b => Rank(S, a) < Rank(S, b)
<1>1. Cardinality(S) \in Nat
  BY FS_CardinalityType
<1>2. ASSUME NEW a \in S
      PROVE  /\ IsFiniteSet({o \in S : o < a})
             /\ Rank(S, a) \in 0 .. Cardinality(S) - 1
  <2>1. IsFiniteSet(S \ {a}) /\ Cardinality(S \ {a}) = Cardinality(S) - 1
    BY FS_RemoveElement
  <2>2. {o \in S : o < a} \in SUBSET (S \ {a})
    OBVIOUS
  <2>3. /\ IsFiniteSet({o \in S : o < a})
        /\ Cardinality({o \in S : o < a}) <= Cardinality(S \ {a})
    BY <2>1, <2>2, FS_Subset
  <2>4. Cardinality({o \in S : o < a}) \in Nat
    BY <2>3, FS_CardinalityType
  <2> QED
    BY <1>1, <2>1, <2>3, <2>4 DEF Rank
<1>3. ASSUME NEW a \in S, NEW b \in S, a < b
      PROVE  Rank(S, a) < Rank(S, b)
  <2> DEFINE below == {o \in S : o < a}
  <2>1. IsFiniteSet(below) /\ a \notin below /\ Cardinality(below) = Rank(S, a)
    BY <1>2 DEF Rank
  <2>2. below \cup {a} \in SUBSET {o \in S : o < b}
    <3>1. \A o \in S : o < a => o < b
      BY <1>3
    <3> QED
      BY <1>3, <3>1
  <2> HIDE DEF below
  <2>3. Cardinality(below \cup {a}) = Rank(S, a) + 1
    BY <2>1, FS_AddElement
  <2>4. Cardinality(below \cup {a}) <= Rank(S, b)
    BY <1>2, <2>2, FS_Subset DEF Rank
  <2>5. Rank(S, a) \in Nat /\ Rank(S, b) \in Nat
    <3>1. Rank(S, a) \in 0 .. Cardinality(S) - 1 /\ Rank(S, b) \in 0 .. Cardinality(S) - 1
      BY <1>2
    <3> QED
      BY <1>1, <3>1
  <2> QED
    BY <2>3, <2>4, <2>5
<1> QED
  BY <1>1, <1>2, <1>3

\* Ids with ranks in lo .. hi - 1 are at most hi - lo.
LEMMA RankCounts ==
    ASSUME NEW S, IsFiniteSet(S), S \subseteq Nat, NEW T \in SUBSET S,
           NEW lo \in Nat, NEW hi \in Nat, lo <= hi,
           \A a \in T : Rank(S, a) \in lo .. hi - 1
    PROVE  Cardinality(T) <= hi - lo
<1> SUFFICES ASSUME ~(Cardinality(T) <= hi - lo) PROVE FALSE
  OBVIOUS
<1>1. IsFiniteSet(T) /\ Cardinality(T) \in Nat
  BY FS_Subset, FS_CardinalityType
<1>2. IsFiniteSet(lo .. hi - 1) /\ Cardinality(lo .. hi - 1) = hi - lo
  <2>1. hi - 1 \in Int /\ lo \in Int
    OBVIOUS
  <2>2. /\ IsFiniteSet(lo .. hi - 1)
        /\ Cardinality(lo .. hi - 1) = IF lo > hi - 1 THEN 0 ELSE hi - 1 - lo + 1
    BY <2>1, FS_Interval
  <2> QED
    BY <2>2
<1>3. Cardinality(lo .. hi - 1) < Cardinality(T)
  BY <1>1, <1>2
<1> DEFINE f == [a \in T |-> Rank(S, a)]
<1>4. f \in [T -> lo .. hi - 1]
  OBVIOUS
<1> HIDE DEF f
<1>5. PICK a \in T, b \in T : a # b /\ f[a] = f[b]
  BY <1>1, <1>2, <1>3, <1>4, FS_PigeonHole
<1>6. Rank(S, a) = Rank(S, b)
  BY <1>5 DEF f
<1>7. a \in S /\ b \in S /\ (a < b \/ b < a)
  BY <1>5
<1>8. Rank(S, a) \in lo .. hi - 1 /\ Rank(S, b) \in lo .. hi - 1
  OBVIOUS
<1>9. Rank(S, a) < Rank(S, b) \/ Rank(S, b) < Rank(S, a)
  BY <1>7, RankOrder
<1> QED
  BY <1>6, <1>8, <1>9

Over(rows) == {id \in DOMAIN rows : rows[id].status \in Terminal}

\* Pruning leaves at most TerminalHistory ended rows, and exactly that many
\* when it drops one; what it drops is older than what it leaves.
LEMMA PruneCounts ==
    ASSUME NEW rows, IsFiniteSet(DOMAIN rows), DOMAIN rows \subseteq Nat
    PROVE  /\ Cardinality(Over(Prune(rows))) <= TerminalHistory
           /\ DOMAIN Prune(rows) # DOMAIN rows =>
                 Cardinality(Over(Prune(rows))) = TerminalHistory
           /\ \A id \in DOMAIN rows \ DOMAIN Prune(rows), k \in Over(Prune(rows)) :
                 id < k
<1> DEFINE ended == Over(rows)
           n == Cardinality(ended)
           gone == {id \in ended : Rank(ended, id) < n - TerminalHistory}
           kept == ended \ gone
<1>1. IsFiniteSet(ended) /\ ended \subseteq Nat /\ n \in Nat /\ TerminalHistory \in Nat
  <2>1. ended \in SUBSET DOMAIN rows
    BY DEF Over
  <2>2. IsFiniteSet(ended)
    BY <2>1, FS_Subset
  <2> QED
    BY <2>1, <2>2, FS_CardinalityType, BoundsAssumption
<1>2. /\ DOMAIN Prune(rows) = DOMAIN rows \ gone
      /\ \A id \in DOMAIN rows \ gone : Prune(rows)[id] = rows[id]
  BY DEF Prune, Restrict, Over, Rank
<1>3. Over(Prune(rows)) = kept /\ gone \subseteq DOMAIN rows
  BY <1>2 DEF Over
<1> HIDE DEF ended
<1>4. \A id \in ended : Rank(ended, id) \in 0 .. n - 1
  BY <1>1, RankOrder
<1>5. CASE n <= TerminalHistory
  <2>1. gone = {}
    <3> SUFFICES ASSUME NEW id \in gone PROVE FALSE
      OBVIOUS
    <3>1. Rank(ended, id) \in 0 .. n - 1 /\ Rank(ended, id) < n - TerminalHistory
      BY <1>4
    <3> HIDE DEF n, gone
    <3> QED
      BY <1>1, <1>5, <3>1
  <2> QED
    BY <1>1, <1>2, <1>3, <1>5, <2>1
<1>6. CASE n > TerminalHistory
  <2>1. Cardinality(kept) <= TerminalHistory
    <3>1. \A id \in kept : Rank(ended, id) \in n - TerminalHistory .. n - 1
      BY <1>1, <1>4
    <3>2. Cardinality(kept) <= n - (n - TerminalHistory)
      <4> DEFINE lo == n - TerminalHistory
      <4>1. lo \in Nat /\ lo <= n /\ kept \in SUBSET ended
        BY <1>1, <1>6
      <4>2. \A id \in kept : Rank(ended, id) \in lo .. n - 1
        BY <3>1
      <4> HIDE DEF lo, n, kept
      <4>3. Cardinality(kept) <= n - lo
        BY <1>1, <4>1, <4>2, RankCounts
      <4> QED
        BY <4>3 DEF lo
    <3> QED
      BY <1>1, <3>2
  <2>2. Cardinality(gone) <= n - TerminalHistory
    <3> DEFINE hi == n - TerminalHistory
    <3>1. hi \in Nat /\ 0 \in Nat /\ 0 <= hi /\ gone \in SUBSET ended
      BY <1>1, <1>6
    <3>2. \A id \in gone : Rank(ended, id) \in 0 .. hi - 1
      BY <1>1, <1>4
    <3> HIDE DEF hi, gone
    <3>3. Cardinality(gone) <= hi - 0
      BY <1>1, <3>1, <3>2, RankCounts
    <3> QED
      BY <1>1, <3>3 DEF hi
  <2>3. /\ Cardinality(kept) = n - Cardinality(gone)
        /\ Cardinality(kept) \in Nat /\ Cardinality(gone) \in Nat
    <3>1. ended \cap gone = gone /\ gone \in SUBSET ended /\ kept \in SUBSET ended
      OBVIOUS
    <3>2. IsFiniteSet(gone) /\ IsFiniteSet(kept)
      BY <1>1, <3>1, FS_Subset
    <3> HIDE DEF gone
    <3>3. Cardinality(kept) = Cardinality(ended) - Cardinality(ended \cap gone)
      BY <1>1, FS_Difference, ZenonT(40)
    <3> HIDE DEF kept
    <3>4. Cardinality(kept) \in Nat /\ Cardinality(gone) \in Nat
      BY <3>2, FS_CardinalityType
    <3> QED
      BY <3>1, <3>3, <3>4
  <2>4. \A id \in gone, k \in kept : id < k
    <3> SUFFICES ASSUME NEW id \in gone, NEW k \in kept, ~(id < k) PROVE FALSE
      OBVIOUS
    <3>1. Rank(ended, id) < n - TerminalHistory /\ ~(Rank(ended, k) < n - TerminalHistory)
      OBVIOUS
    <3>2. k < id
      BY <1>1, <3>1
    <3>3. Rank(ended, k) < Rank(ended, id)
      BY <1>1, <3>2, RankOrder
    <3> QED
      BY <1>1, <1>4, <3>1, <3>3
  <2>5. Cardinality(kept) = TerminalHistory
    <3> HIDE DEF n, gone, kept
    <3> QED
      BY <1>1, <2>1, <2>2, <2>3
  <2>6. DOMAIN rows \ DOMAIN Prune(rows) = gone
    BY <1>2, <1>3
  <2> HIDE DEF n, gone, kept
  <2> QED
    BY <1>1, <1>3, <2>4, <2>5, <2>6
<1> QED
  BY <1>1, <1>5, <1>6

-----------------------------------------------------------------------------
(* The history.  Every operation that ends a row prunes; the others add no *)
(* ended row.                                                              *)

NoneEnds ==
    DOMAIN entry \subseteq DOMAIN entry' /\ Over(entry') \subseteq Over(entry)

OneIsPruned ==
    \E id : \E status \in Live \cup Terminal : entry' = Prune(SetStatus(id, status))

\* What an operation does to the rows as far as the history cares.
LEMMA RowsOrPruned ==
    ASSUME QInv, QNext
    PROVE  \/ OneIsPruned
           \/ \E id \in Ids : Dismiss(id)
           \/ NoneEnds
<1>0. entry' = entry => NoneEnds
  BY DEF Over, NoneEnds
<1>1. \A s \in Live : s \notin Terminal
  BY DEF Live, Terminal
<1>2. ASSUME NEW job \in Jobs \cup {ExternalJob, MoveJob}, NEW status \in Live,
             Push(job, status)
      PROVE  NoneEnds
  <2>1. /\ nextId' \notin DOMAIN entry
        /\ DOMAIN entry' = DOMAIN entry \cup {nextId'}
        /\ entry'[nextId'] = [job |-> job, status |-> status]
        /\ \A o \in DOMAIN entry : entry'[o] = entry[o]
    BY <1>2, PushProperties DEF QInv
  <2> QED
    BY <1>1, <2>1 DEF Over, NoneEnds
<1>3. ASSUME NEW id, NEW status \in Live, entry' = SetStatus(id, status)
      PROVE  NoneEnds
  <2>1. CASE id \in DOMAIN entry
    <3>1. /\ DOMAIN entry' = DOMAIN entry
          /\ \A o \in DOMAIN entry' :
                entry'[o].status = IF o = id THEN status ELSE entry[o].status
      BY <1>3, <2>1, StatusOnly DEF QInv
    <3> QED
      BY <1>1, <3>1 DEF Over, NoneEnds
  <2>2. CASE id \notin DOMAIN entry
    BY <1>0, <1>3, <2>2 DEF SetStatus
  <2> QED
    BY <2>1, <2>2
<1>4. CASE QAdmit
  BY <1>0, <1>2, <1>4
  DEF QAdmit, AdmitDuplicate, AdmitStart, AdmitQueued, queueVars, Live
<1>5. CASE QRow
  <2>1. CASE AdmitExternal \/ AdmitLibraryMove
    BY <1>2, <2>1 DEF AdmitExternal, AdmitLibraryMove, Live
  <2>2. ASSUME NEW id \in Ids, NEW status \in Terminal,
               EndLibraryMove(id, status) \/ FinishExternal(id, status)
        PROVE  entry' = entry \/ OneIsPruned
    BY <2>2 DEF EndLibraryMove, FinishExternal, OneIsPruned
  <2>3. ASSUME NEW id \in Ids, NEW status \in {"Downloading", "Installing"},
               SetLibraryMoveCopying(id, status)
        PROVE  NoneEnds
    BY <1>0, <1>3, <2>3 DEF SetLibraryMoveCopying, Live
  <2> QED
    BY <1>0, <1>5, <2>1, <2>2, <2>3 DEF QRow, Terminal, Live
<1>6. CASE QSlot
  <2>1. ASSUME NEW id \in Ids, NEW result \in {"ok", "cancelled", "failed"},
               NEW skip \in BOOLEAN, DownloadFinished(id, result, skip)
        PROVE  entry' = entry \/ OneIsPruned
    BY <2>1 DEF DownloadFinished, queueVars, Live, Terminal, OneIsPruned
  <2>2. ASSUME NEW id \in Ids, NEW result \in {"ok", "failed"},
               FinalizeFinished(id, result)
        PROVE  entry' = entry \/ OneIsPruned
    BY <2>2 DEF FinalizeFinished, queueVars, Live, Terminal, OneIsPruned
  <2>3. CASE NextReady
    BY <1>3, <2>3 DEF NextReady, Live
  <2>4. CASE NextReadyLost
    BY <2>4 DEF NextReadyLost, Terminal, OneIsPruned
  <2> QED
    BY <1>0, <1>6, <2>1, <2>2, <2>3, <2>4 DEF QSlot
<1>7. CASE QUser
  <2>1. ASSUME NEW id \in Ids, CancelActive(id)
        PROVE  NoneEnds
    BY <1>3, <2>1 DEF CancelActive, Live
  <2>2. ASSUME NEW id \in Ids, CancelQueued(id)
        PROVE  OneIsPruned
    BY <2>2 DEF CancelQueued, Terminal, OneIsPruned
  <2> QED
    BY <1>7, <2>1, <2>2 DEF QUser
<1> QED
  BY <1>4, <1>5, <1>6, <1>7 DEF QNext

\* A status set in a row leaves a finite set of ids.
LEMMA StatusDomain ==
    ASSUME QInv, NEW id, NEW status
    PROVE  /\ DOMAIN SetStatus(id, status) = DOMAIN entry
           /\ IsFiniteSet(DOMAIN entry) /\ DOMAIN entry \subseteq Nat
           /\ \A o \in DOMAIN entry \ {id} : SetStatus(id, status)[o] = entry[o]
<1>1. nextId \in Nat /\ DOMAIN entry \subseteq 1 .. nextId
  BY BoundsAssumption DEF QInv, QTypeOK
<1>2. IsFiniteSet(1 .. nextId)
  BY <1>1, FS_Interval
<1>3. IsFiniteSet(DOMAIN entry) /\ DOMAIN entry \subseteq Nat
  BY <1>1, <1>2, FS_Subset
<1> QED
  BY <1>3 DEF SetStatus

LEMMA HistoryKeeps ==
    ASSUME QInv, HistoryBounded, [QNext]_queueVars
    PROVE  HistoryBounded'
<1>1. IsFiniteSet(Over(entry)) /\ Cardinality(Over(entry)) <= TerminalHistory
  <2>1. Over(entry) \in SUBSET DOMAIN entry
    BY DEF Over
  <2>2. IsFiniteSet(DOMAIN entry)
    BY StatusDomain
  <2> QED
    BY <2>1, <2>2, FS_Subset DEF Over, HistoryBounded, IsTerminal
<1>2. SUFFICES Cardinality(Over(entry')) <= TerminalHistory
  BY DEF Over, HistoryBounded, IsTerminal
<1>3. ASSUME Over(entry') \subseteq Over(entry)
      PROVE  Cardinality(Over(entry')) <= TerminalHistory
  <2>1. /\ Cardinality(Over(entry')) <= Cardinality(Over(entry))
        /\ IsFiniteSet(Over(entry'))
    BY <1>1, <1>3, FS_Subset
  <2>2. Cardinality(Over(entry')) \in Nat /\ Cardinality(Over(entry)) \in Nat
    BY <1>1, <2>1, FS_CardinalityType
  <2> QED
    BY <1>1, <2>1, <2>2, BoundsAssumption
<1>4. ASSUME NEW id, NEW status, entry' = Prune(SetStatus(id, status))
      PROVE  Cardinality(Over(entry')) <= TerminalHistory
  BY <1>4, StatusDomain, PruneCounts
<1>5. ASSUME NEW id \in Ids, Dismiss(id) PROVE Over(entry') \subseteq Over(entry)
  BY <1>5 DEF Dismiss, Restrict, Over
<1>6. UNCHANGED queueVars => Over(entry') \subseteq Over(entry)
  BY DEF queueVars
<1> QED
  BY <1>3, <1>4, <1>5, <1>6, RowsOrPruned DEF NoneEnds, OneIsPruned

\* The list keeps at most TerminalHistory ended rows, whoever calls the queue
\* (queue.rs:87-92).
THEOREM HistoryStaysBounded == QSpec => []HistoryBounded
<1>1. QInit => HistoryBounded
  <2> SUFFICES ASSUME QInit PROVE HistoryBounded
    OBVIOUS
  <2>1. {id \in DOMAIN entry : IsTerminal(id)} = {}
    BY DEF QInit
  <2> QED
    BY <2>1, FS_EmptySet, BoundsAssumption DEF HistoryBounded
<1> QED
  BY <1>1, HistoryKeeps, QueueInvariant, PTL DEF QSpec

\* What a step may drop, as PruneDropsOldest says it.
OldestGo ==
    LET gone == DOMAIN entry \ DOMAIN entry'
        kept == {id \in DOMAIN entry' : entry'[id].status \in Terminal}
    IN  \/ gone = {}
        \/ \E id \in Ids : Dismiss(id)
        \/ /\ Cardinality(kept) = TerminalHistory
           /\ \A id \in gone, k \in kept : id < k
           /\ Cardinality({id \in gone : IsLive(id)}) <= 1

LEMMA DropsOldest ==
    ASSUME QInv, [QNext]_queueVars
    PROVE  [OldestGo]_queueVars
<1> SUFFICES ASSUME QInv, QNext PROVE OldestGo
  OBVIOUS
<1>1. ASSUME NEW id, NEW status \in Live \cup Terminal,
             entry' = Prune(SetStatus(id, status)), DOMAIN entry' # DOMAIN entry
      PROVE  OldestGo
  <2> DEFINE rows == SetStatus(id, status)
             gone == DOMAIN entry \ DOMAIN entry'
  <2>1. /\ DOMAIN rows = DOMAIN entry
        /\ IsFiniteSet(DOMAIN entry) /\ DOMAIN entry \subseteq Nat
        /\ \A o \in DOMAIN entry \ {id} : rows[o] = entry[o]
    BY StatusDomain
  <2>2. entry' = Prune(rows)
    BY <1>1
  <2> HIDE DEF rows
  <2>3. /\ Cardinality(Over(entry')) = TerminalHistory
        /\ \A o \in gone, k \in Over(entry') : o < k
    BY <1>1, <2>1, <2>2, PruneCounts
  <2>4. {o \in gone : IsLive(o)} \in SUBSET {id}
    <3>1. \A o \in gone : rows[o].status \in Terminal
      BY <2>1, <2>2, PruneProperties
    <3> QED
      BY <2>1, <3>1 DEF IsLive, Live, Terminal
  <2>5. Cardinality({o \in gone : IsLive(o)}) <= 1
    <3>1. IsFiniteSet({id}) /\ Cardinality({id}) = 1
      BY FS_Singleton
    <3> QED
      BY <2>4, <3>1, FS_Subset
  <2> QED
    BY <2>3, <2>5 DEF OldestGo, Over
<1>2. DOMAIN entry \subseteq DOMAIN entry' => OldestGo
  BY DEF OldestGo
<1>3. (\E id \in Ids : Dismiss(id)) => OldestGo
  BY DEF OldestGo
<1>4. OneIsPruned => OldestGo
  BY <1>1, <1>2 DEF OneIsPruned
<1> QED
  BY <1>2, <1>3, <1>4, RowsOrPruned DEF NoneEnds

\* Only the oldest ended rows fall off the list, and only when it is full.
THEOREM OnlyTheOldestGo == QSpec => PruneDropsOldest
<1>1. QInv /\ [QNext]_queueVars => [OldestGo]_queueVars
  BY DropsOldest
<1> QED
  BY <1>1, QueueInvariant, PTL DEF QSpec, PruneDropsOldest, OldestGo

-----------------------------------------------------------------------------
(* The service.                                                            *)

\* A call beyond planning has an id that was handed out; one that admits
\* carries a job.
CallsMakeSense ==
    \A c \in calls : /\ c.op = "admit" => c.job \in Jobs
                     /\ c.op # "admit" => c.id \in 1 .. nextId

SInv == TypeOK /\ QInv /\ TasksOwnSlots /\ CallsMakeSense

-----------------------------------------------------------------------------
(* Every step is a step of the queue.                                      *)

LEMMA DownloadIsQueueStep ==
    ASSUME NEW id \in Ids, NEW result, NEW skip \in BOOLEAN,
           DownloadFinished(id, result, skip)
    PROVE  QSlot
<1> DEFINE seen == IF result \in {"ok", "cancelled"} THEN result ELSE "failed"
<1>1. DownloadFinished(id, seen, skip)
  BY DEF DownloadFinished
<1>2. seen \in {"ok", "cancelled", "failed"}
  OBVIOUS
<1> HIDE DEF seen
<1> QED
  BY <1>1, <1>2 DEF QSlot

LEMMA FinalizeIsQueueStep ==
    ASSUME NEW id \in Ids, NEW result, FinalizeFinished(id, result)
    PROVE  QSlot
<1> DEFINE seen == IF result = "ok" THEN "ok" ELSE "failed"
<1>1. FinalizeFinished(id, seen)
  BY DEF FinalizeFinished
<1>2. seen \in {"ok", "failed"}
  OBVIOUS
<1> HIDE DEF seen
<1> QED
  BY <1>1, <1>2 DEF QSlot

LEMMA AdmissionIsQueueStep ==
    ASSUME NEW job \in Jobs, Admission(job)
    PROVE  QAdmit \/ UNCHANGED queueVars
  BY DEF Admission, QAdmit

\* The mover touches its own row and the gate.
LEMMA MoverTouches ==
    ASSUME Mover
    PROVE  /\ QRow \/ UNCHANGED queueVars
           /\ UNCHANGED <<download, finalize, waiting, pending, flag, dl, fin,
                          calls, transfers, installed>>
           /\ gateOpen' \in {gateOpen, TRUE, FALSE}
<1> USE DEF taskVars, queueVars, QRow
<1>1. CASE CloseGate \/ OpenGate
  BY <1>1 DEF CloseGate, OpenGate
<1>2. CASE BeginLibraryMove
  BY <1>2 DEF BeginLibraryMove, AdmitLibraryMove
<1>3. ASSUME NEW id \in Ids, ShowLibraryMove(id)
      PROVE  /\ QRow
             /\ UNCHANGED <<download, finalize, waiting, pending, flag, dl, fin,
                            calls, transfers, installed, gateOpen>>
  BY <1>3 DEF ShowLibraryMove, SetLibraryMoveCopying, EndLibraryMove
<1> QED
  BY <1>1, <1>2, <1>3 DEF Mover

\* Who may take a row off the list: whoever is not the frontend, the frontend
\* for an ended row, and a retry.
Offered(id) == AnyCaller \/ IsTerminal(id) \/ \E c \in calls : c.op = "dismiss" /\ c.id = id

\* The operations the tasks and calls of the service use.
QDriven ==
    \/ QAdmit \/ QSlot
    \/ \E id \in Ids : CancelActive(id) \/ CancelQueued(id) \/ (Dismiss(id) /\ Offered(id))

Driver ==
    \/ \E id \in Ids : DownloadTask(id) \/ FinalizeTask(id)
    \/ \E c \in calls : CallStep(c)
    \/ UserCall

LEMMA DriversStep ==
    ASSUME SInv, Driver
    PROVE  QDriven \/ UNCHANGED queueVars
<1> USE DEF SInv
<1>1. ASSUME NEW id \in Ids, DownloadTask(id) PROVE QDriven \/ UNCHANGED queueVars
  <2>1. ASSUME RecordDownload(id) PROVE QDriven
    <3>1. dl[id].skip \in BOOLEAN
      BY DEF TypeOK, DlTask
    <3> QED
      BY <2>1, <3>1, DownloadIsQueueStep DEF RecordDownload, QDriven
  <2>2. ASSUME PumpAfterDownload(id) PROVE QDriven \/ UNCHANGED queueVars
    BY <2>2 DEF PumpAfterDownload, PumpStarts, PumpLoses, QDriven, QSlot
  <2> QED
    BY <1>1, <2>1, <2>2 DEF DownloadTask, RegisterFlag, RecheckCancel, WorkerEnds,
       UnregisterFlag, ReadInstalled
<1>2. ASSUME NEW id \in Ids, FinalizeTask(id) PROVE QDriven \/ UNCHANGED queueVars
  <2>1. ASSUME QueueContent(id) PROVE QDriven \/ UNCHANGED queueVars
    <3>1. fin[id].left \in Seq(Jobs) /\ fin[id].left # << >>
      BY <2>1 DEF QueueContent, TypeOK, FinTask
    <3>2. Head(fin[id].left) \in Jobs
      BY <3>1, HeadTailProperties
    <3> QED
      BY <2>1, <3>2, AdmissionIsQueueStep DEF QueueContent, QDriven
  <2>2. ASSUME RecordFinalize(id) PROVE QDriven
    BY <2>2, FinalizeIsQueueStep DEF RecordFinalize, QDriven
  <2>3. ASSUME PumpAfterFinalize(id) PROVE QDriven \/ UNCHANGED queueVars
    BY <2>3 DEF PumpAfterFinalize, PumpStarts, PumpLoses, QDriven, QSlot
  <2> QED
    BY <1>2, <2>1, <2>2, <2>3 DEF FinalizeTask, FinalizeBase, ContentQueued, ReadRow,
       Merge, FinalizeEmulator, FinalizeFails
<1>3. ASSUME NEW id \in Ids, NEW op, RequestCancel(id, op) PROVE QDriven
  BY <1>3 DEF RequestCancel, QDriven
<1>4. ASSUME NEW c \in calls, CallStep(c) PROVE QDriven \/ UNCHANGED queueVars
  <2>1. ASSUME AdmitPlanned(c) PROVE QDriven \/ UNCHANGED queueVars
    BY <2>1, AdmissionIsQueueStep DEF AdmitPlanned, CallsMakeSense, QDriven
  <2>2. c.op # "admit" => c.id \in Ids
    BY BoundsAssumption DEF CallsMakeSense, QInv, QTypeOK, Ids
  <2>3. ASSUME CancelFound(c) PROVE QDriven \/ UNCHANGED queueVars
    BY <1>3, <2>2, <2>3 DEF CancelFound
  <2>4. ASSUME RetryDismiss(c) PROVE QDriven \/ UNCHANGED queueVars
    BY <2>2, <2>4 DEF RetryDismiss, QDriven, Offered
  <2> QED
    BY <1>4, <2>1, <2>3, <2>4 DEF CallStep, PlanFails, FlipFlag, DropPlan, Unstash, Unflag
<1>5. ASSUME UserCall PROVE QDriven \/ UNCHANGED queueVars
  <2>1. ASSUME NEW id \in Ids, Cancel(id) PROVE QDriven
    BY <1>3, <2>1 DEF Cancel
  <2>2. ASSUME NEW id \in Ids, DismissRow(id) PROVE QDriven
    BY <2>2 DEF DismissRow, QDriven, Offered
  <2> QED
    BY <1>5, <2>1, <2>2 DEF UserCall, RequestInstall, Retry, CancelForRom, Uninstall
<1> QED
  BY <1>1, <1>2, <1>4, <1>5 DEF Driver

LEMMA ServiceStepsQueue == SInv /\ [Next]_vars => [QNext]_queueVars
<1>1. SInv /\ Driver => QNext \/ UNCHANGED queueVars
  BY DriversStep DEF QDriven, QNext, QUser
<1>2. Transfer => QNext
  BY DEF Transfer, BeginTransfer, EndTransfer, QNext, QRow
<1>3. Mover => QNext \/ UNCHANGED queueVars
  BY MoverTouches DEF QNext
<1>4. UNCHANGED vars => UNCHANGED queueVars
  BY DEF vars, queueVars
<1> QED
  BY <1>1, <1>2, <1>3, <1>4 DEF Next, ServiceNext, Driver

-----------------------------------------------------------------------------
(* The tasks and the slots.                                                *)

\* A task that owns the download slot works on an install row; the same for
\* the finalize slot.
LEMMA OwnersHaveRows ==
    ASSUME SInv, NEW id \in Ids
    PROVE  /\ OwnsDownload(id) \/ OwnsFinalize(id) =>
                 id \in DOMAIN entry /\ entry[id].job \in Jobs
           /\ OwnsDownload(id) => ~OwnsFinalize(id)
<1>1. id # NoId
  BY DEF Ids, NoId
<1>2. (OwnsDownload(id) <=> download = id) /\ (OwnsFinalize(id) <=> finalize = id)
  BY DEF SInv, TasksOwnSlots
<1> QED
  BY <1>1, <1>2 DEF SInv, QInv, SlotsMatchRows, OneAtATime

\* An admission from any task or call.
LEMMA AdmissionKeeps ==
    ASSUME TypeOK, QInv, TasksOwnSlots, NEW job \in Jobs, Admission(job),
           \A id \in Ids : OwnsFinalize(id)' <=> OwnsFinalize(id)
    PROVE  TasksOwnSlots' /\ dl' \in [Ids -> DlTask] /\ pending' \subseteq Ids
<1>1. CASE UNCHANGED <<queueVars, pending, dl>>
  BY <1>1 DEF queueVars, TypeOK, TasksOwnSlots, OwnsDownload
<1>2. CASE AdmitStart(job) /\ Started(nextId + 1) /\ UNCHANGED pending
  <2>1. /\ nextId + 1 \in Ids /\ download = NoId /\ finalize = NoId
        /\ download' = nextId + 1 /\ finalize' = finalize
    BY <1>2, BoundsAssumption
    DEF AdmitStart, SlotsFree, Push, QInv, QTypeOK, Ids
  <2>2. dl' = [dl EXCEPT ![nextId + 1] = [IdleDl EXCEPT !.pc = "register"]]
    BY <1>2 DEF Started
  <2>3. dl \in [Ids -> DlTask] /\ \A o \in Ids : o # NoId
    BY DEF TypeOK, Ids, NoId
  <2> DEFINE new == nextId + 1
  <2>4. /\ new \in Ids /\ download' = new
        /\ dl' = [dl EXCEPT ![new] = [IdleDl EXCEPT !.pc = "register"]]
    BY <2>1, <2>2
  <2> HIDE DEF new
  <2>5. dl' \in [Ids -> DlTask]
    BY <2>3, <2>4 DEF DlTask, IdleDl
  <2>6. \A o \in Ids : OwnsDownload(o)' <=> o = new
    BY <2>1, <2>3, <2>4 DEF OwnsDownload, TasksOwnSlots, IdleDl
  <2>7. TasksOwnSlots'
    BY <2>1, <2>4, <2>6 DEF TasksOwnSlots
  <2> QED
    BY <1>2, <2>5, <2>7 DEF TypeOK
<1>3. CASE /\ AdmitQueued(job)
           /\ pending' = pending \cup {nextId + 1}
           /\ UNCHANGED dl
  <2>1. nextId + 1 \in Ids /\ UNCHANGED <<download, finalize, dl>>
    BY <1>3, BoundsAssumption DEF AdmitQueued, Push, QInv, QTypeOK, Ids
  <2> QED
    BY <1>3, <2>1 DEF TypeOK, TasksOwnSlots, OwnsDownload
<1> QED
  BY <1>1, <1>2, <1>3 DEF Admission, AdmitDuplicate

\* Ids only grow, so a call that makes sense keeps making sense.
LEMMA IdsGrow ==
    ASSUME QInv, [QNext]_queueVars
    PROVE  nextId' \in Nat /\ nextId \in Nat /\ nextId <= nextId'
<1>1. nextId \in Nat
  BY BoundsAssumption DEF QInv, QTypeOK
<1>2. nextId' = nextId \/ nextId' = nextId + 1
  BY DEF QNext, queueVars, QAdmit, AdmitDuplicate, AdmitStart, AdmitQueued, Push,
     QRow, AdmitExternal, AdmitLibraryMove, EndLibraryMove, FinishExternal,
     SetLibraryMoveCopying, QSlot, DownloadFinished, FinalizeFinished, NextReady,
     NextReadyLost, QUser, CancelActive, CancelQueued, Dismiss
<1> QED
  BY <1>1, <1>2

LEMMA SameCallsKeep ==
    ASSUME QInv, [QNext]_queueVars, CallsMakeSense, calls' \subseteq calls
    PROVE  CallsMakeSense'
  BY IdsGrow DEF CallsMakeSense

\* The steps of a download task.
LEMMA DownloadTaskKeeps ==
    ASSUME SInv, NEW id \in Ids, DownloadTask(id), QInv'
    PROVE  TypeOK' /\ TasksOwnSlots'
<1> USE DEF SInv
<1>0. /\ dl \in [Ids -> DlTask] /\ fin \in [Ids -> FinTask]
      /\ pending \subseteq Ids /\ calls \subseteq Call /\ transfers \subseteq Ids
      /\ flag \in [Ids -> {"none", "clear", "set"}]
      /\ installed \subseteq Roms /\ gateOpen \in BOOLEAN
  BY DEF TypeOK
<1>1. SUFFICES ASSUME DownloadTask(id)
               PROVE  /\ dl' \in [Ids -> DlTask] /\ fin' \in [Ids -> FinTask]
                      /\ pending' \subseteq Ids
                      /\ flag' \in [Ids -> {"none", "clear", "set"}]
                      /\ UNCHANGED <<calls, transfers, installed, gateOpen>>
                      /\ TasksOwnSlots'
  BY <1>0, <1>1 DEF TypeOK, QInv
<1>2. ASSUME NEW t \in DlTask, OwnsDownload(id),
             t.pc \in {"recheck", "download", "unregister", "settle", "record"},
             dl' = [dl EXCEPT ![id] = t], UNCHANGED <<queueVars, fin>>
      PROVE  TasksOwnSlots' /\ dl' \in [Ids -> DlTask]
  <2>1. dl' \in [Ids -> DlTask]
    BY <1>0, <1>2
  <2>2. \A o \in Ids : OwnsDownload(o)' <=> OwnsDownload(o)
    BY <1>0, <1>2 DEF OwnsDownload
  <2> QED
    BY <1>2, <2>1, <2>2 DEF TasksOwnSlots, OwnsFinalize, queueVars
<1>3. ASSUME NEW pc \in {"recheck", "download", "settle", "record"}, OwnsDownload(id),
             DlGoto(id, pc), UNCHANGED <<queueVars, fin>>
      PROVE  TasksOwnSlots' /\ dl' \in [Ids -> DlTask]
  <2> DEFINE t == [dl[id] EXCEPT !.pc = pc]
  <2>1. t \in DlTask /\ t.pc = pc /\ dl' = [dl EXCEPT ![id] = t]
    BY <1>0, <1>3 DEF DlGoto, DlTask
  <2> HIDE DEF t
  <2> QED
    BY <1>2, <1>3, <2>1
<1>4. CASE RegisterFlag(id) \/ RecheckCancel(id) \/ UnregisterFlag(id)
  <2>1. /\ OwnsDownload(id) /\ UNCHANGED <<queueVars, fin>>
        /\ \E pc \in {"recheck", "download", "settle", "record"} : DlGoto(id, pc)
    BY <1>4 DEF RegisterFlag, RecheckCancel, UnregisterFlag, DlAt, OwnsDownload
  <2>2. TasksOwnSlots' /\ dl' \in [Ids -> DlTask]
    BY <1>3, <2>1
  <2>3. flag' \in [Ids -> {"none", "clear", "set"}]
    BY <1>0, <1>4 DEF RegisterFlag, RecheckCancel, UnregisterFlag
  <2> QED
    BY <1>0, <1>4, <2>1, <2>2, <2>3 DEF RegisterFlag, RecheckCancel, UnregisterFlag
<1>5. ASSUME NEW outcome \in {"ok", "cancelled", "failed", "panic"}, WorkerEnds(id, outcome)
      PROVE  /\ dl' \in [Ids -> DlTask] /\ UNCHANGED <<fin, pending, flag>>
             /\ UNCHANGED <<calls, transfers, installed, gateOpen>>
             /\ TasksOwnSlots'
  <2> DEFINE t == [dl[id] EXCEPT !.pc = "unregister", !.outcome = outcome]
  <2>1. t \in DlTask /\ t.pc = "unregister" /\ dl' = [dl EXCEPT ![id] = t]
    BY <1>0, <1>5 DEF WorkerEnds, DlTask
  <2> HIDE DEF t
  <2>2. OwnsDownload(id) /\ UNCHANGED <<queueVars, fin>>
    BY <1>5 DEF WorkerEnds, DlAt, OwnsDownload
  <2> QED
    BY <1>2, <1>5, <2>1, <2>2 DEF WorkerEnds
<1>7. CASE ReadInstalled(id)
  <2>1. OwnsDownload(id) /\ UNCHANGED <<queueVars, fin, flag, pending>>
    BY <1>7 DEF ReadInstalled, DlAt, OwnsDownload
  <2>2. PICK answer \in BOOLEAN : dl' = [dl EXCEPT ![id].pc = "record", ![id].skip = answer]
    BY <1>7, Zenon DEF ReadInstalled
  <2> DEFINE t == [dl[id] EXCEPT !.pc = "record", !.skip = answer]
  <2>4. t \in DlTask /\ t.pc = "record" /\ dl' = [dl EXCEPT ![id] = t]
    BY <1>0, <2>2 DEF DlTask
  <2> HIDE DEF t
  <2> QED
    BY <1>0, <1>2, <1>7, <2>1, <2>4 DEF ReadInstalled
<1>8. CASE RecordDownload(id)
  <2>1. /\ DownloadFinished(id, dl[id].outcome, dl[id].skip)
        /\ fin' = IF id \in DOMAIN entry' /\ entry'[id].status = "Installing"
                  THEN [fin EXCEPT ![id] = [IdleFin EXCEPT !.pc = "apply"]] ELSE fin
        /\ dl' = [dl EXCEPT ![id] = [IdleDl EXCEPT !.pc = "pump"]]
        /\ UNCHANGED <<pending, flag, calls, transfers, installed, gateOpen>>
        /\ OwnsDownload(id)
    BY <1>8 DEF RecordDownload, DlAt, OwnsDownload
  <2>2. download = id /\ \A o \in Ids : OwnsDownload(o) => o = id
    BY <2>1 DEF TasksOwnSlots
  <2>3. dl' \in [Ids -> DlTask] /\ \A o \in Ids : ~OwnsDownload(o)'
    BY <1>0, <2>1, <2>2 DEF DlTask, IdleDl, OwnsDownload
  <2>4. fin' \in [Ids -> FinTask]
    <3>1. << >> \in Seq(Jobs)
      BY EmptySeq
    <3> QED
      BY <1>0, <2>1, <3>1 DEF FinTask, IdleFin
  <2>5. /\ download' = NoId
        /\ finalize' = IF id \in DOMAIN entry' /\ entry'[id].status = "Installing"
                       THEN id ELSE finalize
        /\ finalize = NoId
    <3>1. id # NoId /\ finalize = NoId /\ id \in DOMAIN entry /\ entry[id].job \in Jobs
      BY <2>2 DEF Ids, NoId, QInv, SlotsMatchRows, OneAtATime
    <3> DEFINE status == CASE dl[id].outcome = "ok" /\ dl[id].skip -> "Completed"
                           [] dl[id].outcome = "ok"                -> "Installing"
                           [] dl[id].outcome = "cancelled"         -> "Cancelled"
                           [] OTHER                                -> "Failed"
    <3>2. status \in {"Completed", "Installing", "Cancelled", "Failed"}
      OBVIOUS
    <3>3. /\ download' = NoId
          /\ entry' = Prune(SetStatus(id, status))
          /\ finalize' = IF status = "Installing" /\ id \in DOMAIN entry
                         THEN id ELSE finalize
      BY <2>1, <2>2 DEF DownloadFinished
    <3> HIDE DEF status
    <3>4. /\ \A o \in DOMAIN entry' :
                entry'[o].status = IF o = id THEN status ELSE entry[o].status
          /\ \A o \in DOMAIN entry \ DOMAIN entry' :
                (IF o = id THEN status ELSE entry[o].status) \in Terminal
      BY <3>1, <3>2, <3>3, StatusThenPrune DEF QInv, Live, Terminal
    <3> QED
      BY <3>1, <3>3, <3>4 DEF Terminal
  <2>6. \A o \in Ids : ~OwnsFinalize(o)
    BY <2>5 DEF TasksOwnSlots, Ids, NoId
  <2>7. \A o \in Ids : OwnsFinalize(o)' <=> finalize' = o
    BY <1>0, <2>1, <2>5, <2>6 DEF OwnsFinalize, IdleFin, Ids, NoId
  <2>8. \A o \in Ids : OwnsDownload(o)' <=> download' = o
    BY <2>3, <2>5 DEF Ids, NoId
  <2> QED
    BY <1>0, <2>1, <2>3, <2>4, <2>7, <2>8 DEF TasksOwnSlots
<1>9. CASE PumpAfterDownload(id)
  <2>0. ~OwnsDownload(id) /\ UNCHANGED <<flag, fin, calls, transfers, installed, gateOpen>>
    BY <1>9 DEF PumpAfterDownload, DlAt, OwnsDownload
  <2>1. CASE PumpStarts /\ dl' = [dl EXCEPT ![id] = IdleDl,
                                    ![Head(waiting)] = [IdleDl EXCEPT !.pc = "register"]]
    <3> DEFINE new == Head(waiting)
    <3>1. /\ new \in Ids /\ download = NoId /\ download' = new /\ finalize' = finalize
          /\ pending' \subseteq pending
          /\ dl' = [dl EXCEPT ![id] = IdleDl, ![new] = [IdleDl EXCEPT !.pc = "register"]]
      <4>1. waiting \in Seq(Ids) /\ waiting # << >>
        BY <2>1 DEF PumpStarts, NextReady, Ready, QInv, QTypeOK
      <4>2. Head(waiting) \in Ids
        BY <4>1, HeadTailProperties
      <4> QED
        BY <2>1, <4>2 DEF PumpStarts, NextReady, Ready, SlotsFree
    <3> HIDE DEF new
    <3>2. dl' \in [Ids -> DlTask]
      BY <1>0, <3>1 DEF DlTask, IdleDl
    <3>3. \A o \in Ids : OwnsDownload(o)' <=> o = new
      BY <1>0, <3>1 DEF OwnsDownload, IdleDl, TasksOwnSlots, Ids, NoId
    <3> QED
      BY <1>0, <2>0, <3>1, <3>2, <3>3 DEF TasksOwnSlots, OwnsFinalize
  <2>2. CASE PumpLoses /\ UNCHANGED dl
    BY <1>0, <2>0, <2>2 DEF PumpLoses, NextReadyLost, TasksOwnSlots, OwnsDownload,
                            OwnsFinalize
  <2>3. CASE dl' = [dl EXCEPT ![id] = IdleDl] /\ UNCHANGED <<queueVars, pending>>
    BY <1>0, <2>0, <2>3 DEF TasksOwnSlots, OwnsDownload, OwnsFinalize, queueVars,
                            DlTask, IdleDl
  <2> QED
    BY <1>9, <2>1, <2>2, <2>3 DEF PumpAfterDownload
<1> QED
  BY <1>0, <1>1, <1>4, <1>5, <1>7, <1>8, <1>9 DEF DownloadTask

\* The steps of a finalize task.
LEMMA FinalizeTaskKeeps ==
    ASSUME SInv, NEW id \in Ids, FinalizeTask(id), QInv'
    PROVE  TypeOK' /\ TasksOwnSlots'
<1> USE DEF SInv
<1>0. /\ dl \in [Ids -> DlTask] /\ fin \in [Ids -> FinTask]
      /\ pending \subseteq Ids /\ calls \subseteq Call /\ transfers \subseteq Ids
      /\ flag \in [Ids -> {"none", "clear", "set"}]
      /\ installed \subseteq Roms /\ gateOpen \in BOOLEAN
      /\ << >> \in Seq(Jobs)
  BY EmptySeq DEF TypeOK
<1>1. SUFFICES ASSUME FinalizeTask(id)
               PROVE  /\ dl' \in [Ids -> DlTask] /\ fin' \in [Ids -> FinTask]
                      /\ pending' \subseteq Ids /\ installed' \subseteq Roms
                      /\ UNCHANGED <<flag, calls, transfers, gateOpen>>
                      /\ TasksOwnSlots'
  BY <1>0, <1>1 DEF TypeOK, QInv
<1>2. ASSUME NEW pc \in {"merge", "content", "record"}, OwnsFinalize(id),
             NEW outcome \in {"none", "ok", "failed"}, NEW left \in Seq(Jobs),
             FinGoto(id, pc, outcome, left)
      PROVE  /\ fin' \in [Ids -> FinTask]
             /\ \A o \in Ids : OwnsFinalize(o)' <=> OwnsFinalize(o)
  BY <1>0, <1>2 DEF FinGoto, FinTask, OwnsFinalize
<1>3. ASSUME UNCHANGED <<queueVars, dl>>,
             \A o \in Ids : OwnsFinalize(o)' <=> OwnsFinalize(o)
      PROVE  TasksOwnSlots'
  BY <1>3 DEF TasksOwnSlots, OwnsDownload, queueVars
<1>4. ASSUME OwnsFinalize(id), entry[id].job.mode # "Emulator"
      PROVE  installed \cup {entry[id].job.rom} \subseteq Roms
  <2>1. entry[id].job \in Jobs
    BY <1>4, OwnersHaveRows
  <2> QED
    BY <1>0, <1>4, <2>1, ServiceAssumption DEF Roms
<1>5. CASE FinalizeBase(id)
  <2>1. OwnsFinalize(id) /\ entry[id].job.mode # "Emulator"
    BY <1>5 DEF FinalizeBase, FinAt, OwnsFinalize
  <2>2. Follow[entry[id].job] \in Seq(Jobs)
    BY <2>1, OwnersHaveRows, ServiceAssumption
  <2> QED
    BY <1>0, <1>2, <1>3, <1>4, <1>5, <2>1, <2>2 DEF FinalizeBase
<1>6. CASE QueueContent(id)
  <2> DEFINE job == Head(fin[id].left)
  <2>1. /\ OwnsFinalize(id) /\ Admission(job)
        /\ fin[id].left # << >>
        /\ FinGoto(id, "content", "none", Tail(fin[id].left))
        /\ UNCHANGED <<flag, calls, transfers, installed, gateOpen>>
    BY <1>6 DEF QueueContent, FinAt, OwnsFinalize
  <2>2. job \in Jobs /\ Tail(fin[id].left) \in Seq(Jobs)
    <3>1. fin[id].left \in Seq(Jobs)
      BY <1>0 DEF FinTask
    <3> QED
      BY <2>1, <3>1, HeadTailProperties
  <2> HIDE DEF job
  <2>3. /\ fin' \in [Ids -> FinTask]
        /\ \A o \in Ids : OwnsFinalize(o)' <=> OwnsFinalize(o)
    BY <1>2, <2>1, <2>2
  <2> QED
    BY <1>0, <2>1, <2>2, <2>3, AdmissionKeeps
<1>7. CASE ContentQueued(id)
  <2>1. OwnsFinalize(id)
    BY <1>7 DEF ContentQueued, FinAt, OwnsFinalize
  <2> QED
    BY <1>0, <1>2, <1>3, <1>7, <2>1 DEF ContentQueued
<1>8. CASE ReadRow(id)
  <2>1. OwnsFinalize(id)
    BY <1>8 DEF ReadRow, FinAt, OwnsFinalize
  <2> QED
    BY <1>0, <1>2, <1>3, <1>8, <2>1 DEF ReadRow
<1>9. CASE Merge(id)
  <2>1. OwnsFinalize(id)
    BY <1>9 DEF Merge, FinAt, OwnsFinalize
  <2> QED
    BY <1>0, <1>2, <1>3, <1>4, <1>9, <2>1 DEF Merge
<1>10. CASE FinalizeEmulator(id) \/ FinalizeFails(id)
  <2>1. OwnsFinalize(id)
    BY <1>10 DEF FinalizeEmulator, FinalizeFails, FinAt, OwnsFinalize
  <2> QED
    BY <1>0, <1>2, <1>3, <1>10, <2>1 DEF FinalizeEmulator, FinalizeFails
<1>11. CASE RecordFinalize(id)
  <2>1. /\ OwnsFinalize(id) /\ finalize = id
        /\ FinalizeFinished(id, fin[id].outcome)
        /\ FinGoto(id, "pump", "none", << >>)
        /\ UNCHANGED <<pending, flag, dl, calls, transfers, installed, gateOpen>>
    BY <1>11 DEF RecordFinalize, FinAt, OwnsFinalize, TasksOwnSlots
  <2>2. fin' \in [Ids -> FinTask]
    BY <1>0, <2>1 DEF FinGoto, FinTask
  <2>3. finalize' = NoId /\ download' = download
    BY <2>1 DEF FinalizeFinished
  <2>4. \A o \in Ids : ~OwnsFinalize(o)'
    BY <1>0, <2>1 DEF FinGoto, OwnsFinalize, TasksOwnSlots
  <2>5. \A o \in Ids : o # NoId
    BY DEF Ids, NoId
  <2> QED
    BY <1>0, <2>1, <2>2, <2>3, <2>4, <2>5 DEF TasksOwnSlots, OwnsDownload
<1>12. CASE PumpAfterFinalize(id)
  <2>0. ~OwnsFinalize(id) /\ UNCHANGED <<flag, calls, transfers, installed, gateOpen>>
    BY <1>12 DEF PumpAfterFinalize, OwnsFinalize
  <2>1. fin' = [fin EXCEPT ![id] = IdleFin] =>
           /\ fin' \in [Ids -> FinTask]
           /\ \A o \in Ids : OwnsFinalize(o)' <=> OwnsFinalize(o)
    BY <1>0, <2>0 DEF OwnsFinalize, IdleFin, FinTask
  <2>2. CASE PumpStarts /\ Started(Head(waiting)) /\ fin' = [fin EXCEPT ![id] = IdleFin]
    <3> DEFINE new == Head(waiting)
    <3>1. /\ new \in Ids /\ download = NoId /\ download' = new /\ finalize' = finalize
          /\ pending' \subseteq pending
          /\ dl' = [dl EXCEPT ![new] = [IdleDl EXCEPT !.pc = "register"]]
      <4>1. waiting \in Seq(Ids) /\ waiting # << >>
        BY <2>2 DEF PumpStarts, NextReady, Ready, QInv, QTypeOK
      <4>2. Head(waiting) \in Ids
        BY <4>1, HeadTailProperties
      <4> QED
        BY <2>2, <4>2 DEF PumpStarts, NextReady, Ready, SlotsFree, Started
    <3> HIDE DEF new
    <3>2. dl' \in [Ids -> DlTask]
      BY <1>0, <3>1 DEF DlTask, IdleDl
    <3>3. \A o \in Ids : OwnsDownload(o)' <=> o = new
      BY <1>0, <3>1 DEF OwnsDownload, IdleDl, TasksOwnSlots, Ids, NoId
    <3> QED
      BY <1>0, <2>0, <2>1, <2>2, <3>1, <3>2, <3>3 DEF TasksOwnSlots
  <2>3. CASE PumpLoses /\ UNCHANGED <<dl, fin>>
    BY <1>0, <2>0, <2>3 DEF PumpLoses, NextReadyLost, TasksOwnSlots, OwnsDownload,
                            OwnsFinalize
  <2>4. CASE fin' = [fin EXCEPT ![id] = IdleFin] /\ UNCHANGED <<queueVars, pending, dl>>
    BY <1>0, <1>3, <2>0, <2>1, <2>4
  <2> QED
    BY <1>12, <2>2, <2>3, <2>4 DEF PumpAfterFinalize
<1> QED
  BY <1>1, <1>5, <1>6, <1>7, <1>8, <1>9, <1>10, <1>11, <1>12 DEF FinalizeTask

-----------------------------------------------------------------------------
(* The calls, the transfers and the gate.                                  *)

\* A call that goes on as another one, or a call that begins.
LEMMA NextCallKeeps ==
    ASSUME QInv, [QNext]_queueVars, CallsMakeSense, calls \subseteq Call,
           NEW op \in {"admit", "cancel", "flip", "drop", "dismiss", "unstash", "unflag"},
           NEW id \in Ids \cup {NoId}, NEW job \in Jobs \cup {NoJob},
           op = "admit" => job \in Jobs,
           op # "admit" => id \in 1 .. nextId,
           calls' \subseteq calls \cup {NewCall(op, id, job)}
    PROVE  CallsMakeSense' /\ calls' \subseteq Call
<1> DEFINE d == NewCall(op, id, job)
<1>1. d \in Call /\ d.op = op /\ d.id = id /\ d.job = job
  BY DEF NewCall, Call
<1> HIDE DEF d
<1>2. calls' \subseteq Call
  BY <1>1 DEF d
<1>3. ASSUME NEW c \in calls'
      PROVE  /\ c.op = "admit" => c.job \in Jobs
             /\ c.op # "admit" => c.id \in 1 .. nextId'
  <2>1. CASE c \in calls
    BY <2>1, IdsGrow DEF CallsMakeSense
  <2>2. CASE c = d
    BY <1>1, <2>2, IdsGrow
  <2> QED
    BY <2>1, <2>2 DEF d
<1> QED
  BY <1>2, <1>3 DEF CallsMakeSense

\* Everything but the calls, for a step of a call that touches no task.
LEMMA NoTaskKeeps ==
    ASSUME SInv, QInv', UNCHANGED <<download, finalize, dl, fin, gateOpen>>,
           calls' \subseteq Call, pending' \subseteq Ids, transfers' \subseteq Ids,
           installed' \subseteq Roms,
           flag' \in [Ids -> {"none", "clear", "set"}]
    PROVE  TypeOK' /\ TasksOwnSlots'
  BY DEF SInv, QInv, TypeOK, TasksOwnSlots, OwnsDownload, OwnsFinalize

\* Cancel, dismiss and the pipeline's slots.
LEMMA UserKeepsSlots ==
    ASSUME NEW id, NEW op, RequestCancel(id, op) \/ Dismiss(id)
    PROVE  UNCHANGED <<download, finalize>>
  BY DEF RequestCancel, CancelActive, CancelQueued, Dismiss

LEMMA CallKeeps ==
    ASSUME SInv, NEW c \in calls, CallStep(c), QInv', [QNext]_queueVars
    PROVE  TypeOK' /\ TasksOwnSlots' /\ CallsMakeSense'
<1> USE DEF SInv
<1>0. /\ dl \in [Ids -> DlTask] /\ fin \in [Ids -> FinTask]
      /\ pending \subseteq Ids /\ calls \subseteq Call /\ transfers \subseteq Ids
      /\ flag \in [Ids -> {"none", "clear", "set"}]
      /\ installed \subseteq Roms /\ gateOpen \in BOOLEAN
  BY DEF TypeOK
<1>1. /\ c.op \in {"admit", "cancel", "flip", "drop", "dismiss", "unstash", "unflag"}
      /\ c.id \in Ids \cup {NoId} /\ c.job \in Jobs \cup {NoJob}
      /\ c.op = "admit" => c.job \in Jobs
      /\ c.op # "admit" => c.id \in 1 .. nextId
      /\ NoId \in Ids \cup {NoId} /\ NoJob \in Jobs \cup {NoJob}
  BY <1>0 DEF Call, CallsMakeSense
<1>2. CASE PlanFails(c)
  <2>1. calls' \subseteq calls /\ UNCHANGED <<queueVars, taskVars, transfers, installed, gateOpen>>
    BY <1>2 DEF PlanFails, End
  <2>2. CallsMakeSense'
    BY <2>1, SameCallsKeep
  <2>3. TypeOK' /\ TasksOwnSlots'
    BY <1>0, <2>1, NoTaskKeeps DEF taskVars, queueVars
  <2> QED
    BY <2>2, <2>3
<1>3. CASE AdmitPlanned(c)
  <2>1. /\ c.op = "admit" /\ Admission(c.job) /\ calls' \subseteq calls
        /\ UNCHANGED <<flag, fin, transfers, installed, gateOpen>>
    BY <1>3 DEF AdmitPlanned, End
  <2>2. TasksOwnSlots' /\ dl' \in [Ids -> DlTask] /\ pending' \subseteq Ids
    BY <1>1, <2>1, AdmissionKeeps DEF OwnsFinalize
  <2>3. CallsMakeSense'
    BY <2>1, SameCallsKeep
  <2> QED
    BY <1>0, <2>1, <2>2, <2>3 DEF TypeOK, QInv
<1>4. CASE CancelFound(c)
  <2>1. c.op = "cancel" /\ UNCHANGED <<taskVars, transfers, installed, gateOpen>>
    BY <1>4 DEF CancelFound
  <2>2. CASE \E op \in {"flip", "drop"} :
                RequestCancel(c.id, op) /\ Continue(c, NewCall(op, c.id, NoJob))
    <3>1. PICK op \in {"flip", "drop"} :
             RequestCancel(c.id, op) /\ Continue(c, NewCall(op, c.id, NoJob))
      BY <2>2
    <3>2. UNCHANGED <<download, finalize>>
      BY <3>1, UserKeepsSlots
    <3>3. CallsMakeSense' /\ calls' \subseteq Call
      <4>1. calls' \subseteq calls \cup {NewCall(op, c.id, NoJob)}
        BY <3>1 DEF Continue
      <4> QED
        BY <1>0, <1>1, <2>1, <4>1, NextCallKeeps
    <3>4. TypeOK' /\ TasksOwnSlots'
      BY <1>0, <2>1, <3>2, <3>3, NoTaskKeeps DEF taskVars
    <3> QED
      BY <3>3, <3>4
  <2>3. CASE CancelIgnored(c.id) /\ End(c) /\ UNCHANGED queueVars
    <3>1. calls' \subseteq calls
      BY <2>3 DEF End
    <3>2. CallsMakeSense'
      BY <3>1, SameCallsKeep
    <3>3. TypeOK' /\ TasksOwnSlots'
      BY <1>0, <2>1, <2>3, <3>1, NoTaskKeeps DEF taskVars, queueVars
    <3> QED
      BY <3>2, <3>3
  <2> QED
    BY <1>4, <2>2, <2>3 DEF CancelFound
<1>5. CASE FlipFlag(c) \/ DropPlan(c)
  <2>1. /\ calls' \subseteq calls
        /\ UNCHANGED <<queueVars, dl, fin, transfers, installed, gateOpen>>
        /\ pending' \subseteq Ids /\ flag' \in [Ids -> {"none", "clear", "set"}]
    BY <1>0, <1>5 DEF FlipFlag, DropPlan, End
  <2>2. CallsMakeSense'
    BY <2>1, SameCallsKeep
  <2>3. TypeOK' /\ TasksOwnSlots'
    BY <1>0, <2>1, NoTaskKeeps DEF queueVars
  <2> QED
    BY <2>2, <2>3
<1>6. ASSUME Reinstall(c) PROVE CallsMakeSense' /\ calls' \subseteq Call
  <2>1. CASE c.job # NoJob /\ Plannable(c.job)
    <3>1. calls' \subseteq calls \cup {NewCall("admit", NoId, c.job)} /\ c.job \in Jobs
      BY <1>1, <1>6, <2>1 DEF Reinstall, Continue
    <3> QED
      BY <1>0, <3>1, NextCallKeeps
  <2>2. CASE ~(c.job # NoJob /\ Plannable(c.job))
    <3>1. calls' \subseteq calls
      BY <1>6, <2>2 DEF Reinstall, End
    <3> QED
      BY <1>0, <3>1, SameCallsKeep
  <2> QED
    BY <2>1, <2>2
<1>7. CASE RetryDismiss(c)
  <2>1. c.op = "dismiss" /\ UNCHANGED <<taskVars, transfers, installed, gateOpen>>
    BY <1>7 DEF RetryDismiss
  <2>2. CASE Dismiss(c.id) /\ Continue(c, NewCall("unstash", c.id, c.job))
    <3>1. UNCHANGED <<download, finalize>>
      BY <2>2, UserKeepsSlots
    <3>2. calls' \subseteq calls \cup {NewCall("unstash", c.id, c.job)}
      BY <2>2 DEF Continue
    <3>3. CallsMakeSense' /\ calls' \subseteq Call
      BY <1>0, <1>1, <2>1, <3>2, NextCallKeeps
    <3>4. TypeOK' /\ TasksOwnSlots'
      BY <1>0, <2>1, <3>1, <3>3, NoTaskKeeps DEF taskVars
    <3> QED
      BY <3>3, <3>4
  <2>3. CASE ~Dismissable(c.id) /\ Reinstall(c) /\ UNCHANGED queueVars
    <3>1. TypeOK' /\ TasksOwnSlots'
      BY <1>0, <1>6, <2>1, <2>3, NoTaskKeeps DEF taskVars, queueVars
    <3> QED
      BY <1>6, <2>3, <3>1
  <2> QED
    BY <1>7, <2>2, <2>3 DEF RetryDismiss
<1>8. CASE Unstash(c)
  <2>1. /\ c.op = "unstash" /\ pending' \subseteq Ids
        /\ calls' \subseteq calls \cup {NewCall("unflag", c.id, c.job)}
        /\ UNCHANGED <<queueVars, flag, dl, fin, transfers, installed, gateOpen>>
    BY <1>0, <1>8 DEF Unstash, Continue
  <2>2. CallsMakeSense' /\ calls' \subseteq Call
    BY <1>0, <1>1, <2>1, NextCallKeeps
  <2>3. TypeOK' /\ TasksOwnSlots'
    BY <1>0, <2>1, <2>2, NoTaskKeeps DEF queueVars
  <2> QED
    BY <2>2, <2>3
<1>9. CASE Unflag(c)
  <2>1. /\ Reinstall(c) /\ flag' \in [Ids -> {"none", "clear", "set"}]
        /\ UNCHANGED <<queueVars, pending, dl, fin, transfers, installed, gateOpen>>
    BY <1>0, <1>9 DEF Unflag
  <2>2. TypeOK' /\ TasksOwnSlots'
    BY <1>0, <1>6, <2>1, NoTaskKeeps DEF queueVars
  <2> QED
    BY <1>6, <2>1, <2>2
<1> QED
  BY <1>2, <1>3, <1>4, <1>5, <1>7, <1>8, <1>9 DEF CallStep

LEMMA UserCallKeeps ==
    ASSUME SInv, UserCall, QInv', [QNext]_queueVars
    PROVE  TypeOK' /\ TasksOwnSlots' /\ CallsMakeSense'
<1> USE DEF SInv
<1>0. /\ dl \in [Ids -> DlTask] /\ fin \in [Ids -> FinTask]
      /\ pending \subseteq Ids /\ calls \subseteq Call /\ transfers \subseteq Ids
      /\ flag \in [Ids -> {"none", "clear", "set"}]
      /\ installed \subseteq Roms /\ gateOpen \in BOOLEAN
  BY DEF TypeOK
<1>1. ASSUME NEW op \in {"admit", "cancel", "flip", "drop", "dismiss", "unstash", "unflag"},
             NEW id \in Ids \cup {NoId}, NEW job \in Jobs \cup {NoJob},
             op = "admit" => job \in Jobs, op # "admit" => id \in 1 .. nextId,
             Begin(NewCall(op, id, job)),
             UNCHANGED <<download, finalize, taskVars, transfers, installed, gateOpen>>
      PROVE  TypeOK' /\ TasksOwnSlots' /\ CallsMakeSense'
  <2>1. calls' \subseteq calls \cup {NewCall(op, id, job)}
    BY <1>1 DEF Begin
  <2>2. CallsMakeSense' /\ calls' \subseteq Call
    BY <1>0, <1>1, <2>1, NextCallKeeps
  <2>3. TypeOK' /\ TasksOwnSlots'
    BY <1>0, <1>1, <2>2, NoTaskKeeps DEF taskVars
  <2> QED
    BY <2>2, <2>3
<1>2. ASSUME NEW job \in Requests, RequestInstall(job)
      PROVE  TypeOK' /\ TasksOwnSlots' /\ CallsMakeSense'
  <2>1. job \in Jobs
    BY ServiceAssumption
  <2> QED
    BY <1>1, <1>2, <2>1 DEF RequestInstall, queueVars
<1>3. DOMAIN entry \subseteq 1 .. nextId /\ NoJob \in Jobs \cup {NoJob}
  BY DEF QInv, QTypeOK
<1>4. ASSUME NEW id \in Ids, Cancel(id)
      PROVE  TypeOK' /\ TasksOwnSlots' /\ CallsMakeSense'
  <2>1. PICK op \in {"flip", "drop"} :
           RequestCancel(id, op) /\ Begin(NewCall(op, id, NoJob))
    BY <1>4 DEF Cancel
  <2>2. id \in DOMAIN entry
    <3>1. CASE CancelActive(id)
      BY <3>1 DEF CancelActive, QInv, SlotsMatchRows, Ids, NoId
    <3>2. CASE CancelQueued(id)
      BY <3>2, WaitingApart DEF CancelQueued
    <3> QED
      BY <2>1, <3>1, <3>2 DEF RequestCancel
  <2>3. UNCHANGED <<download, finalize>>
    BY <2>1, UserKeepsSlots
  <2> QED
    BY <1>1, <1>3, <1>4, <2>1, <2>2, <2>3 DEF Cancel
<1>5. ASSUME NEW id \in Ids, DismissRow(id)
      PROVE  TypeOK' /\ TasksOwnSlots' /\ CallsMakeSense'
  <2>1. UNCHANGED <<download, finalize>> /\ id \in DOMAIN entry
    BY <1>5, UserKeepsSlots DEF DismissRow, Dismiss, Dismissable
  <2> QED
    BY <1>1, <1>3, <1>5, <2>1 DEF DismissRow
<1>6. ASSUME NEW id \in Ids, Retry(id)
      PROVE  TypeOK' /\ TasksOwnSlots' /\ CallsMakeSense'
  <2>1. id \in DOMAIN entry /\ Replan(entry[id].job) \in Jobs
    BY <1>6, ServiceAssumption DEF Retry, Retryable
  <2> QED
    BY <1>1, <1>3, <1>6, <2>1 DEF Retry, queueVars
<1>7. ASSUME NEW rom \in Roms, CancelForRom(rom)
      PROVE  TypeOK' /\ TasksOwnSlots' /\ CallsMakeSense'
  <2>1. PICK id \in Ids : FirstLiveForRom(rom, id) /\ Begin(NewCall("cancel", id, NoJob))
    BY <1>7 DEF CancelForRom
  <2>2. id \in DOMAIN entry
    BY <2>1 DEF FirstLiveForRom
  <2> QED
    BY <1>1, <1>3, <1>7, <2>1, <2>2 DEF CancelForRom, queueVars
<1>8. ASSUME NEW rom \in Roms, Uninstall(rom)
      PROVE  TypeOK' /\ TasksOwnSlots' /\ CallsMakeSense'
  <2>1. TypeOK' /\ TasksOwnSlots'
    BY <1>0, <1>8, NoTaskKeeps DEF Uninstall, queueVars, taskVars
  <2> QED
    BY <1>8, <2>1, SameCallsKeep DEF Uninstall
<1> QED
  BY <1>2, <1>4, <1>5, <1>6, <1>7, <1>8 DEF UserCall

LEMMA OthersKeep ==
    ASSUME SInv, Transfer \/ Mover \/ UNCHANGED vars,
           QInv', [QNext]_queueVars
    PROVE  TypeOK' /\ TasksOwnSlots' /\ CallsMakeSense'
<1> USE DEF SInv
<1>1. CallsMakeSense'
  <2>1. calls' = calls
    BY MoverTouches DEF Transfer, BeginTransfer, EndTransfer, vars
  <2> QED
    BY <2>1, SameCallsKeep
<1>2. UNCHANGED <<download, finalize, pending, flag, dl, fin, installed>>
  BY MoverTouches DEF Transfer, BeginTransfer, AdmitExternal, EndTransfer,
                      FinishExternal, vars, queueVars, taskVars
<1>3. transfers' \subseteq Ids /\ gateOpen' \in BOOLEAN
  <2>1. CASE BeginTransfer
    <3>1. nextId + 1 \in Ids
      BY <2>1, BoundsAssumption DEF BeginTransfer, AdmitExternal, Push, QInv, QTypeOK, Ids
    <3> QED
      BY <2>1, <3>1 DEF BeginTransfer, TypeOK
  <2>2. CASE ~BeginTransfer
    BY <2>2, MoverTouches DEF Transfer, EndTransfer, vars, TypeOK
  <2> QED
    BY <2>1, <2>2
<1>4. calls' = calls
  BY MoverTouches DEF Transfer, BeginTransfer, EndTransfer, vars
<1> QED
  BY <1>1, <1>2, <1>3, <1>4 DEF QInv, TypeOK, TasksOwnSlots, OwnsDownload, OwnsFinalize

LEMMA StepKeeps == SInv /\ [Next]_vars => SInv'
<1> SUFFICES ASSUME SInv, [Next]_vars PROVE SInv'
  OBVIOUS
<1>1. [QNext]_queueVars
  BY ServiceStepsQueue
<1>2. QInv'
  BY <1>1, QStepKeeps DEF SInv
<1>3. ASSUME NEW id \in Ids, DownloadTask(id) \/ FinalizeTask(id) PROVE SInv'
  <2>1. TypeOK' /\ TasksOwnSlots'
    BY <1>2, <1>3, DownloadTaskKeeps, FinalizeTaskKeeps
  <2>2. calls' = calls
    BY <1>3 DEF DownloadTask, RegisterFlag, RecheckCancel, WorkerEnds, UnregisterFlag,
       ReadInstalled, RecordDownload, PumpAfterDownload, FinalizeTask, FinalizeBase,
       QueueContent, ContentQueued, ReadRow, Merge, FinalizeEmulator, FinalizeFails,
       RecordFinalize, PumpAfterFinalize
  <2>3. CallsMakeSense'
    BY <1>1, <2>2, SameCallsKeep DEF SInv
  <2> QED
    BY <1>2, <2>1, <2>3 DEF SInv
<1>4. CASE \E c \in calls : CallStep(c)
  BY <1>1, <1>2, <1>4, CallKeeps DEF SInv
<1>5. CASE UserCall
  BY <1>1, <1>2, <1>5, UserCallKeeps DEF SInv
<1>6. CASE Transfer \/ Mover \/ UNCHANGED vars
  BY <1>1, <1>2, <1>6, OthersKeep DEF SInv
<1> QED
  BY <1>3, <1>4, <1>5, <1>6 DEF Next, ServiceNext

LEMMA InitInv == Init => SInv
<1> SUFFICES ASSUME Init PROVE SInv
  OBVIOUS
<1>1. QInv
  BY QInitInv DEF Init
<1>2. << >> \in Seq(Jobs)
  BY EmptySeq
<1>3. TypeOK
  BY <1>1, <1>2, ServiceAssumption
  DEF Init, TypeOK, QInv, DlTask, FinTask, IdleDl, IdleFin
<1>4. TasksOwnSlots
  BY DEF Init, QInit, TasksOwnSlots, OwnsDownload, OwnsFinalize, IdleDl, IdleFin,
         Ids, NoId
<1>5. CallsMakeSense
  BY DEF Init, CallsMakeSense
<1> QED
  BY <1>1, <1>3, <1>4, <1>5 DEF SInv

-----------------------------------------------------------------------------
(* The results.                                                            *)

\* The inductive invariant of the service.
THEOREM ServiceInvariant == Spec => []SInv
  BY InitInv, StepKeeps, PTL DEF Spec

\* The service uses the queue by its operations only: everything proved of
\* QSpec holds while its tasks and calls run.
THEOREM ServiceImplementsQueue == Spec => QSpec
<1>1. Init => QInit
  BY DEF Init
<1> QED
  BY <1>1, ServiceStepsQueue, ServiceInvariant, PTL DEF Spec, QSpec

\* Every part of the service's state keeps its type.
THEOREM ServiceTypes == Spec => []TypeOK
  BY ServiceInvariant, PTL DEF SInv

\* A taken slot always has the one task that will free it, and no task works
\* for a slot it does not own (mod.rs:2438, 2475).
THEOREM EverySlotHasItsTask == Spec => []TasksOwnSlots
  BY ServiceInvariant, PTL DEF SInv

-----------------------------------------------------------------------------
(* No wake-up is lost.                                                     *)

\* Taking an id out of an empty FIFO leaves it empty.
LEMMA NothingToUnqueue ==
    ASSUME NEW id, RemoveFirst(waiting, id) # << >>
    PROVE  waiting # << >>
  BY DEF RemoveFirst

\* An admission leaves the pump to whoever had it.
LEMMA AdmissionKeepsPump ==
    ASSUME SInv, PumpOnTheWay, NEW job \in Jobs, Admission(job),
           \A id \in Ids : FinAt(id, "pump") => FinAt(id, "pump")'
    PROVE  PumpOnTheWay'
<1>1. CASE UNCHANGED <<queueVars, pending, dl>>
  BY <1>1 DEF PumpOnTheWay, SlotsFree, queueVars, DlAt
<1>2. CASE AdmitStart(job)
  BY <1>2, BoundsAssumption
  DEF AdmitStart, Push, PumpOnTheWay, SlotsFree, NoId, SInv, QInv, QTypeOK
<1>3. CASE AdmitQueued(job)
  BY <1>3 DEF AdmitQueued, PumpOnTheWay, SlotsFree
<1> QED
  BY <1>1, <1>2, <1>3 DEF Admission, AdmitDuplicate

LEMMA PumpStartsTakesSlot ==
    ASSUME SInv, PumpStarts PROVE PumpOnTheWay'
<1>1. waiting \in Seq(Ids) /\ waiting # << >> /\ download' = Head(waiting)
  BY DEF PumpStarts, NextReady, Ready, SInv, QInv, QTypeOK
<1>2. Head(waiting) \in Ids
  BY <1>1, HeadTailProperties
<1> QED
  BY <1>1, <1>2 DEF PumpOnTheWay, SlotsFree, Ids, NoId

LEMMA PumpKeeps == SInv /\ PumpOnTheWay /\ [Next]_vars => PumpOnTheWay'
<1> SUFFICES ASSUME SInv, PumpOnTheWay, [Next]_vars PROVE PumpOnTheWay'
  OBVIOUS
<1>0. dl \in [Ids -> DlTask] /\ fin \in [Ids -> FinTask]
  BY DEF SInv, TypeOK
\* No pump is dropped, no slot freed, nothing new waits.
<1>1. ASSUME \A id \in Ids : DlAt(id, "pump") => DlAt(id, "pump")',
             \A id \in Ids : FinAt(id, "pump") => FinAt(id, "pump")',
             UNCHANGED <<download, finalize>>,
             waiting' # << >> => waiting # << >>
      PROVE  PumpOnTheWay'
  BY <1>1 DEF PumpOnTheWay, SlotsFree
<1>2. ASSUME NEW id \in Ids, DownloadTask(id) PROVE PumpOnTheWay'
  <2>1. CASE \/ RegisterFlag(id) \/ RecheckCancel(id) \/ UnregisterFlag(id)
             \/ \E outcome \in {"ok", "cancelled", "failed", "panic"} : WorkerEnds(id, outcome)
             \/ ReadInstalled(id)
    <3>1. UNCHANGED <<queueVars, fin>> /\ ~DlAt(id, "pump")
      BY <2>1 DEF RegisterFlag, RecheckCancel, UnregisterFlag, WorkerEnds,
                  ReadInstalled, DlAt
    <3>2. \A o \in Ids : o # id => dl'[o] = dl[o]
      BY <1>0, <2>1 DEF RegisterFlag, RecheckCancel, UnregisterFlag, WorkerEnds,
                        ReadInstalled, DlGoto
    <3> QED
      BY <1>1, <3>1, <3>2 DEF queueVars, DlAt, FinAt
  <2>2. CASE RecordDownload(id)
    <3>1. dl'[id].pc = "pump"
      BY <1>0, <2>2 DEF RecordDownload, IdleDl, DlTask
    <3> QED
      BY <3>1 DEF PumpOnTheWay, DlAt
  <2>3. CASE PumpAfterDownload(id)
    <3>1. CASE PumpStarts
      BY <3>1, PumpStartsTakesSlot
    <3>2. CASE PumpLoses /\ UNCHANGED dl
      BY <2>3, <3>2 DEF PumpAfterDownload, PumpOnTheWay, DlAt
    <3>3. CASE ~Ready /\ UNCHANGED queueVars
      BY <3>3 DEF Ready, PumpOnTheWay, SlotsFree, queueVars
    <3> QED
      BY <2>3, <3>1, <3>2, <3>3 DEF PumpAfterDownload
  <2> QED
    BY <1>2, <2>1, <2>2, <2>3 DEF DownloadTask
<1>3. ASSUME NEW id \in Ids, FinalizeTask(id) PROVE PumpOnTheWay'
  <2>0. ASSUME NEW pc, NEW outcome, NEW left, FinGoto(id, pc, outcome, left),
               ~FinAt(id, "pump")
        PROVE  \A o \in Ids : FinAt(o, "pump") => FinAt(o, "pump")'
    BY <1>0, <2>0 DEF FinGoto, FinAt
  <2>1. CASE FinalizeBase(id) \/ ContentQueued(id) \/ ReadRow(id) \/ Merge(id)
             \/ FinalizeEmulator(id) \/ FinalizeFails(id)
    <3>1. UNCHANGED <<queueVars, dl>> /\ ~FinAt(id, "pump")
      BY <2>1 DEF FinalizeBase, ContentQueued, ReadRow, Merge, FinalizeEmulator,
                  FinalizeFails, FinAt
    <3>2. \E pc, outcome, left : FinGoto(id, pc, outcome, left)
      BY <2>1 DEF FinalizeBase, ContentQueued, ReadRow, Merge, FinalizeEmulator,
                  FinalizeFails
    <3>3. \A o \in Ids : FinAt(o, "pump") => FinAt(o, "pump")'
      BY <2>0, <3>1, <3>2
    <3> QED
      BY <1>1, <3>1, <3>3 DEF queueVars, DlAt
  <2>2. CASE QueueContent(id)
    <3>1. fin[id].left \in Seq(Jobs) /\ fin[id].left # << >>
      BY <1>0, <2>2 DEF QueueContent, FinTask
    <3>2. Head(fin[id].left) \in Jobs
      BY <3>1, HeadTailProperties
    <3>3. \A o \in Ids : FinAt(o, "pump") => FinAt(o, "pump")'
      BY <2>0, <2>2 DEF QueueContent, FinAt
    <3> QED
      BY <2>2, <3>2, <3>3, AdmissionKeepsPump DEF QueueContent
  <2>3. CASE RecordFinalize(id)
    <3>1. fin'[id].pc = "pump"
      BY <1>0, <2>3 DEF RecordFinalize, FinGoto
    <3> QED
      BY <3>1 DEF PumpOnTheWay, FinAt
  <2>4. CASE PumpAfterFinalize(id)
    <3>1. CASE PumpStarts
      BY <3>1, PumpStartsTakesSlot
    <3>2. CASE PumpLoses /\ UNCHANGED <<dl, fin>>
      BY <2>4, <3>2 DEF PumpAfterFinalize, PumpOnTheWay, FinAt
    <3>3. CASE ~Ready /\ UNCHANGED queueVars
      BY <3>3 DEF Ready, PumpOnTheWay, SlotsFree, queueVars
    <3> QED
      BY <2>4, <3>1, <3>2, <3>3 DEF PumpAfterFinalize
  <2> QED
    BY <1>3, <2>1, <2>2, <2>3, <2>4 DEF FinalizeTask
\* Calls, transfers and the gate.
<1>4. ASSUME UNCHANGED <<dl, fin, download, finalize>>,
             \/ waiting' = waiting
             \/ \E id \in Ids : waiting' = RemoveFirst(waiting, id)
      PROVE  PumpOnTheWay'
  BY <1>1, <1>4, NothingToUnqueue DEF DlAt, FinAt
<1>5. ASSUME NEW id, NEW op, RequestCancel(id, op) \/ Dismiss(id)
      PROVE  /\ UNCHANGED <<download, finalize>>
             /\ waiting' = waiting \/ waiting' = RemoveFirst(waiting, id)
  BY <1>5 DEF RequestCancel, CancelActive, CancelQueued, Dismiss
<1>6. ASSUME NEW c \in calls, CallStep(c) PROVE PumpOnTheWay'
  <2>1. c.op # "admit" => c.id \in Ids
    BY BoundsAssumption DEF SInv, CallsMakeSense, QInv, QTypeOK, Ids
  <2>2. CASE AdmitPlanned(c)
    <3>1. c.job \in Jobs /\ Admission(c.job) /\ UNCHANGED fin
      BY <2>2 DEF AdmitPlanned, SInv, CallsMakeSense
    <3> QED
      BY <3>1, AdmissionKeepsPump DEF FinAt
  <2>3. CASE PlanFails(c) \/ FlipFlag(c) \/ DropPlan(c) \/ Unstash(c) \/ Unflag(c)
    BY <1>4, <2>3 DEF PlanFails, FlipFlag, DropPlan, Unstash, Unflag, queueVars, taskVars
  <2>4. CASE CancelFound(c)
    BY <1>4, <1>5, <2>1, <2>4 DEF CancelFound, queueVars, taskVars
  <2>5. CASE RetryDismiss(c)
    BY <1>4, <1>5, <2>1, <2>5 DEF RetryDismiss, queueVars, taskVars
  <2> QED
    BY <1>6, <2>2, <2>3, <2>4, <2>5 DEF CallStep
<1>7. CASE UserCall
  <2>1. ASSUME NEW id \in Ids, Cancel(id) \/ DismissRow(id) PROVE PumpOnTheWay'
    BY <1>4, <1>5, <2>1 DEF Cancel, DismissRow, taskVars
  <2>2. CASE ~\E id \in Ids : Cancel(id) \/ DismissRow(id)
    BY <1>4, <1>7, <2>2 DEF UserCall, RequestInstall, Retry, CancelForRom, Uninstall,
                            queueVars, taskVars
  <2> QED
    BY <2>1, <2>2
<1>8. CASE Transfer \/ Mover \/ UNCHANGED vars
  BY <1>4, <1>8, MoverTouches
  DEF Transfer, BeginTransfer, AdmitExternal, EndTransfer, FinishExternal,
      vars, queueVars, taskVars
<1> QED
  BY <1>2, <1>3, <1>6, <1>7, <1>8 DEF Next, ServiceNext

\* While something waits and nothing runs, a task is about to pump
\* (mod.rs:2584): only the end of a task pumps, and that is enough.
THEOREM NoLostWakeup == Spec => []PumpOnTheWay
<1>1. Init => PumpOnTheWay
  BY DEF Init, QInit, PumpOnTheWay
<1> QED
  BY <1>1, PumpKeeps, ServiceInvariant, PTL DEF Spec

-----------------------------------------------------------------------------
(* No plan is lost and none is stranded.                                   *)

Dropping(c) == c.op \in {"drop", "unstash"}

\* The call that drops a plan took its id out of the FIFO before, and ids do
\* not come back.
TakenOut == \A c \in calls : Dropping(c) => c.id \notin WaitingIds

PInv == PlansMatchWaiting /\ TakenOut

\* Nothing waits more or less, no plan comes or goes, no call that drops a
\* plan begins or ends.
LEMMA PlansUntouched ==
    ASSUME PInv, UNCHANGED <<waiting, pending>>,
           \A c \in calls : Dropping(c) => c \in calls',
           \A c \in calls' : Dropping(c) => c \in calls
    PROVE  PInv'
  BY DEF PInv, PlansMatchWaiting, TakenOut, WaitingIds, Dropping

\* An id leaves the FIFO and a call begins that will drop its plan.
LEMMA PlansHandedOver ==
    ASSUME PInv, UNCHANGED pending, NEW id,
           WaitingIds' = WaitingIds \ {id},
           NEW d \in calls', Dropping(d), d.id = id,
           \A c \in calls : Dropping(c) => c \in calls',
           \A c \in calls' : c \in calls \/ c = d
    PROVE  PInv'
<1>1. PlansMatchWaiting'
  BY DEF PInv, PlansMatchWaiting, Dropping
<1>2. TakenOut'
  BY DEF PInv, TakenOut
<1> QED
  BY <1>1, <1>2 DEF PInv

\* A plan is dropped by the call that was to drop it.
LEMMA PlansDropped ==
    ASSUME PInv, UNCHANGED waiting, NEW c \in calls, Dropping(c),
           pending' = pending \ {c.id},
           \A d \in calls : Dropping(d) /\ d # c => d \in calls',
           \A d \in calls' : Dropping(d) => d \in calls
    PROVE  PInv'
<1>1. WaitingIds' = WaitingIds /\ c.id \notin WaitingIds
  BY DEF PInv, TakenOut, WaitingIds
<1>2. TakenOut'
  BY <1>1 DEF PInv, TakenOut
<1>3. WaitingIds' \subseteq pending'
  BY <1>1 DEF PInv, PlansMatchWaiting
<1>4. ASSUME NEW id \in (pending \ WaitingIds)'
      PROVE  \E d \in calls' : d.id = id /\ d.op \in {"drop", "unstash"}
  <2>1. PICK d \in calls : d.id = id /\ d.op \in {"drop", "unstash"}
    BY <1>1 DEF PInv, PlansMatchWaiting
  <2>2. id # c.id
    OBVIOUS
  <2> QED
    BY <2>1, <2>2 DEF Dropping
<1> QED
  BY <1>2, <1>3, <1>4 DEF PInv, PlansMatchWaiting

LEMMA AdmissionKeepsPlans ==
    ASSUME SInv, PInv, NEW job \in Jobs, Admission(job),
           \A c \in calls : Dropping(c) => c \in calls',
           calls' \subseteq calls
    PROVE  PInv'
<1>1. CASE UNCHANGED <<waiting, pending>>
  BY <1>1, PlansUntouched
<1>2. CASE AdmitQueued(job) /\ pending' = pending \cup {nextId + 1}
  <2> DEFINE new == nextId + 1
  <2>1. /\ \A x : x \in WaitingIds' <=> x \in WaitingIds \/ x = new
        /\ pending' = pending \cup {new}
        /\ \A c \in calls : Dropping(c) => c.id # new
    <3>1. /\ waiting \in Seq(Ids) /\ nextId \in Nat
          /\ waiting' = Append(waiting, new)
      BY <1>2, BoundsAssumption DEF AdmitQueued, SInv, QInv, QTypeOK
    <3>2. Range(Append(waiting, new)) = Range(waiting) \cup {new}
      BY <3>1, AppendProperties, LenProperties DEF Range
    <3>3. \A c \in calls : Dropping(c) => c.id # new
      BY <3>1 DEF SInv, CallsMakeSense, Dropping
    <3> QED
      BY <1>2, <3>1, <3>2, <3>3 DEF WaitingIds
  <2> HIDE DEF new
  <2>2. TakenOut'
    BY <2>1 DEF PInv, TakenOut
  <2>3. PlansMatchWaiting'
    BY <2>1 DEF PInv, PlansMatchWaiting, Dropping
  <2> QED
    BY <2>2, <2>3 DEF PInv
<1> QED
  BY <1>1, <1>2 DEF Admission, AdmitDuplicate, AdmitStart, queueVars

LEMMA PumpKeepsPlans ==
    ASSUME SInv, PInv, PumpStarts \/ PumpLoses, UNCHANGED calls
    PROVE  PInv'
<1>1. waiting \in Seq(Ids) /\ waiting # << >> /\ Ids \subseteq Int /\ Increasing(waiting)
  BY DEF PumpStarts, PumpLoses, NextReady, NextReadyLost, Ready, SInv, QInv, QTypeOK, Ids
<1>2. /\ Head(waiting) \in WaitingIds
      /\ Range(Tail(waiting)) = WaitingIds \ {Head(waiting)}
  BY <1>1, TailIncreasing DEF WaitingIds
<1>3. ~PumpLoses
  BY <1>2 DEF PumpLoses, PInv, PlansMatchWaiting
<1>4. WaitingIds' = WaitingIds \ {Head(waiting)} /\ pending' = pending \ {Head(waiting)}
  BY <1>2, <1>3 DEF PumpStarts, NextReady, WaitingIds
<1> QED
  BY <1>4 DEF PInv, PlansMatchWaiting, TakenOut

LEMMA UnqueueKeepsPlans ==
    ASSUME SInv, PInv, NEW id \in Ids, CancelQueued(id) \/ Dismiss(id), UNCHANGED pending,
           NEW d \in calls', Dropping(d), d.id = id,
           \A c \in calls : Dropping(c) => c \in calls',
           \A c \in calls' : c \in calls \/ c = d
    PROVE  PInv'
<1>1. waiting' = RemoveFirst(waiting, id)
  BY DEF CancelQueued, Dismiss
<1>2. WaitingIds' = WaitingIds \ {id}
  BY <1>1, Unqueue DEF SInv, WaitingIds
<1> QED
  BY <1>2, PlansHandedOver

LEMMA PlansKeep == SInv /\ PInv /\ [Next]_vars => PInv'
<1> SUFFICES ASSUME SInv, PInv, [Next]_vars PROVE PInv'
  OBVIOUS
<1>1. ASSUME NEW id \in Ids, DownloadTask(id) PROVE PInv'
  <2>1. UNCHANGED calls
    BY <1>1 DEF DownloadTask, RegisterFlag, RecheckCancel, WorkerEnds, UnregisterFlag,
       ReadInstalled, RecordDownload, PumpAfterDownload
  <2>2. CASE PumpAfterDownload(id)
    <3>1. CASE PumpStarts \/ PumpLoses
      BY <2>1, <3>1, PumpKeepsPlans
    <3>2. CASE ~(PumpStarts \/ PumpLoses)
      BY <2>1, <2>2, <3>2, PlansUntouched DEF PumpAfterDownload, queueVars
    <3> QED
      BY <3>1, <3>2
  <2>3. CASE ~PumpAfterDownload(id)
    <3>1. UNCHANGED <<waiting, pending>>
      BY <1>1, <2>3 DEF DownloadTask, RegisterFlag, RecheckCancel, WorkerEnds,
         UnregisterFlag, ReadInstalled, RecordDownload, DownloadFinished, queueVars
    <3> QED
      BY <2>1, <3>1, PlansUntouched
  <2> QED
    BY <2>2, <2>3
<1>2. ASSUME NEW id \in Ids, FinalizeTask(id) PROVE PInv'
  <2>1. UNCHANGED calls
    BY <1>2 DEF FinalizeTask, FinalizeBase, QueueContent, ContentQueued, ReadRow, Merge,
       FinalizeEmulator, FinalizeFails, RecordFinalize, PumpAfterFinalize
  <2>2. CASE PumpAfterFinalize(id)
    <3>1. CASE PumpStarts \/ PumpLoses
      BY <2>1, <3>1, PumpKeepsPlans
    <3>2. CASE ~(PumpStarts \/ PumpLoses)
      BY <2>1, <2>2, <3>2, PlansUntouched DEF PumpAfterFinalize, queueVars
    <3> QED
      BY <3>1, <3>2
  <2>3. CASE QueueContent(id)
    <3>1. fin[id].left \in Seq(Jobs) /\ fin[id].left # << >>
      BY <2>3 DEF QueueContent, SInv, TypeOK, FinTask
    <3>2. Head(fin[id].left) \in Jobs
      BY <3>1, HeadTailProperties
    <3> QED
      BY <2>1, <2>3, <3>2, AdmissionKeepsPlans DEF QueueContent
  <2>4. CASE ~(PumpAfterFinalize(id) \/ QueueContent(id))
    <3>1. UNCHANGED <<waiting, pending>>
      BY <1>2, <2>4 DEF FinalizeTask, FinalizeBase, ContentQueued, ReadRow, Merge,
         FinalizeEmulator, FinalizeFails, RecordFinalize, FinalizeFinished, queueVars
    <3> QED
      BY <2>1, <3>1, PlansUntouched
  <2> QED
    BY <2>2, <2>3, <2>4
<1>3. ASSUME NEW c \in calls, CallStep(c) PROVE PInv'
  <2>1. c.op # "admit" => c.id \in Ids
    BY BoundsAssumption DEF SInv, CallsMakeSense, QInv, QTypeOK, Ids
  <2>2. CASE AdmitPlanned(c)
    <3>1. c.job \in Jobs /\ Admission(c.job) /\ c.op = "admit" /\ End(c)
      BY <2>2 DEF AdmitPlanned, SInv, CallsMakeSense
    <3> QED
      BY <3>1, AdmissionKeepsPlans DEF End, Dropping
  <2>3. CASE PlanFails(c) \/ FlipFlag(c)
    BY <2>3, PlansUntouched DEF PlanFails, FlipFlag, End, Dropping, queueVars, taskVars
  <2>4. CASE DropPlan(c)
    BY <2>4, PlansDropped DEF DropPlan, End, Dropping, queueVars
  <2>5. CASE Unstash(c)
    BY <2>5, PlansDropped DEF Unstash, Continue, NewCall, Dropping, queueVars
  <2>6. ASSUME ~Dropping(c), Reinstall(c), UNCHANGED <<waiting, pending>> PROVE PInv'
    BY <2>6, PlansUntouched DEF Reinstall, Continue, End, NewCall, Dropping
  <2>7. CASE Unflag(c)
    BY <2>6, <2>7 DEF Unflag, Dropping, queueVars
  <2>8. CASE CancelFound(c)
    <3>1. c.op = "cancel" /\ UNCHANGED pending
      BY <2>8 DEF CancelFound, taskVars
    <3>2. CASE CancelActive(c.id) /\ Continue(c, NewCall("flip", c.id, NoJob))
      BY <3>1, <3>2, PlansUntouched DEF CancelActive, Continue, NewCall, Dropping
    <3>3. CASE CancelQueued(c.id) /\ Continue(c, NewCall("drop", c.id, NoJob))
      <4> DEFINE d == NewCall("drop", c.id, NoJob)
      <4>1. /\ d \in calls' /\ Dropping(d) /\ d.id = c.id
            /\ \A o \in calls : Dropping(o) => o \in calls'
            /\ \A o \in calls' : o \in calls \/ o = d
        BY <3>1, <3>3 DEF Continue, NewCall, Dropping
      <4> HIDE DEF d
      <4> QED
        BY <2>1, <3>1, <3>3, <4>1, UnqueueKeepsPlans
    <3>4. CASE CancelIgnored(c.id) /\ End(c) /\ UNCHANGED queueVars
      BY <3>1, <3>4, PlansUntouched DEF End, Dropping, queueVars
    <3> QED
      BY <2>8, <3>2, <3>3, <3>4 DEF CancelFound, RequestCancel
  <2>9. CASE RetryDismiss(c)
    <3>1. c.op = "dismiss" /\ UNCHANGED pending
      BY <2>9 DEF RetryDismiss, taskVars
    <3>2. CASE Dismiss(c.id) /\ Continue(c, NewCall("unstash", c.id, c.job))
      <4> DEFINE d == NewCall("unstash", c.id, c.job)
      <4>1. /\ d \in calls' /\ Dropping(d) /\ d.id = c.id
            /\ \A o \in calls : Dropping(o) => o \in calls'
            /\ \A o \in calls' : o \in calls \/ o = d
        BY <3>1, <3>2 DEF Continue, NewCall, Dropping
      <4> HIDE DEF d
      <4> QED
        BY <2>1, <3>1, <3>2, <4>1, UnqueueKeepsPlans
    <3>3. CASE Reinstall(c) /\ UNCHANGED queueVars
      BY <2>6, <3>1, <3>3 DEF Dropping, queueVars
    <3> QED
      BY <2>9, <3>2, <3>3 DEF RetryDismiss
  <2> QED
    BY <1>3, <2>2, <2>3, <2>4, <2>5, <2>7, <2>8, <2>9 DEF CallStep
<1>4. CASE UserCall
  <2>1. ASSUME NEW op, NEW id, NEW job, ~Dropping(NewCall(op, id, job)),
               Begin(NewCall(op, id, job)), UNCHANGED <<waiting, pending>>
        PROVE  PInv'
    BY <2>1, PlansUntouched DEF Begin
  <2>2. ASSUME NEW id \in Ids, Cancel(id) PROVE PInv'
    <3>1. CASE CancelActive(id) /\ Begin(NewCall("flip", id, NoJob))
      BY <2>1, <2>2, <3>1 DEF CancelActive, Cancel, taskVars, NewCall, Dropping
    <3>2. CASE CancelQueued(id) /\ Begin(NewCall("drop", id, NoJob))
      <4> DEFINE d == NewCall("drop", id, NoJob)
      <4>1. /\ d \in calls' /\ Dropping(d) /\ d.id = id
            /\ \A o \in calls : Dropping(o) => o \in calls'
            /\ \A o \in calls' : o \in calls \/ o = d
        BY <3>2 DEF Begin, NewCall, Dropping
      <4> HIDE DEF d
      <4> QED
        BY <2>2, <3>2, <4>1, UnqueueKeepsPlans DEF Cancel, taskVars
    <3> QED
      BY <2>2, <3>1, <3>2 DEF Cancel, RequestCancel
  <2>3. ASSUME NEW id \in Ids, DismissRow(id) PROVE PInv'
    <3> DEFINE d == NewCall("unstash", id, NoJob)
    <3>1. /\ d \in calls' /\ Dropping(d) /\ d.id = id
          /\ \A o \in calls : Dropping(o) => o \in calls'
          /\ \A o \in calls' : o \in calls \/ o = d
      BY <2>3 DEF DismissRow, Begin, NewCall, Dropping
    <3> HIDE DEF d
    <3> QED
      BY <2>3, <3>1, UnqueueKeepsPlans DEF DismissRow, taskVars
  <2>4. CASE \/ \E job \in Requests : RequestInstall(job)
             \/ \E id \in Ids : Retry(id)
             \/ \E rom \in Roms : CancelForRom(rom)
    BY <2>1, <2>4 DEF RequestInstall, Retry, CancelForRom, queueVars, taskVars,
                      NewCall, Dropping
  <2>5. ASSUME NEW rom \in Roms, Uninstall(rom) PROVE PInv'
    BY <2>5, PlansUntouched DEF Uninstall, queueVars, taskVars
  <2> QED
    BY <1>4, <2>2, <2>3, <2>4, <2>5 DEF UserCall
<1>5. CASE Transfer \/ Mover \/ UNCHANGED vars
  BY <1>5, PlansUntouched, MoverTouches
  DEF Transfer, BeginTransfer, AdmitExternal, EndTransfer, FinishExternal,
      vars, queueVars, taskVars
<1> QED
  BY <1>1, <1>2, <1>3, <1>4, <1>5 DEF Next, ServiceNext

\* Every waiting id has its plan, and a plan that no longer waits is about to
\* be dropped (mod.rs:2371, 2579-2583).
THEOREM PlansAreKept == Spec => []PlansMatchWaiting
<1>1. Init => PInv
  <2> SUFFICES ASSUME Init PROVE PInv
    OBVIOUS
  <2>1. pending = {} /\ calls = {} /\ waiting = << >> /\ DOMAIN waiting = {}
    BY DEF Init, QInit
  <2> QED
    BY <2>1 DEF PInv, PlansMatchWaiting, TakenOut, WaitingIds, Range
<1>2. PInv => PlansMatchWaiting
  BY DEF PInv
<1> QED
  BY <1>1, <1>2, PlansKeep, ServiceInvariant, PTL DEF Spec

-----------------------------------------------------------------------------
(* No cancel is lost.                                                      *)

\* A download task between registering its flag and taking it away has one.
FlagsKnown ==
    \A id \in Ids : dl[id].pc \in {"recheck", "download"} => flag[id] # "none"

\* The row of a dismissed id is gone, so no task of it is left to lose its
\* flag.
RowsGone ==
    \A c \in calls : c.op \in {"unstash", "unflag"} => c.id \notin DOMAIN entry

CInv == CancelReachesWorker /\ FlagsKnown /\ RowsGone

\* What a step of the queue does to the rows, as far as cancels care: new
\* rows have new ids, and only a cancel of the slot owner says "Cancelling".
QuietRows ==
    \A id \in DOMAIN entry' :
        /\ id \in DOMAIN entry \/ id = nextId + 1
        /\ entry'[id].status = "Cancelling" =>
              id \in DOMAIN entry /\ entry[id].status = "Cancelling"

LEMMA StatusIsQuiet ==
    ASSUME QInv, NEW id, NEW status \in (Live \cup Terminal) \ {"Cancelling"},
           \/ entry' = Prune(SetStatus(id, status))
           \/ entry' = SetStatus(id, status)
    PROVE  QuietRows
<1>1. CASE id \in DOMAIN entry
  <2>1. CASE entry' = Prune(SetStatus(id, status))
    <3>1. /\ DOMAIN entry' \subseteq DOMAIN entry
          /\ \A o \in DOMAIN entry' :
                entry'[o].status = IF o = id THEN status ELSE entry[o].status
      BY <1>1, <2>1, StatusThenPrune DEF QInv
    <3> QED
      BY <3>1 DEF QuietRows
  <2>2. CASE entry' = SetStatus(id, status)
    <3>1. /\ DOMAIN entry' = DOMAIN entry
          /\ \A o \in DOMAIN entry' :
                entry'[o].status = IF o = id THEN status ELSE entry[o].status
      BY <1>1, <2>2, StatusOnly DEF QInv
    <3> QED
      BY <3>1 DEF QuietRows
  <2> QED
    BY <2>1, <2>2
<1>2. CASE id \notin DOMAIN entry
  BY <1>2, PruneProperties DEF SetStatus, QuietRows
<1> QED
  BY <1>1, <1>2

LEMMA OthersAreQuiet ==
    ASSUME QInv,
           \/ QAdmit \/ QRow \/ QSlot \/ UNCHANGED queueVars
           \/ \E id \in Ids : CancelQueued(id) \/ Dismiss(id)
    PROVE  QuietRows
<1>0. entry' = entry => QuietRows
  BY DEF QuietRows
<1>1. ASSUME NEW job \in Jobs \cup {ExternalJob, MoveJob},
             NEW status \in Live \ {"Cancelling"}, Push(job, status)
      PROVE  QuietRows
  <2>1. /\ nextId' = nextId + 1
        /\ DOMAIN entry' = DOMAIN entry \cup {nextId'}
        /\ entry'[nextId'] = [job |-> job, status |-> status]
        /\ \A o \in DOMAIN entry : entry'[o] = entry[o]
    BY <1>1, PushProperties DEF QInv
  <2> QED
    BY <2>1 DEF QuietRows
<1>2. CASE QAdmit
  BY <1>0, <1>1, <1>2
  DEF QAdmit, AdmitDuplicate, AdmitStart, AdmitQueued, queueVars, Live
<1>3. CASE QRow
  <2>1. CASE AdmitExternal \/ AdmitLibraryMove
    BY <1>1, <2>1 DEF AdmitExternal, AdmitLibraryMove, Live
  <2>2. ASSUME NEW id \in Ids, NEW status \in Terminal, EndLibraryMove(id, status)
        PROVE  QuietRows
    BY <1>0, <2>2, StatusIsQuiet DEF EndLibraryMove, Terminal
  <2>3. ASSUME NEW id \in Ids, NEW status \in {"Completed", "Failed"},
               FinishExternal(id, status)
        PROVE  QuietRows
    BY <1>0, <2>3, StatusIsQuiet DEF FinishExternal, Terminal
  <2>4. ASSUME NEW id \in Ids, NEW status \in {"Downloading", "Installing"},
               SetLibraryMoveCopying(id, status)
        PROVE  QuietRows
    BY <1>0, <2>4, StatusIsQuiet DEF SetLibraryMoveCopying, Live
  <2> QED
    BY <1>3, <2>1, <2>2, <2>3, <2>4 DEF QRow
<1>4. CASE QSlot
  <2>1. ASSUME NEW id \in Ids, NEW result \in {"ok", "cancelled", "failed"},
               NEW skip \in BOOLEAN, DownloadFinished(id, result, skip)
        PROVE  QuietRows
    <3>1. \/ entry' = entry
          \/ \E status \in {"Completed", "Installing", "Cancelled", "Failed"} :
                entry' = Prune(SetStatus(id, status))
      BY <2>1 DEF DownloadFinished, queueVars
    <3> QED
      BY <1>0, <3>1, StatusIsQuiet DEF Live, Terminal
  <2>2. ASSUME NEW id \in Ids, NEW result \in {"ok", "failed"},
               FinalizeFinished(id, result)
        PROVE  QuietRows
    <3>1. \/ entry' = entry
          \/ \E status \in {"Completed", "Failed"} : entry' = Prune(SetStatus(id, status))
      BY <2>2 DEF FinalizeFinished, queueVars
    <3> QED
      BY <1>0, <3>1, StatusIsQuiet DEF Terminal
  <2>3. CASE NextReady \/ NextReadyLost
    BY <2>3, StatusIsQuiet DEF NextReady, NextReadyLost, Live, Terminal
  <2> QED
    BY <1>4, <2>1, <2>2, <2>3 DEF QSlot
<1>5. ASSUME NEW id \in Ids, CancelQueued(id) PROVE QuietRows
  BY <1>5, StatusIsQuiet DEF CancelQueued, Terminal
<1>6. ASSUME NEW id \in Ids, Dismiss(id) PROVE QuietRows
  BY <1>6 DEF Dismiss, Restrict, QuietRows
<1> QED
  BY <1>0, <1>2, <1>3, <1>4, <1>5, <1>6 DEF queueVars

Working(id) == dl[id].pc \in {"recheck", "download"}

\* No flag changes, no worker comes closer to its download, no call that sets
\* a flag ends.
LEMMA CancelsUntouched ==
    ASSUME SInv, QInv', CInv, QuietRows, UNCHANGED flag,
           \A id \in Ids : Working(id)' => dl'[id].pc = dl[id].pc,
           \A c \in calls : c.op = "flip" => c \in calls',
           \A c \in calls' : c.op \in {"unstash", "unflag"} =>
              c.id \notin DOMAIN entry' \/ \E d \in calls :
                 d.id = c.id /\ d.op \in {"unstash", "unflag"}
    PROVE  CInv'
<1>1. DOMAIN entry' \subseteq Ids /\ nextId \in Nat
  BY BoundsAssumption DEF SInv, QInv, QTypeOK, Ids
<1>2. FlagsKnown'
  BY DEF CInv, FlagsKnown, Working
<1>3. CancelReachesWorker'
  BY <1>1 DEF CInv, CancelReachesWorker, QuietRows, Working, DlAt
<1>4. RowsGone'
  <2> SUFFICES ASSUME NEW d \in calls, d.op \in {"unstash", "unflag"}
               PROVE  d.id \notin DOMAIN entry'
    BY DEF RowsGone
  <2>1. d.id \notin DOMAIN entry /\ d.id \in 1 .. nextId
    BY DEF CInv, RowsGone, SInv, CallsMakeSense
  <2> QED
    BY <1>1, <2>1 DEF QuietRows
<1> QED
  BY <1>2, <1>3, <1>4 DEF CInv

\* The running download is cancelled: the call that will set the flag begins.
LEMMA CancelBegins ==
    ASSUME SInv, QInv', CInv, NEW id \in Ids, CancelActive(id), UNCHANGED <<flag, dl>>,
           \E c \in calls' : c.op = "flip" /\ c.id = id,
           \A c \in calls : c.op = "flip" => c \in calls',
           \A c \in calls' : c.op \in {"unstash", "unflag"} => c \in calls
    PROVE  CInv'
<1>1. id \in DOMAIN entry
  BY DEF CancelActive, SInv, QInv, SlotsMatchRows, Ids, NoId
<1>2. /\ DOMAIN entry' = DOMAIN entry
      /\ \A o \in DOMAIN entry' :
            entry'[o].status = IF o = id THEN "Cancelling" ELSE entry[o].status
  BY <1>1, StatusOnly DEF CancelActive, SInv, QInv, Live
<1>3. FlagsKnown' /\ RowsGone'
  BY <1>2 DEF CInv, FlagsKnown, RowsGone
<1>4. CancelReachesWorker'
  BY <1>2 DEF CInv, CancelReachesWorker, DlAt
<1> QED
  BY <1>3, <1>4 DEF CInv

LEMMA DownloadKeepsCancels ==
    ASSUME SInv, QInv', CInv, NEW id \in Ids, DownloadTask(id)
    PROVE  CInv'
<1>0. /\ dl \in [Ids -> DlTask] /\ flag \in [Ids -> {"none", "clear", "set"}]
      /\ DOMAIN entry \subseteq Ids
  BY BoundsAssumption DEF SInv, QInv, QTypeOK, TypeOK, Ids
<1>1. UNCHANGED calls
  BY DEF DownloadTask, RegisterFlag, RecheckCancel, WorkerEnds, UnregisterFlag,
     ReadInstalled, RecordDownload, PumpAfterDownload
<1>2. CASE RegisterFlag(id)
  <2>1. /\ entry' = entry /\ flag' = [flag EXCEPT ![id] = "clear"]
        /\ dl'[id].pc = "recheck" /\ \A o \in Ids : o # id => dl'[o] = dl[o]
    BY <1>0, <1>2 DEF RegisterFlag, DlGoto, queueVars
  <2>2. FlagsKnown' /\ RowsGone'
    BY <1>0, <1>1, <2>1 DEF CInv, FlagsKnown, RowsGone
  <2>3. CancelReachesWorker'
    BY <1>0, <1>1, <2>1 DEF CInv, CancelReachesWorker, DlAt
  <2> QED
    BY <2>2, <2>3 DEF CInv
<1>3. CASE RecheckCancel(id)
  <2>1. /\ entry' = entry /\ dl[id].pc = "recheck"
        /\ flag' = IF id \in DOMAIN entry /\ entry[id].status = "Cancelling"
                   THEN [flag EXCEPT ![id] = "set"] ELSE flag
        /\ dl'[id].pc = "download" /\ \A o \in Ids : o # id => dl'[o] = dl[o]
    BY <1>0, <1>3 DEF RecheckCancel, DlAt, DlGoto, queueVars
  <2>2. FlagsKnown' /\ RowsGone'
    BY <1>0, <1>1, <2>1 DEF CInv, FlagsKnown, RowsGone
  <2>3. CancelReachesWorker'
    BY <1>0, <1>1, <2>1 DEF CInv, CancelReachesWorker, DlAt
  <2> QED
    BY <2>2, <2>3 DEF CInv
<1>4. CASE UnregisterFlag(id)
  <2>1. /\ entry' = entry /\ flag' = [flag EXCEPT ![id] = "none"]
        /\ dl'[id].pc \in {"settle", "record"}
        /\ \A o \in Ids : o # id => dl'[o] = dl[o]
    BY <1>0, <1>4 DEF UnregisterFlag, DlGoto, queueVars
  <2>2. FlagsKnown' /\ RowsGone'
    BY <1>0, <1>1, <2>1 DEF CInv, FlagsKnown, RowsGone
  <2>3. CancelReachesWorker'
    BY <1>0, <1>1, <2>1 DEF CInv, CancelReachesWorker, DlAt
  <2> QED
    BY <2>2, <2>3 DEF CInv
\* The rest changes no flag and brings no task to its download.
<1>5. CASE ~(RegisterFlag(id) \/ RecheckCancel(id) \/ UnregisterFlag(id))
  <2>1. UNCHANGED flag
    BY <1>5 DEF DownloadTask, WorkerEnds, ReadInstalled, RecordDownload, PumpAfterDownload
  <2>2. \A o \in Ids : Working(o)' => dl'[o].pc = dl[o].pc
    <3>1. ASSUME NEW outcome, WorkerEnds(id, outcome)
          PROVE  \A o \in Ids : Working(o)' => dl'[o].pc = dl[o].pc
      BY <1>0, <3>1 DEF WorkerEnds, Working
    <3>2. CASE ReadInstalled(id)
      BY <1>0, <3>2 DEF ReadInstalled, Working
    <3>3. CASE RecordDownload(id)
      BY <1>0, <3>3 DEF RecordDownload, Working, IdleDl
    <3>4. CASE PumpAfterDownload(id)
      BY <1>0, <3>4 DEF PumpAfterDownload, Working, IdleDl
    <3> QED
      BY <1>5, <3>1, <3>2, <3>3, <3>4 DEF DownloadTask
  <2>3. QuietRows
    <3>1. CASE RecordDownload(id)
      <4>1. dl[id].skip \in BOOLEAN
        BY <1>0 DEF DlTask
      <4> QED
        BY <3>1, <4>1, DownloadIsQueueStep, OthersAreQuiet DEF RecordDownload, SInv
    <3>2. CASE PumpAfterDownload(id)
      BY <3>2, OthersAreQuiet DEF PumpAfterDownload, PumpStarts, PumpLoses, QSlot, SInv
    <3>3. CASE ~(RecordDownload(id) \/ PumpAfterDownload(id))
      <4>1. UNCHANGED queueVars
        BY <1>5, <3>3 DEF DownloadTask, WorkerEnds, ReadInstalled
      <4> QED
        BY <4>1, OthersAreQuiet DEF SInv
    <3> QED
      BY <3>1, <3>2, <3>3
  <2> QED
    BY <1>1, <2>1, <2>2, <2>3, CancelsUntouched
<1> QED
  BY <1>2, <1>3, <1>4, <1>5

LEMMA FinalizeKeepsCancels ==
    ASSUME SInv, QInv', CInv, NEW id \in Ids, FinalizeTask(id)
    PROVE  CInv'
<1>0. dl \in [Ids -> DlTask] /\ fin \in [Ids -> FinTask]
  BY DEF SInv, TypeOK
<1>1. UNCHANGED <<calls, flag>>
  BY DEF FinalizeTask, FinalizeBase, QueueContent, ContentQueued, ReadRow, Merge,
     FinalizeEmulator, FinalizeFails, RecordFinalize, PumpAfterFinalize
<1>2. CASE QueueContent(id)
  <2>1. fin[id].left \in Seq(Jobs) /\ fin[id].left # << >>
    BY <1>0, <1>2 DEF QueueContent, FinTask
  <2>2. Head(fin[id].left) \in Jobs /\ Admission(Head(fin[id].left))
    BY <1>2, <2>1, HeadTailProperties DEF QueueContent
  <2>3. QuietRows
    BY <2>2, AdmissionIsQueueStep, OthersAreQuiet DEF SInv
  <2>4. \A o \in Ids : Working(o)' => dl'[o].pc = dl[o].pc
    BY <1>0, <2>2 DEF Admission, Started, Working, IdleDl
  <2> QED
    BY <1>1, <2>3, <2>4, CancelsUntouched
<1>3. CASE RecordFinalize(id)
  <2>1. QuietRows
    BY <1>3, FinalizeIsQueueStep, OthersAreQuiet DEF RecordFinalize, SInv
  <2> QED
    BY <1>1, <1>3, <2>1, CancelsUntouched DEF RecordFinalize
<1>4. CASE PumpAfterFinalize(id)
  <2>1. QuietRows
    BY <1>4, OthersAreQuiet DEF PumpAfterFinalize, PumpStarts, PumpLoses, QSlot, SInv
  <2>2. \A o \in Ids : Working(o)' => dl'[o].pc = dl[o].pc
    BY <1>0, <1>4 DEF PumpAfterFinalize, Started, Working, IdleDl
  <2> QED
    BY <1>1, <2>1, <2>2, CancelsUntouched
<1>5. CASE ~(QueueContent(id) \/ RecordFinalize(id) \/ PumpAfterFinalize(id))
  <2>1. UNCHANGED <<queueVars, dl>>
    BY <1>5 DEF FinalizeTask, FinalizeBase, ContentQueued, ReadRow, Merge,
       FinalizeEmulator, FinalizeFails
  <2> QED
    BY <1>1, <2>1, OthersAreQuiet, CancelsUntouched DEF SInv
<1> QED
  BY <1>2, <1>3, <1>4, <1>5

LEMMA CallKeepsCancels ==
    ASSUME SInv, QInv', CInv, NEW c \in calls, CallStep(c)
    PROVE  CInv'
<1>0. /\ dl \in [Ids -> DlTask] /\ flag \in [Ids -> {"none", "clear", "set"}]
      /\ DOMAIN entry \subseteq Ids
      /\ c.op # "admit" => c.id \in Ids
  BY BoundsAssumption DEF SInv, CallsMakeSense, QInv, QTypeOK, TypeOK, Ids
<1>1. CASE AdmitPlanned(c)
  <2>1. /\ c.job \in Jobs /\ Admission(c.job) /\ c.op = "admit" /\ End(c)
        /\ UNCHANGED flag
    BY <1>1 DEF AdmitPlanned, SInv, CallsMakeSense
  <2>2. QuietRows
    BY <2>1, AdmissionIsQueueStep, OthersAreQuiet DEF SInv
  <2>3. \A o \in Ids : Working(o)' => dl'[o].pc = dl[o].pc
    BY <1>0, <2>1 DEF Admission, Started, Working, IdleDl
  <2> QED
    BY <2>1, <2>2, <2>3, CancelsUntouched DEF End
<1>2. CASE PlanFails(c) \/ DropPlan(c)
  <2>1. QuietRows
    BY <1>2, OthersAreQuiet DEF PlanFails, DropPlan, SInv
  <2> QED
    BY <1>2, <2>1, CancelsUntouched DEF PlanFails, DropPlan, End, taskVars
<1>3. CASE Unstash(c)
  <2>1. QuietRows /\ entry' = entry /\ c.op = "unstash"
    BY <1>3, OthersAreQuiet DEF Unstash, SInv, queueVars
  <2>2. calls' = (calls \ {c}) \cup {NewCall("unflag", c.id, c.job)}
    BY <1>3 DEF Unstash, Continue
  <2> QED
    BY <1>3, <2>1, <2>2, CancelsUntouched DEF Unstash, NewCall
<1>4. CASE FlipFlag(c)
  <2>1. /\ c.op = "flip" /\ c.id \in Ids /\ entry' = entry /\ dl' = dl
        /\ flag' = [flag EXCEPT ![c.id] = IF @ = "none" THEN "none" ELSE "set"]
        /\ calls' = calls \ {c}
    BY <1>0, <1>4 DEF FlipFlag, End, queueVars
  <2>2. FlagsKnown' /\ RowsGone'
    BY <1>0, <2>1 DEF CInv, FlagsKnown, RowsGone
  <2>3. ASSUME NEW id \in DOMAIN entry, entry[id].status = "Cancelling",
               DlAt(id, "download"), ~\E d \in calls' : d.id = id /\ d.op = "flip"
        PROVE  flag'[id] = "set"
    <3>1. CASE id = c.id
      BY <1>0, <2>1, <2>3, <3>1 DEF CInv, FlagsKnown, DlAt
    <3>2. CASE id # c.id
      BY <1>0, <2>1, <2>3, <3>2 DEF CInv, CancelReachesWorker
    <3> QED
      BY <3>1, <3>2
  <2>4. CancelReachesWorker'
    BY <2>1, <2>3 DEF CancelReachesWorker, DlAt
  <2> QED
    BY <2>2, <2>4 DEF CInv
<1>5. ASSUME Reinstall(c), c.op # "flip"
      PROVE  /\ \A d \in calls : d.op = "flip" => d \in calls'
             /\ \A d \in calls' : d \in calls \/ d.op = "admit"
  BY <1>5 DEF Reinstall, Continue, End, NewCall
<1>6. CASE Unflag(c)
  <2>1. /\ c.op = "unflag" /\ c.id \in Ids /\ entry' = entry /\ dl' = dl
        /\ flag' = [flag EXCEPT ![c.id] = "none"]
        /\ Reinstall(c)
    BY <1>0, <1>6 DEF Unflag, queueVars
  <2>2. c.id \notin DOMAIN entry /\ ~Working(c.id)
    <3>1. c.id \notin DOMAIN entry
      BY <2>1 DEF CInv, RowsGone
    <3> QED
      BY <2>1, <3>1, OwnersHaveRows DEF Working, OwnsDownload
  <2>3. FlagsKnown' /\ RowsGone'
    BY <1>0, <1>5, <2>1, <2>2 DEF CInv, FlagsKnown, RowsGone, Working
  <2>4. CancelReachesWorker'
    BY <1>0, <1>5, <2>1, <2>2 DEF CInv, CancelReachesWorker, DlAt
  <2> QED
    BY <2>3, <2>4 DEF CInv
<1>7. CASE CancelFound(c)
  <2>1. c.op = "cancel" /\ UNCHANGED <<flag, dl>>
    BY <1>7 DEF CancelFound, taskVars
  <2>2. CASE CancelActive(c.id) /\ Continue(c, NewCall("flip", c.id, NoJob))
    <3>1. calls' = (calls \ {c}) \cup {NewCall("flip", c.id, NoJob)}
      BY <2>2 DEF Continue
    <3> QED
      BY <1>0, <2>1, <2>2, <3>1, CancelBegins DEF NewCall
  <2>3. CASE CancelQueued(c.id) /\ Continue(c, NewCall("drop", c.id, NoJob))
    <3>1. QuietRows
      BY <1>0, <2>1, <2>3, OthersAreQuiet DEF SInv
    <3> QED
      BY <2>1, <2>3, <3>1, CancelsUntouched DEF Continue, NewCall
  <2>4. CASE CancelIgnored(c.id) /\ End(c) /\ UNCHANGED queueVars
    <3>1. QuietRows
      BY <2>4, OthersAreQuiet DEF SInv
    <3> QED
      BY <2>1, <2>4, <3>1, CancelsUntouched DEF End
  <2> QED
    BY <1>7, <2>2, <2>3, <2>4 DEF CancelFound, RequestCancel
<1>8. CASE RetryDismiss(c)
  <2>1. c.op = "dismiss" /\ UNCHANGED <<flag, dl>>
    BY <1>8 DEF RetryDismiss, taskVars
  <2>2. CASE Dismiss(c.id) /\ Continue(c, NewCall("unstash", c.id, c.job))
    <3>1. QuietRows /\ c.id \notin DOMAIN entry'
      BY <1>0, <2>1, <2>2, OthersAreQuiet DEF SInv, Dismiss, Restrict
    <3> QED
      BY <2>1, <2>2, <3>1, CancelsUntouched DEF Continue, NewCall
  <2>3. CASE Reinstall(c) /\ UNCHANGED queueVars
    <3>1. QuietRows
      BY <2>3, OthersAreQuiet DEF SInv
    <3> QED
      BY <1>5, <2>1, <2>3, <3>1, CancelsUntouched
  <2> QED
    BY <1>8, <2>2, <2>3 DEF RetryDismiss
<1> QED
  BY <1>1, <1>2, <1>3, <1>4, <1>6, <1>7, <1>8 DEF CallStep

LEMMA OthersKeepCancels ==
    ASSUME SInv, QInv', CInv,
           UserCall \/ Transfer \/ Mover \/ UNCHANGED vars
    PROVE  CInv'
<1>1. ASSUME NEW id \in Ids, Cancel(id) PROVE CInv'
  <2>1. CASE CancelActive(id) /\ Begin(NewCall("flip", id, NoJob))
    <3>1. calls' = calls \cup {NewCall("flip", id, NoJob)} /\ UNCHANGED <<flag, dl>>
      BY <1>1, <2>1 DEF Begin, Cancel, taskVars
    <3> QED
      BY <2>1, <3>1, CancelBegins DEF NewCall
  <2>2. CASE CancelQueued(id) /\ Begin(NewCall("drop", id, NoJob))
    <3>1. QuietRows
      BY <2>2, OthersAreQuiet DEF SInv
    <3> QED
      BY <1>1, <2>2, <3>1, CancelsUntouched DEF Begin, NewCall, Cancel, taskVars
  <2> QED
    BY <1>1, <2>1, <2>2 DEF Cancel, RequestCancel
<1>2. ASSUME NEW id \in Ids, DismissRow(id) PROVE CInv'
  <2>1. QuietRows /\ id \notin DOMAIN entry'
    BY <1>2, OthersAreQuiet DEF SInv, DismissRow, Dismiss, Restrict
  <2> QED
    BY <1>2, <2>1, CancelsUntouched DEF DismissRow, Begin, NewCall, taskVars
<1>3. ASSUME QuietRows, UNCHANGED <<flag, dl>>, calls \subseteq calls',
             \A c \in calls' : c \in calls \/ c.op \in {"admit", "dismiss", "cancel"}
      PROVE  CInv'
  BY <1>3, CancelsUntouched
<1>4. CASE \/ \E job \in Requests : RequestInstall(job)
           \/ \E id \in Ids : Retry(id)
           \/ \E rom \in Roms : CancelForRom(rom) \/ Uninstall(rom)
  <2>1. QuietRows
    BY <1>4, OthersAreQuiet DEF SInv, RequestInstall, Retry, CancelForRom, Uninstall
  <2> QED
    BY <1>3, <1>4, <2>1 DEF RequestInstall, Retry, CancelForRom, Uninstall, Begin,
                            NewCall, taskVars
<1>5. CASE Transfer \/ Mover \/ UNCHANGED vars
  <2>1. QRow \/ UNCHANGED queueVars
    BY <1>5, MoverTouches DEF Transfer, BeginTransfer, EndTransfer, vars, queueVars, QRow
  <2>2. QuietRows
    BY <2>1, OthersAreQuiet DEF SInv
  <2> QED
    BY <1>3, <1>5, <2>2, MoverTouches DEF Transfer, BeginTransfer, EndTransfer, vars,
                                          taskVars
<1> QED
  BY <1>1, <1>2, <1>4, <1>5 DEF UserCall

\* A cancel of the running download always reaches its worker, wherever it
\* lands around the registration of the flag (mod.rs:2418, 2422-2425).
THEOREM NoCancelIsLost == Spec => []CancelReachesWorker
<1>1. Init => CInv
  BY DEF Init, QInit, CInv, CancelReachesWorker, FlagsKnown, RowsGone, IdleDl, DlAt
<1>2. SInv /\ SInv' /\ CInv /\ [Next]_vars => CInv'
  BY DownloadKeepsCancels, FinalizeKeepsCancels, CallKeepsCancels, OthersKeepCancels
  DEF Next, ServiceNext, SInv
<1>3. CInv => CancelReachesWorker
  BY DEF CInv
<1> QED
  BY <1>1, <1>2, <1>3, ServiceInvariant, PTL DEF Spec
-----------------------------------------------------------------------------
(* What a step does to the rows: it adds one, moves one that is live, ends *)
(* one that is live, or takes one off the list.                            *)

\* The row of a transfer that runs is live, and a transfer's; a retry takes
\* away the row of an install.
TInv ==
    /\ \A id \in transfers :
          /\ id \in 1 .. nextId
          /\ id \in DOMAIN entry => IsLive(id) /\ entry[id].job = ExternalJob
    /\ \A c \in calls : c.op = "dismiss" /\ c.id \in DOMAIN entry =>
          entry[c.id].job \in Jobs

Rests == entry' = entry /\ nextId' = nextId

Adds(job, status) ==
    /\ job \in Jobs \cup {ExternalJob, MoveJob} /\ status \in Live
    /\ Push(job, status)
    /\ job \in Jobs => status = "Queued" \/ (status = "Downloading" /\ SlotsFree)

\* No transfer that goes on is touched.
Touches(id) == id \in DOMAIN entry /\ IsLive(id) /\ id \notin transfers'

Turns(id, status) ==
    /\ Touches(id) /\ status \in Live /\ nextId' = nextId
    /\ entry[id].job \in Jobs => entry[id].status # "Queued" /\ status # "Queued"
    /\ entry' = SetStatus(id, status) \/ entry' = Prune(SetStatus(id, status))

Starts == NextReady /\ Touches(Head(waiting))

Ends(id, status) ==
    /\ Touches(id) /\ status \in Terminal /\ nextId' = nextId
    /\ entry' = Prune(SetStatus(id, status))

OneRow ==
    \/ Rests
    \/ \E job, status : Adds(job, status)
    \/ \E id, status : Turns(id, status)
    \/ Starts
    \/ \E id, status : Ends(id, status)
    \/ \E id \in Ids : Dismiss(id) /\ Offered(id)

\* The owner of a slot, and what waits, are live installs.
LEMMA HeadWaits ==
    ASSUME QInv, Ready
    PROVE  Head(waiting) \in WaitingIds
<1>1. waiting \in Seq(Ids) /\ waiting # << >> /\ Ids \subseteq Int /\ Increasing(waiting)
  BY DEF Ready, QInv, QTypeOK, Ids
<1> QED
  BY <1>1, TailIncreasing DEF WaitingIds

LEMMA InstallsAreLive ==
    ASSUME QInv, TInv, NEW id, id \in Ids \/ id \in WaitingIds
    PROVE  /\ id \in {download, finalize} =>
                /\ id \in DOMAIN entry /\ IsLive(id)
                /\ entry[id].job \in Jobs /\ entry[id].status # "Queued"
                /\ id \notin transfers
           /\ id \in WaitingIds =>
                id \in DOMAIN entry /\ IsLive(id) /\ id \notin transfers
<1>1. id # NoId
  BY WaitingApart DEF QInv, Ids, NoId
<1>2. id \in {download, finalize} \cup WaitingIds =>
         id \in DOMAIN entry /\ entry[id].job \in Jobs
  BY <1>1 DEF QInv, SlotsMatchRows
<1>3. id \in {download, finalize} => entry[id].status \in Live \ {"Queued"}
  BY <1>2 DEF QInv, SlotsMatchRows, Downloading, Live
<1>4. id \in WaitingIds => entry[id].status \in Live
  BY <1>2 DEF QInv, SlotsMatchRows, Live
<1> QED
  BY <1>2, <1>3, <1>4, OtherJobs DEF TInv, IsLive

LEMMA DriversMoveOneRow ==
    ASSUME QInv, TInv, QDriven, transfers' = transfers
    PROVE  OneRow
<1>1. CASE QAdmit
  <2>1. CASE \E job \in Jobs : AdmitDuplicate(job)
    BY <2>1 DEF AdmitDuplicate, queueVars, OneRow, Rests
  <2>2. ASSUME NEW job \in Jobs, AdmitStart(job)
        PROVE  Adds(job, "Downloading")
    BY <2>2 DEF AdmitStart, Adds, Live
  <2>3. ASSUME NEW job \in Jobs, AdmitQueued(job)
        PROVE  Adds(job, "Queued")
    BY <2>3 DEF AdmitQueued, Adds, Live
  <2> QED
    BY <1>1, <2>1, <2>2, <2>3 DEF QAdmit, OneRow
<1>2. ASSUME NEW id \in Ids, NEW result \in {"ok", "cancelled", "failed"},
             NEW skip \in BOOLEAN, DownloadFinished(id, result, skip)
      PROVE  OneRow
  <2>1. CASE download # id
    BY <1>2, <2>1 DEF DownloadFinished, queueVars, OneRow, Rests
  <2>2. CASE download = id
    <3>1. PICK status \in {"Completed", "Installing", "Cancelled", "Failed"} :
             entry' = Prune(SetStatus(id, status))
      BY <1>2, <2>2 DEF DownloadFinished
    <3>2. nextId' = nextId /\ Touches(id) /\ entry[id].status # "Queued"
      BY <1>2, <2>2, InstallsAreLive DEF DownloadFinished, Touches
    <3>3. CASE status = "Installing"
      <4>1. Turns(id, status)
        BY <3>1, <3>2, <3>3 DEF Turns, Live
      <4> QED
        BY <4>1 DEF OneRow
    <3>4. CASE status # "Installing"
      <4>1. Ends(id, status)
        BY <3>1, <3>2, <3>4 DEF Ends, Terminal
      <4> QED
        BY <4>1 DEF OneRow
    <3> QED
      BY <3>3, <3>4
  <2> QED
    BY <2>1, <2>2
<1>3. ASSUME NEW id \in Ids, NEW result \in {"ok", "failed"},
             FinalizeFinished(id, result)
      PROVE  OneRow
  <2>1. CASE finalize # id
    BY <1>3, <2>1 DEF FinalizeFinished, queueVars, OneRow, Rests
  <2>2. CASE finalize = id
    <3>1. PICK status \in {"Completed", "Failed"} : entry' = Prune(SetStatus(id, status))
      BY <1>3, <2>2 DEF FinalizeFinished
    <3>2. Ends(id, status)
      BY <1>3, <2>2, <3>1, InstallsAreLive DEF FinalizeFinished, Touches, Ends, Terminal
    <3> QED
      BY <3>2 DEF OneRow
  <2> QED
    BY <2>1, <2>2
<1>4. CASE NextReady
  BY <1>4, HeadWaits, InstallsAreLive DEF NextReady, Starts, Touches, OneRow
<1>5. CASE NextReadyLost
  <2>1. Touches(Head(waiting))
    BY <1>5, HeadWaits, InstallsAreLive DEF NextReadyLost, Touches
  <2>2. Ends(Head(waiting), "Failed")
    BY <1>5, <2>1 DEF NextReadyLost, Ends, Terminal
  <2> QED
    BY <2>2 DEF OneRow
<1>6. ASSUME NEW id \in Ids, CancelActive(id) PROVE OneRow
  <2>1. Turns(id, "Cancelling")
    BY <1>6, InstallsAreLive DEF CancelActive, Turns, Touches, Live
  <2> QED
    BY <2>1 DEF OneRow
<1>7. ASSUME NEW id \in Ids, CancelQueued(id) PROVE OneRow
  <2>1. Ends(id, "Cancelled")
    BY <1>7, InstallsAreLive DEF CancelQueued, Ends, Touches, Terminal
  <2> QED
    BY <2>1 DEF OneRow
<1>8. ASSUME NEW id \in Ids, Dismiss(id), Offered(id) PROVE OneRow
  BY <1>8 DEF OneRow
<1> QED
  BY <1>1, <1>2, <1>3, <1>4, <1>5, <1>6, <1>7, <1>8 DEF QDriven, QSlot

LEMMA TransferMovesOneRow ==
    ASSUME QInv, TInv, Transfer
    PROVE  OneRow
<1>1. CASE BeginTransfer
  <2>1. Adds(ExternalJob, "Downloading")
    BY <1>1, OtherJobs DEF BeginTransfer, AdmitExternal, Adds, Live
  <2> QED
    BY <2>1 DEF OneRow
<1>2. ASSUME NEW id \in Ids, NEW status \in {"Completed", "Failed"},
             EndTransfer(id, status)
      PROVE  OneRow
  <2>1. id \in transfers /\ id \notin transfers' /\ nextId' = nextId
    BY <1>2 DEF EndTransfer, FinishExternal
  <2>2. CASE id \in DOMAIN entry
    <3>1. IsLive(id) /\ entry[id].job = ExternalJob
      BY <2>1, <2>2 DEF TInv
    <3>2. Ends(id, status)
      BY <1>2, <2>1, <2>2, <3>1 DEF EndTransfer, FinishExternal, Ends, Touches, Terminal
    <3> QED
      BY <3>2 DEF OneRow
  <2>3. CASE id \notin DOMAIN entry
    BY <1>2, <2>1, <2>3 DEF EndTransfer, FinishExternal, OneRow, Rests
  <2> QED
    BY <2>2, <2>3
<1> QED
  BY <1>1, <1>2 DEF Transfer

LEMMA MoverMovesOneRow ==
    ASSUME QInv, TInv, Mover
    PROVE  OneRow
<1>1. CASE CloseGate \/ OpenGate
  BY <1>1 DEF CloseGate, OpenGate, queueVars, OneRow, Rests
<1>2. CASE BeginLibraryMove
  <2>1. Adds(MoveJob, "Installing")
    BY <1>2, OtherJobs DEF BeginLibraryMove, AdmitLibraryMove, Adds, Live
  <2> QED
    BY <2>1 DEF OneRow
<1>3. ASSUME NEW id \in Ids, ShowLibraryMove(id) PROVE OneRow
  <2>1. id \in DOMAIN entry /\ entry[id].job = MoveJob /\ IsLive(id) /\ transfers' = transfers
    BY <1>3 DEF ShowLibraryMove
  <2>2. MoveJob # ExternalJob /\ MoveJob \notin Jobs
    BY OtherJobs DEF MoveJob, ExternalJob
  <2>3. Touches(id)
    BY <2>1, <2>2 DEF TInv, Touches
  <2>4. ASSUME NEW status \in {"Downloading", "Installing"}, SetLibraryMoveCopying(id, status)
        PROVE  Turns(id, status)
    BY <2>1, <2>2, <2>3, <2>4 DEF SetLibraryMoveCopying, Turns, Live
  <2>5. ASSUME NEW status \in Terminal, EndLibraryMove(id, status)
        PROVE  Ends(id, status)
    BY <2>1, <2>3, <2>5 DEF EndLibraryMove, Ends
  <2> QED
    BY <1>3, <2>4, <2>5 DEF ShowLibraryMove, OneRow
<1> QED
  BY <1>1, <1>2, <1>3 DEF Mover

LEMMA StepsMoveOneRow == SInv /\ TInv /\ [Next]_vars => OneRow
<1> SUFFICES ASSUME SInv, TInv, [Next]_vars PROVE OneRow
  OBVIOUS
<1>1. CASE Driver
  <2>1. transfers' = transfers
    BY <1>1
    DEF Driver, DownloadTask, RegisterFlag, RecheckCancel, WorkerEnds, UnregisterFlag,
        ReadInstalled, RecordDownload, PumpAfterDownload, FinalizeTask, FinalizeBase,
        QueueContent, ContentQueued, ReadRow, Merge, FinalizeEmulator, FinalizeFails,
        RecordFinalize, PumpAfterFinalize, CallStep, PlanFails, AdmitPlanned,
        CancelFound, FlipFlag, DropPlan, RetryDismiss, Unstash, Unflag, UserCall,
        RequestInstall, Cancel, DismissRow, Retry, CancelForRom, Uninstall
  <2>2. CASE QDriven
    BY <2>1, <2>2, DriversMoveOneRow DEF SInv
  <2>3. CASE UNCHANGED queueVars
    BY <2>3 DEF queueVars, OneRow, Rests
  <2> QED
    BY <1>1, <2>2, <2>3, DriversStep
<1>2. CASE UNCHANGED vars
  BY <1>2 DEF vars, OneRow, Rests
<1> QED
  BY <1>1, <1>2, TransferMovesOneRow, MoverMovesOneRow DEF SInv, Next, ServiceNext, Driver

\* What OneRow says of every row: an ended one stays as it is while it is on
\* the list, and no row changes its job.
LEMMA RowsAfter ==
    ASSUME QInv, OneRow
    PROVE  /\ nextId' \in {nextId, nextId + 1} /\ nextId \in Nat
           /\ \A id \in DOMAIN entry' :
                 IF id \in DOMAIN entry
                 THEN /\ entry'[id].job = entry[id].job
                      /\ ~Touches(id) => entry'[id] = entry[id]
                 ELSE id = nextId' /\ nextId' = nextId + 1 /\ entry'[id].status \in Live
           /\ \A id \in DOMAIN entry \ DOMAIN entry' :
                 IsLive(id) => Touches(id) \/ Offered(id)
<1>0. nextId \in Nat
  BY BoundsAssumption DEF QInv, QTypeOK
<1>1. CASE Rests
  BY <1>0, <1>1 DEF Rests
<1>2. ASSUME NEW job, NEW status, Adds(job, status)
      PROVE  /\ nextId' = nextId + 1 /\ DOMAIN entry \subseteq DOMAIN entry'
             /\ \A id \in DOMAIN entry' :
                   IF id \in DOMAIN entry THEN entry'[id] = entry[id]
                   ELSE id = nextId' /\ entry'[id].status \in Live
  <2>1. job \in Jobs \cup {ExternalJob, MoveJob} /\ status \in Live /\ Push(job, status)
    BY <1>2 DEF Adds
  <2>2. /\ nextId' = nextId + 1
        /\ DOMAIN entry' = DOMAIN entry \cup {nextId'}
        /\ entry'[nextId'] = [job |-> job, status |-> status]
        /\ \A o \in DOMAIN entry : entry'[o] = entry[o]
    BY <2>1, PushProperties DEF QInv
  <2> QED
    BY <2>1, <2>2
<1>3. ASSUME NEW id, NEW status \in Live \cup Terminal, Touches(id),
             entry' = SetStatus(id, status) \/ entry' = Prune(SetStatus(id, status))
      PROVE  /\ DOMAIN entry' \subseteq DOMAIN entry
             /\ \A o \in DOMAIN entry' :
                   entry'[o].job = entry[o].job /\ (o # id => entry'[o] = entry[o])
             /\ \A o \in DOMAIN entry \ DOMAIN entry' : o # id => ~IsLive(o)
  <2>1. id \in DOMAIN entry
    BY <1>3 DEF Touches
  <2> DEFINE rows == SetStatus(id, status)
  <2>2. /\ DOMAIN rows = DOMAIN entry
        /\ \A o \in DOMAIN entry : rows[o].job = entry[o].job /\ (o # id => rows[o] = entry[o])
    BY <2>1 DEF SetStatus, QInv, QTypeOK, Entry
  <2> HIDE DEF rows
  <2>3. /\ DOMAIN Prune(rows) \subseteq DOMAIN rows
        /\ \A o \in DOMAIN Prune(rows) : Prune(rows)[o] = rows[o]
        /\ \A o \in DOMAIN rows \ DOMAIN Prune(rows) : rows[o].status \in Terminal
    BY PruneProperties
  <2>4. entry' = rows \/ entry' = Prune(rows)
    BY <1>3 DEF rows
  <2>5. \A o \in DOMAIN entry \ DOMAIN entry' : o # id => entry[o].status \in Terminal
    BY <2>2, <2>3, <2>4
  <2> QED
    BY <2>2, <2>3, <2>4, <2>5 DEF IsLive, Live, Terminal
<1>4. ASSUME NEW id, NEW status, Turns(id, status) \/ Ends(id, status)
      PROVE  /\ nextId' = nextId /\ DOMAIN entry' \subseteq DOMAIN entry
             /\ \A o \in DOMAIN entry' : /\ entry'[o].job = entry[o].job
                                         /\ ~Touches(o) => entry'[o] = entry[o]
             /\ \A o \in DOMAIN entry \ DOMAIN entry' : IsLive(o) => Touches(o)
  BY <1>3, <1>4 DEF Turns, Ends
<1>5. CASE Starts
  BY <1>0, <1>3, <1>5 DEF Starts, NextReady, Live
<1>6. ASSUME NEW id \in Ids, Dismiss(id)
      PROVE  /\ nextId' = nextId /\ DOMAIN entry' = DOMAIN entry \ {id}
             /\ \A o \in DOMAIN entry' : entry'[o] = entry[o]
  BY <1>6 DEF Dismiss, Restrict
<1> QED
  BY <1>0, <1>1, <1>2, <1>4, <1>5, <1>6 DEF OneRow

\* Only a transfer that begins is new among them, only a retry adds a call
\* that will dismiss.
LEMMA NewTransfers ==
    ASSUME [Next]_vars, ~BeginTransfer
    PROVE  transfers' \subseteq transfers
  BY MoverTouches
  DEF Next, ServiceNext, Transfer, EndTransfer, vars,
      DownloadTask, RegisterFlag, RecheckCancel, WorkerEnds, UnregisterFlag,
      ReadInstalled, RecordDownload, PumpAfterDownload, FinalizeTask, FinalizeBase,
      QueueContent, ContentQueued, ReadRow, Merge, FinalizeEmulator, FinalizeFails,
      RecordFinalize, PumpAfterFinalize, CallStep, PlanFails, AdmitPlanned,
      CancelFound, FlipFlag, DropPlan, RetryDismiss, Unstash, Unflag, UserCall,
      RequestInstall, Cancel, DismissRow, Retry, CancelForRom, Uninstall

LEMMA NewRetries ==
    ASSUME [Next]_vars, NEW c \in calls' \ calls, c.op = "dismiss"
    PROVE  \E id \in Ids : Retry(id) /\ c.id = id
<1>1. ~\E id \in Ids : DownloadTask(id) \/ FinalizeTask(id)
  BY DEF DownloadTask, RegisterFlag, RecheckCancel, WorkerEnds, UnregisterFlag,
      ReadInstalled, RecordDownload, PumpAfterDownload, FinalizeTask, FinalizeBase,
      QueueContent, ContentQueued, ReadRow, Merge, FinalizeEmulator, FinalizeFails,
      RecordFinalize, PumpAfterFinalize
<1>2. ~\E d \in calls : CallStep(d)
  <2> SUFFICES ASSUME NEW d \in calls, CallStep(d) PROVE FALSE
    OBVIOUS
  <2>1. ~Reinstall(d)
    BY DEF Reinstall, Continue, End, NewCall
  <2>2. ~(CancelFound(d) \/ RetryDismiss(d) \/ Unstash(d))
    BY <2>1 DEF CancelFound, RetryDismiss, Unstash, Continue, End, NewCall
  <2> QED
    BY <2>1, <2>2 DEF CallStep, PlanFails, AdmitPlanned, FlipFlag, DropPlan, Unflag, End
<1>3. ~(Transfer \/ Mover \/ UNCHANGED vars)
  BY MoverTouches DEF Transfer, BeginTransfer, EndTransfer, vars
<1>4. CASE UserCall
  <2>1. PICK id \in Ids : Retry(id)
    BY <1>4 DEF UserCall, RequestInstall, Cancel, DismissRow, CancelForRom, Uninstall,
       Begin, NewCall
  <2> QED
    BY <2>1 DEF Retry, Begin, NewCall
<1> QED
  BY <1>1, <1>2, <1>3, <1>4 DEF Next, ServiceNext

LEMMA TransfersKeep == SInv /\ TInv /\ [Next]_vars => TInv'
<1> SUFFICES ASSUME SInv, TInv, [Next]_vars PROVE TInv'
  OBVIOUS
<1>1. OneRow
  BY StepsMoveOneRow
<1>2. /\ nextId' \in {nextId, nextId + 1} /\ nextId \in Nat
      /\ \A id \in DOMAIN entry' :
            IF id \in DOMAIN entry
            THEN /\ entry'[id].job = entry[id].job
                 /\ ~Touches(id) => entry'[id] = entry[id]
            ELSE id = nextId' /\ nextId' = nextId + 1
  BY <1>1, RowsAfter DEF SInv
<1>3. ASSUME NEW id \in transfers, id \in transfers'
      PROVE  /\ id \in 1 .. nextId'
             /\ id \in DOMAIN entry' => /\ entry'[id].status \in Live
                                        /\ entry'[id].job = ExternalJob
  <2>1. id \in 1 .. nextId /\ ~Touches(id)
    BY <1>3 DEF TInv, Touches
  <2>2. id \in DOMAIN entry' => id \in DOMAIN entry /\ entry'[id] = entry[id]
    BY <1>2, <2>1
  <2> QED
    BY <1>2, <2>1, <2>2 DEF TInv, IsLive
<1>4. \A id \in transfers' :
         /\ id \in 1 .. nextId'
         /\ id \in DOMAIN entry' => IsLive(id)' /\ entry'[id].job = ExternalJob
  <2>1. CASE BeginTransfer
    <3>1. /\ nextId' = nextId + 1
          /\ entry'[nextId'] = [job |-> ExternalJob, status |-> "Downloading"]
      BY <2>1, PushProperties DEF BeginTransfer, AdmitExternal, SInv, QInv, Live
    <3>2. transfers' = transfers \cup {nextId'}
      BY <2>1, <3>1 DEF BeginTransfer
    <3>3. entry'[nextId'].job = ExternalJob /\ entry'[nextId'].status \in Live
      BY <3>1 DEF Live
    <3>4. nextId' \in 1 .. nextId'
      BY <1>2, <3>1
    <3> QED
      BY <1>3, <3>2, <3>3, <3>4 DEF IsLive
  <2>2. CASE ~BeginTransfer
    BY <1>3, <2>2, NewTransfers DEF IsLive
  <2> QED
    BY <2>1, <2>2
<1>5. ASSUME NEW c \in calls', c.op = "dismiss", c.id \in DOMAIN entry'
      PROVE  entry'[c.id].job \in Jobs
  <2>1. CASE c \in calls
    <3>1. c.id \in 1 .. nextId
      BY <1>5, <2>1 DEF SInv, CallsMakeSense
    <3>2. c.id \in DOMAIN entry /\ entry'[c.id].job = entry[c.id].job
      BY <1>2, <1>5, <3>1
    <3> QED
      BY <1>5, <2>1, <3>2 DEF TInv
  <2>2. CASE c \notin calls
    <3>1. PICK id \in Ids : Retry(id) /\ c.id = id
      BY <1>5, <2>2, NewRetries
    <3> QED
      BY <3>1 DEF Retry, queueVars
  <2> QED
    BY <2>1, <2>2
<1> QED
  BY <1>4, <1>5 DEF TInv

LEMMA TransfersInvariant == Spec => []TInv
<1>1. Init => TInv
  BY DEF Init, TInv
<1> QED
  BY <1>1, TransfersKeep, ServiceInvariant, PTL DEF Spec

\* An ended row keeps its outcome, whatever cancels, tasks and transfers come
\* late.
THEOREM OutcomesAreFinal == Spec => OutcomeIsFinal
<1>1. SInv /\ TInv /\ [Next]_vars =>
         [\A id \in DOMAIN entry \cap DOMAIN entry' :
             IsTerminal(id) => entry'[id] = entry[id]]_vars
  <2> SUFFICES ASSUME SInv, TInv, [Next]_vars,
                      NEW id \in DOMAIN entry \cap DOMAIN entry', IsTerminal(id)
               PROVE  entry'[id] = entry[id]
    OBVIOUS
  <2>1. ~Touches(id)
    BY DEF Touches, IsLive, IsTerminal, Live, Terminal
  <2> QED
    BY <2>1, StepsMoveOneRow, RowsAfter DEF SInv
<1> QED
  BY <1>1, ServiceInvariant, TransfersInvariant, PTL DEF Spec, OutcomeIsFinal

-----------------------------------------------------------------------------
(* A transfer keeps its row, if the frontend is the only one to dismiss.   *)

LEMMA RowsKept ==
    ASSUME ~AnyCaller, SInv, TInv, TInv', TransferKeepsItsRow, [Next]_vars
    PROVE  TransferKeepsItsRow'
<1> SUFFICES ASSUME NEW id \in transfers' PROVE id \in DOMAIN entry'
  BY DEF TransferKeepsItsRow, TInv, IsLive
<1>1. CASE id \notin transfers
  <2>1. BeginTransfer
    BY <1>1, NewTransfers
  <2>2. id = nextId + 1 /\ nextId' = nextId + 1 /\ DOMAIN entry' = DOMAIN entry \cup {nextId'}
    BY <1>1, <2>1, PushProperties DEF BeginTransfer, AdmitExternal, SInv, QInv, Live
  <2> QED
    BY <2>2
<1>2. CASE id \in transfers
  <2>1. id \in DOMAIN entry /\ IsLive(id) /\ entry[id].job \notin Jobs
    BY <1>2, OtherJobs DEF TransferKeepsItsRow, TInv
  <2>2. ~Touches(id) /\ ~IsTerminal(id)
    BY <2>1 DEF Touches, IsLive, IsTerminal, Live, Terminal
  <2>3. ~Offered(id)
    BY <2>1, <2>2 DEF Offered, TInv
  <2> QED
    BY <2>1, <2>2, <2>3, StepsMoveOneRow, RowsAfter DEF SInv
<1> QED
  BY <1>1, <1>2

\* While only the frontend dismisses rows, a transfer that runs has a live one,
\* so the library move waits for it (queue.rs:112-114).
THEOREM TransfersKeepRows ==
    ASSUME ~AnyCaller
    PROVE  Spec => []TransferKeepsItsRow
<1>1. Init => TransferKeepsItsRow
  BY DEF Init, TransferKeepsItsRow
<1>2. SInv /\ TInv /\ TInv' /\ TransferKeepsItsRow /\ [Next]_vars => TransferKeepsItsRow'
  BY RowsKept
<1> QED
  BY <1>1, <1>2, ServiceInvariant, TransfersInvariant, PTL DEF Spec

-----------------------------------------------------------------------------
(* The service implements the pipeline.                                    *)

Row == [id \in Ids |-> Stage(id)]

\* The stages of the rows, where they are.
LEMMA Stages ==
    ASSUME QInv, NEW id \in Ids
    PROVE  /\ Stage(id) = "none" <=> id > nextId
           /\ Stage(id) \in {"ended", "aside", "waiting", "running"} <=> id \in DOMAIN entry
           /\ Stage(id) = "ended" <=> id \in DOMAIN entry /\ IsTerminal(id)
           /\ Stage(id) = "waiting" <=> id \in WaitingIds
           /\ Stage(id) = "running" <=> id \in {download, finalize}
<1>1. id # NoId /\ nextId \in Nat /\ (id \in DOMAIN entry => ~(id > nextId))
  BY BoundsAssumption DEF QInv, QTypeOK, Ids, NoId
<1>2. /\ id \in {download, finalize} \cup WaitingIds =>
            id \in DOMAIN entry /\ entry[id].job \in Jobs
      /\ id \in DOMAIN entry /\ entry[id].job \in Jobs =>
            /\ Downloading(id) <=> download = id
            /\ entry[id].status = "Installing" <=> finalize = id
            /\ entry[id].status = "Queued" <=> id \in WaitingIds
  BY <1>1 DEF QInv, SlotsMatchRows
<1>3. id \in DOMAIN entry => entry[id].status \in Live \cup Terminal
  BY DEF QInv, QTypeOK, Entry
<1>4. CASE id \notin DOMAIN entry
  BY <1>1, <1>2, <1>4 DEF Stage
<1>5. CASE id \in DOMAIN entry /\ entry[id].job \notin Jobs
  <2>1. Stage(id) = IF IsTerminal(id) THEN "ended" ELSE "aside"
    BY <1>1, <1>5 DEF Stage
  <2>2. id \notin {download, finalize} \cup WaitingIds /\ ~(id > nextId)
    BY <1>1, <1>2, <1>5
  <2> QED
    BY <1>5, <2>1, <2>2
<1>6. CASE id \in DOMAIN entry /\ entry[id].job \in Jobs
  <2>1. Stage(id) = IF IsTerminal(id) THEN "ended"
                    ELSE IF entry[id].status = "Queued" THEN "waiting" ELSE "running"
    BY <1>1, <1>6 DEF Stage
  <2>2. id \in {download, finalize} <=>
           entry[id].status \in {"Downloading", "Cancelling", "Installing"}
    BY <1>2, <1>6 DEF Downloading
  <2>3. id \in WaitingIds <=> entry[id].status = "Queued"
    BY <1>2, <1>6
  <2>4. entry[id].status \in {"Queued", "Downloading", "Installing", "Cancelling",
                              "Completed", "Failed", "Cancelled"}
    BY <1>3, <1>6 DEF Live, Terminal
  <2>5. IsTerminal(id) <=> entry[id].status \in {"Completed", "Failed", "Cancelled"}
    BY DEF IsTerminal, Terminal
  <2>6. ~(id > nextId)
    BY <1>1, <1>6
  <2> QED
    BY <1>6, <2>1, <2>2, <2>3, <2>4, <2>5, <2>6
<1> QED
  BY <1>4, <1>5, <1>6

\* A step that moves one row changes one stage.
LEMMA OneStage ==
    ASSUME NEW id \in Ids, NEW stage, Stage(id)' = stage,
           \A o \in Ids : o # id => Stage(o)' = Stage(o)
    PROVE  Row' = [Row EXCEPT ![id] = stage]
  BY DEF Row

LEMMA AddIsAsk ==
    ASSUME QInv, NEW job, NEW status, Adds(job, status)
    PROVE  Pipeline!Next
<1>1. /\ nextId' = nextId + 1 /\ nextId' \in 1 .. MaxId /\ nextId' \notin DOMAIN entry
      /\ DOMAIN entry' = DOMAIN entry \cup {nextId'}
      /\ entry'[nextId'] = [job |-> job, status |-> status]
      /\ \A o \in DOMAIN entry : entry'[o] = entry[o]
      /\ status \in Live /\ nextId \in Nat
  <2>1. job \in Jobs \cup {ExternalJob, MoveJob} /\ status \in Live /\ Push(job, status)
    BY DEF Adds
  <2>2. nextId \in Nat
    BY BoundsAssumption DEF QInv, QTypeOK
  <2> QED
    BY <2>1, <2>2, PushProperties DEF QInv
<1>2. PICK new \in Ids : new = nextId'
  BY <1>1 DEF Ids
<1>3. Stage(new) = "none" /\ \A o \in Ids : Stage(o) = "none" => new <= o
  BY <1>1, <1>2, Stages DEF Ids
<1>4. \A o \in Ids : o # new => Stage(o)' = Stage(o)
  BY <1>1, <1>2 DEF Ids, Stage, IsTerminal
<1>5. Stage(new)' = IF job \notin Jobs THEN "aside"
                    ELSE IF status = "Queued" THEN "waiting" ELSE "running"
  <2>1. ~(new > nextId') /\ new \in DOMAIN entry'
    BY <1>1, <1>2 DEF Ids
  <2>2. entry'[new].job = job /\ entry'[new].status = status /\ status \notin Terminal
    BY <1>1, <1>2 DEF Live, Terminal
  <2> QED
    BY <2>1, <2>2 DEF Stage, IsTerminal
<1>6. PICK stage \in {"aside", "waiting", "running"} : Stage(new)' = stage
  BY <1>5
<1>7. stage = "running" => \A o \in Ids : Stage(o) # "running"
  <2>1. stage = "running" => SlotsFree
    BY <1>5, <1>6 DEF Adds
  <2>2. SlotsFree => \A o \in Ids : o \notin {download, finalize}
    BY DEF SlotsFree, Ids, NoId
  <2> QED
    BY <2>1, <2>2, Stages
<1>8. Row' = [Row EXCEPT ![new] = stage]
  BY <1>4, <1>6, OneStage
<1>9. Pipeline!Ask(new)
  BY <1>3, <1>7, <1>8 DEF Pipeline!Ask, Pipeline!At, Pipeline!NothingRuns, Row
<1> QED
  BY <1>9 DEF Pipeline!Next

\* The rest of the steps.  A full history bounds the pruning of a download's
\* end: it drops nothing when no row ends.
LEMMA PruneRests ==
    ASSUME NEW rows, IsFiniteSet(DOMAIN rows), DOMAIN rows \subseteq Nat,
           Cardinality(Over(rows)) <= TerminalHistory
    PROVE  DOMAIN Prune(rows) = DOMAIN rows
<1> SUFFICES ASSUME DOMAIN Prune(rows) # DOMAIN rows PROVE FALSE
  OBVIOUS
<1>1. Cardinality(Over(Prune(rows))) = TerminalHistory
  BY PruneCounts
<1>2. /\ DOMAIN Prune(rows) \subseteq DOMAIN rows
      /\ \A id \in DOMAIN Prune(rows) : Prune(rows)[id] = rows[id]
      /\ \A id \in DOMAIN rows \ DOMAIN Prune(rows) : rows[id].status \in Terminal
  BY PruneProperties
<1>3. Over(Prune(rows)) \in SUBSET Over(rows) /\ Over(Prune(rows)) # Over(rows)
  BY <1>2 DEF Over
<1>4. IsFiniteSet(Over(rows))
  <2>1. Over(rows) \in SUBSET DOMAIN rows
    BY DEF Over
  <2> QED
    BY <2>1, FS_Subset
<1>5. /\ Cardinality(Over(Prune(rows))) <= Cardinality(Over(rows))
      /\ Cardinality(Over(rows)) # Cardinality(Over(Prune(rows)))
      /\ IsFiniteSet(Over(Prune(rows)))
  BY <1>3, <1>4, FS_Subset
<1>6. Cardinality(Over(rows)) \in Nat /\ Cardinality(Over(Prune(rows))) \in Nat
  BY <1>4, <1>5, FS_CardinalityType
<1> QED
  BY <1>1, <1>5, <1>6, BoundsAssumption

\* A row that turns stays where it is for the pipeline.
LEMMA TurnIsStutter ==
    ASSUME QInv, HistoryBounded, NEW id, NEW status, Turns(id, status)
    PROVE  Row' = Row
<1> DEFINE rows == SetStatus(id, status)
<1>1. id \in DOMAIN entry /\ IsLive(id) /\ status \in Live /\ nextId' = nextId
  BY DEF Turns, Touches
<1>2. /\ DOMAIN rows = DOMAIN entry
      /\ IsFiniteSet(DOMAIN entry) /\ DOMAIN entry \subseteq Nat
      /\ \A o \in DOMAIN entry \ {id} : rows[o] = entry[o]
      /\ rows[id].job = entry[id].job /\ rows[id].status = status
  BY <1>1, StatusDomain DEF SetStatus, QInv, QTypeOK, Entry
<1>3. entry' = rows \/ entry' = Prune(rows)
  BY DEF Turns
<1> HIDE DEF rows
<1>4. DOMAIN entry' = DOMAIN entry /\ \A o \in DOMAIN entry : entry'[o] = rows[o]
  <2>1. Over(rows) = Over(entry)
    BY <1>1, <1>2 DEF Over, IsLive, Live, Terminal
  <2>2. Cardinality(Over(rows)) <= TerminalHistory
    BY <2>1 DEF HistoryBounded, Over, IsTerminal
  <2>3. DOMAIN Prune(rows) = DOMAIN rows
    BY <1>2, <2>2, PruneRests
  <2> QED
    BY <1>2, <1>3, <2>3, PruneProperties
<1>5. \A o \in Ids : Stage(o)' = Stage(o)
  <2> SUFFICES ASSUME NEW o \in Ids PROVE Stage(o)' = Stage(o)
    OBVIOUS
  <2>1. CASE o # id
    BY <1>1, <1>2, <1>4, <2>1 DEF Stage, IsTerminal
  <2>2. CASE o = id
    <3>1. entry'[o].job = entry[o].job /\ entry'[o].status = status
      BY <1>1, <1>2, <1>4, <2>2
    <3>2. ~IsTerminal(o) /\ status \notin Terminal
      BY <1>1, <2>2 DEF IsTerminal, IsLive, Live, Terminal
    <3>3. entry[o].job \in Jobs => entry[o].status # "Queued" /\ status # "Queued"
      BY <2>2 DEF Turns
    <3> QED
      BY <1>1, <1>4, <2>2, <3>1, <3>2, <3>3 DEF Stage, IsTerminal
  <2> QED
    BY <2>1, <2>2
<1> QED
  BY <1>5 DEF Row

LEMMA StartIsStart ==
    ASSUME QInv, Starts
    PROVE  Pipeline!Next
<1>1. /\ Ready /\ SlotsFree /\ Head(waiting) \in WaitingIds
      /\ waiting' = Tail(waiting) /\ download' = Head(waiting)
      /\ entry' = SetStatus(Head(waiting), "Downloading") /\ nextId' = nextId
  BY HeadWaits DEF Starts, NextReady, Ready
<1>2. PICK id \in Ids : id = Head(waiting)
  BY <1>1, WaitingApart DEF QInv
<1>3. \A o \in WaitingIds : id <= o
  <2>1. waiting \in Seq(Ids) /\ waiting # << >> /\ Increasing(waiting)
    BY <1>1 DEF QInv, QTypeOK, Ready
  <2>2. Head(waiting) = waiting[1] /\ Len(waiting) \in Nat /\ DOMAIN waiting = 1 .. Len(waiting)
    BY <2>1, HeadTailProperties, LenProperties
  <2> SUFFICES ASSUME NEW i \in 1 .. Len(waiting) PROVE id <= waiting[i]
    BY <2>2 DEF WaitingIds, Range
  <2>3. waiting[i] \in Ids /\ waiting[1] \in Ids /\ 1 \in DOMAIN waiting
    BY <2>1, <2>2, ElementOfSeq
  <2>4. CASE i = 1
    BY <1>2, <2>2, <2>3, <2>4 DEF Ids
  <2>5. CASE i # 1
    BY <1>2, <2>1, <2>2, <2>3, <2>5 DEF Increasing, Ids
  <2> QED
    BY <2>4, <2>5
<1>4. Stage(id) = "waiting" /\ \A o \in Ids : Stage(o) # "running"
  <2>1. \A o \in Ids : o \notin {download, finalize}
    BY <1>1 DEF SlotsFree, Ids, NoId
  <2> QED
    BY <1>1, <1>2, <2>1, Stages
<1>5. Stage(id)' = "running"
  <2>1. id \in DOMAIN entry /\ entry[id].job \in Jobs /\ ~(id > nextId)
    BY <1>1, <1>2, WaitingApart DEF QInv, QTypeOK, Ids
  <2>2. /\ DOMAIN entry' = DOMAIN entry
        /\ entry'[id].job = entry[id].job /\ entry'[id].status = "Downloading"
    BY <1>1, <1>2, <2>1, StatusOnly DEF QInv, Live
  <2> QED
    BY <1>1, <2>1, <2>2 DEF Stage, IsTerminal, Terminal
<1>6. \A o \in Ids : o # id => Stage(o)' = Stage(o)
  BY <1>1, <1>2 DEF SetStatus, Stage, IsTerminal
<1>7. Row' = [Row EXCEPT ![id] = "running"]
  BY <1>5, <1>6, OneStage
<1>8. \A o \in Ids : Stage(o) = "waiting" => id <= o
  BY <1>3, Stages
<1>9. Pipeline!Start(id)
  BY <1>4, <1>7, <1>8 DEF Pipeline!Start, Pipeline!At, Pipeline!NothingRuns, Row
<1> QED
  BY <1>9 DEF Pipeline!Next

LEMMA EndIsEnd ==
    ASSUME QInv, NEW id, NEW status, Ends(id, status)
    PROVE  Pipeline!Next
<1> DEFINE rows == SetStatus(id, status)
           dropped == DOMAIN entry \ DOMAIN entry'
<1>1. id \in DOMAIN entry /\ IsLive(id) /\ status \in Terminal /\ nextId' = nextId
  BY DEF Ends, Touches
<1>2. /\ DOMAIN rows = DOMAIN entry
      /\ \A o \in DOMAIN entry \ {id} : rows[o] = entry[o]
      /\ rows[id].status = status
  BY <1>1 DEF SetStatus, QInv, QTypeOK, Entry
<1>3. entry' = Prune(rows)
  BY DEF Ends
<1> HIDE DEF rows
<1>4. /\ DOMAIN entry' \subseteq DOMAIN entry
      /\ \A o \in DOMAIN entry' : entry'[o] = rows[o]
      /\ \A o \in dropped : rows[o].status \in Terminal
  BY <1>2, <1>3, PruneProperties
<1>5. nextId \in Nat /\ DOMAIN entry \subseteq Ids /\ \A o \in DOMAIN entry : ~(o > nextId)
  BY BoundsAssumption DEF QInv, QTypeOK, Ids
<1>6. Stage(id) \in {"waiting", "running", "aside"}
  BY <1>1, <1>5 DEF Stage, IsTerminal, IsLive, Live, Terminal
<1>7. ASSUME NEW o \in dropped
      PROVE  (o = id \/ Stage(o) = "ended") /\ Stage(o)' = "gone"
  BY <1>1, <1>2, <1>4, <1>5, <1>7 DEF Stage, IsTerminal
<1>8. ASSUME NEW o \in Ids, o \notin dropped
      PROVE  Stage(o)' = IF o = id THEN "ended" ELSE Stage(o)
  <2>1. CASE o = id
    BY <1>1, <1>2, <1>4, <1>5, <1>8, <2>1 DEF Stage, IsTerminal
  <2>2. CASE o # id /\ o \in DOMAIN entry
    BY <1>1, <1>2, <1>4, <1>5, <1>8, <2>2 DEF Stage, IsTerminal
  <2>3. CASE o # id /\ o \notin DOMAIN entry
    BY <1>1, <1>4, <2>3 DEF Stage
  <2> QED
    BY <2>1, <2>2, <2>3
<1>9. PICK gone \in SUBSET ({o \in Ids : Stage(o) = "ended"} \cup {id}) : gone = dropped
  BY <1>5, <1>7
<1> HIDE DEF dropped
<1>10. Row' = [o \in Ids |-> IF o \in gone THEN "gone"
                             ELSE IF o = id THEN "ended" ELSE Row[o]]
  BY <1>7, <1>8, <1>9 DEF Row
<1>11. id \in Ids
  BY <1>1, <1>5
<1>12. Pipeline!End(id)
  BY <1>6, <1>9, <1>10, <1>11 DEF Pipeline!End, Pipeline!At, Row
<1> QED
  BY <1>11, <1>12 DEF Pipeline!Next

LEMMA DismissIsForget ==
    ASSUME QInv, NEW id \in Ids, Dismiss(id)
    PROVE  Pipeline!Next
<1>1. /\ id \in DOMAIN entry /\ id \notin {download, finalize} /\ nextId' = nextId
      /\ DOMAIN entry' = DOMAIN entry \ {id}
      /\ \A o \in DOMAIN entry' : entry'[o] = entry[o]
  BY DEF Dismiss, Dismissable, Restrict
<1>2. Stage(id) \in {"ended", "aside", "waiting"}
  BY <1>1, Stages
<1>3. Stage(id)' = "gone"
  BY <1>1 DEF Stage, QInv, QTypeOK, Ids
<1>4. \A o \in Ids : o # id => Stage(o)' = Stage(o)
  BY <1>1 DEF Stage, IsTerminal
<1>5. Row' = [Row EXCEPT ![id] = "gone"]
  BY <1>3, <1>4, OneStage
<1>6. Pipeline!Forget(id)
  BY <1>2, <1>5 DEF Pipeline!Forget, Row
<1> QED
  BY <1>6 DEF Pipeline!Next

\* The tasks, flags and slots implement the pipeline: one job at a time, the
\* oldest first, what ended stays ended.
THEOREM ServiceImplementsPipeline == Spec => ImplementsPipeline
<1>1. Init => Pipeline!Init
  <2> SUFFICES ASSUME Init PROVE Pipeline!Init
    OBVIOUS
  <2>1. nextId = 0
    BY DEF Init, QInit
  <2>2. \A id \in Ids : id > nextId
    BY <2>1 DEF Ids
  <2> QED
    BY <2>2 DEF Pipeline!Init, Stage
<1>2. SInv /\ TInv /\ HistoryBounded /\ [Next]_vars =>
         [Pipeline!Next]_([id \in Ids |-> Stage(id)])
  <2> SUFFICES ASSUME SInv, TInv, HistoryBounded, [Next]_vars
               PROVE  Pipeline!Next \/ Row' = Row
    BY DEF Row
  <2>1. CASE Rests
    BY <2>1 DEF Rests, Row, Stage, IsTerminal
  <2> QED
    BY <2>1, StepsMoveOneRow, AddIsAsk, TurnIsStutter, StartIsStart, EndIsEnd,
       DismissIsForget DEF OneRow, SInv
<1>3. Spec => []HistoryBounded
  BY ServiceImplementsQueue, HistoryStaysBounded
<1> QED
  BY <1>1, <1>2, <1>3, ServiceInvariant, TransfersInvariant, PTL
  DEF Spec, ImplementsPipeline, Pipeline!Spec
=============================================================================
